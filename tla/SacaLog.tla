------------------------------- MODULE SacaLog -------------------------------
(***************************************************************************)
(* The transfer log of the Linux build.                                    *)
(*                                                                         *)
(* A sender thread (thread_sender, gopher.c) that has delivered its file   *)
(* takes the process-shared mutex, counts itself in condVar->cont, writes  *)
(* two messages into the pipe (the length of its line, then the line),     *)
(* signals the condition variable and unlocks.  The log process            *)
(* (log_management, log.c) sleeps on the condition variable and, each time *)
(* it wakes, reads cont records from the pipe and appends them to          *)
(* sacagawea.log, holding the mutex all the while.  close_all              *)
(* (sacagawea.c) takes the whole down.                                     *)
(*                                                                         *)
(* A message stands for its bytes: [kind |-> "len", rec |-> s] for the     *)
(* integer, [kind |-> "text", rec |-> s] for the line of sender s.  The    *)
(* log process does not know which is which: it takes the first message it *)
(* reads for a length and the next one for the text.                       *)
(***************************************************************************)
EXTENDS Naturals, Sequences

CONSTANTS
    Senders,      \* the sender threads, one per transferred file
    Logger,       \* the log process, as an owner of the mutex
    Nobody,       \* the owner of the free mutex
    Mode,         \* 't': senders are threads of the server; 'p': of a child each
    PipeCap,      \* messages the pipe holds before write() blocks
    LoggerFirst   \* TRUE: the log process waits before the first client comes

ASSUME LogAssumption ==
    /\ Logger \notin Senders
    /\ Nobody \notin Senders \cup {Logger}
    /\ Mode \in {"t", "p"}
    /\ PipeCap \in Nat \ {0}
    /\ LoggerFirst \in BOOLEAN

VARIABLES
    mutex,        \* condVar->mutex: its owner
    mutexValid,   \* FALSE once pthread_mutex_destroy() has succeeded
    cont,         \* condVar->cont: records announced and not yet read
    pipe,         \* the messages in condVar->pipe_conf
    spc,          \* where each sender thread is
    lpc,          \* where the log process is
    lenRead,      \* the message log_management last took for a length
    log,          \* sacagawea.log
    srv,          \* where the main process is in close_all
    sigterm       \* SIGTERM has been sent to the log process

vars == <<mutex, mutexValid, cont, pipe, spc, lpc, lenRead, log, srv, sigterm>>

Message == [kind : {"len", "text"}, rec : Senders]
NoMessage == [kind |-> "none", rec |-> Nobody]
Line == [len : Message, text : Message]

SenderPc == {"sending", "lock", "len", "text", "signal", "unlock",
             "done", "dropped", "killed"}
LoggerPc == {"boot", "lock", "wait", "parked", "woken", "drain", "text",
             "exitUnlock", "exitDestroy", "exitClose", "dead"}

(***************************************************************************)
(* condVar is set up and the pipe created before the log process is forked *)
(* and before the listening socket opens.                                  *)
(***************************************************************************)
Init ==
    /\ mutex = Nobody /\ mutexValid = TRUE
    /\ cont = 0 /\ pipe = <<>>
    /\ spc = [s \in Senders |-> "sending"]
    /\ lpc = IF LoggerFirst THEN "parked" ELSE "boot"
    /\ lenRead = NoMessage /\ log = <<>>
    /\ srv = "up" /\ sigterm = FALSE

Alive(s) == spc[s] # "killed" /\ (Mode = "t" => srv # "gone")

\* pipe_conf[1] is closed by close_all in the server's own process only.
WriteEndOpen == Mode = "p" \/ srv \in {"up", "closing"}

\* PR_SET_PDEATHSIG, once requested, turns the server's death into a SIGTERM.
ServerDies ==
    /\ srv' = "gone"
    /\ sigterm' = (sigterm \/ lpc # "boot")

\* A fatal signal takes the whole process of s: the server's, or one child.
ProcessDies(s) ==
    \/ Mode = "t" /\ ServerDies /\ UNCHANGED spc
    \/ Mode = "p" /\ spc' = [spc EXCEPT ![s] = "killed"] /\ UNCHANGED <<srv, sigterm>>

SenderMoves(s, from, to) ==
    /\ Alive(s) /\ spc[s] = from
    /\ spc' = [spc EXCEPT ![s] = to]

LoggerMoves(from, to) == lpc = from /\ lpc' = to

-----------------------------------------------------------------------------
(* Defects the properties have to notice: variants of the actions below.   *)

\* the sender does not take the mutex
LocksNothing(s) ==
    /\ SenderMoves(s, "lock", "len")
    /\ mutex' = s
    /\ cont' = cont + 1
    /\ UNCHANGED <<mutexValid, pipe, lpc, lenRead, log, srv, sigterm>>

\* the signal is forgotten
SignalsNobody(s) ==
    /\ SenderMoves(s, "signal", "unlock")
    /\ UNCHANGED <<mutex, mutexValid, cont, pipe, lpc, lenRead, log, srv, sigterm>>

\* the thread ends without unlocking
UnlocksNothing(s) ==
    /\ SenderMoves(s, "unlock", "done")
    /\ UNCHANGED <<mutex, mutexValid, cont, pipe, lpc, lenRead, log, srv, sigterm>>

\* cont is decremented in the body of the for loop as well as in its header
CountsTwice ==
    /\ cont > 0 /\ pipe # <<>>
    /\ LoggerMoves("drain", "text")
    /\ lenRead' = Head(pipe)
    /\ pipe' = Tail(pipe)
    /\ cont' = cont - 1
    /\ UNCHANGED <<mutex, mutexValid, spc, log, srv, sigterm>>

\* cont is not decremented
CountsNothing ==
    /\ pipe # <<>>
    /\ LoggerMoves("text", "drain")
    /\ log' = Append(log, [len |-> lenRead, text |-> Head(pipe)])
    /\ pipe' = Tail(pipe)
    /\ UNCHANGED <<mutex, mutexValid, cont, spc, lenRead, srv, sigterm>>

\* the line is appended before the partial read() is retried, and once more after
AppendsTwice ==
    /\ pipe # <<>>
    /\ LoggerMoves("text", "drain")
    /\ log' = log \o <<[len |-> lenRead, text |-> Head(pipe)],
                       [len |-> lenRead, text |-> Head(pipe)]>>
    /\ pipe' = Tail(pipe)
    /\ cont' = cont - 1
    /\ UNCHANGED <<mutex, mutexValid, spc, lenRead, srv, sigterm>>

\* one wake-up, one record: an if in place of the for
DrainsOnce ==
    /\ LoggerMoves("drain", "wait")
    /\ UNCHANGED <<mutex, mutexValid, cont, pipe, spc, lenRead, log, srv, sigterm>>

\* the failing log process exits with the mutex
ExitsLocked ==
    /\ LoggerMoves("exitUnlock", "exitDestroy")
    /\ UNCHANGED <<mutex, mutexValid, cont, pipe, spc, lenRead, log, srv, sigterm>>

\* a mutex without the EBUSY check
DestroysAnyway ==
    /\ LoggerMoves("exitDestroy", "exitClose")
    /\ mutexValid' = FALSE
    /\ UNCHANGED <<mutex, cont, pipe, spc, lenRead, log, srv, sigterm>>

-----------------------------------------------------------------------------
(* The sender thread, from the end of its transfer.                        *)

\* The file is delivered and the client has closed, or the transfer failed.
SenderFinishes(s) ==
    /\ \/ SenderMoves(s, "sending", "lock")
       \/ SenderMoves(s, "sending", "done")
    /\ UNCHANGED <<mutex, mutexValid, cont, pipe, lpc, lenRead, log, srv, sigterm>>

\* Locking a destroyed mutex is undefined: it may fail, or (for a thread that
\* was already queued on it) still succeed.
SenderLocks(s) ==
    /\ SenderMoves(s, "lock", "len")
    /\ mutex = Nobody
    /\ mutex' = s
    /\ cont' = cont + 1
    /\ UNCHANGED <<mutexValid, pipe, lpc, lenRead, log, srv, sigterm>>

SenderLockFails(s) ==
    /\ ~mutexValid
    /\ SenderMoves(s, "lock", "done")
    /\ UNCHANGED <<mutex, mutexValid, cont, pipe, lpc, lenRead, log, srv, sigterm>>

\* write() waits for room, holding the mutex.
SenderWrites(s) ==
    /\ WriteEndOpen /\ lpc # "dead" /\ Len(pipe) < PipeCap
    /\ \/ SenderMoves(s, "len", "text")
       \/ SenderMoves(s, "text", "signal")
    /\ pipe' = Append(pipe, [kind |-> spc[s], rec |-> s])
    /\ UNCHANGED <<mutex, mutexValid, cont, lpc, lenRead, log, srv, sigterm>>

\* With no reader left, write() raises SIGPIPE, which nobody handles.
SenderHitsBrokenPipe(s) ==
    /\ WriteEndOpen /\ lpc = "dead"
    /\ Alive(s) /\ spc[s] \in {"len", "text"}
    /\ ProcessDies(s)
    /\ UNCHANGED <<mutex, mutexValid, cont, pipe, lpc, lenRead, log>>

\* write() returns -1 (close_all has closed the pipe): pthread_exit().
SenderWriteFails(s) ==
    /\ ~WriteEndOpen
    /\ \/ SenderMoves(s, "len", "dropped")
       \/ SenderMoves(s, "text", "dropped")
    /\ UNCHANGED <<mutex, mutexValid, cont, pipe, lpc, lenRead, log, srv, sigterm>>

SenderSignals(s) ==
    /\ SenderMoves(s, "signal", "unlock")
    /\ lpc' = IF lpc = "parked" THEN "woken" ELSE lpc
    /\ UNCHANGED <<mutex, mutexValid, cont, pipe, lenRead, log, srv, sigterm>>

\* Unlocking a destroyed mutex is undefined: it may or may not free it.
SenderUnlocks(s) ==
    /\ SenderMoves(s, "unlock", "done")
    /\ mutex' \in IF mutexValid THEN {Nobody} ELSE {Nobody, mutex}
    /\ UNCHANGED <<mutexValid, cont, pipe, lpc, lenRead, log, srv, sigterm>>

\* In 'p' mode the process of one connection can be killed on its own: by
\* SIGKILL, or by a signal for which it inherited close_all as its handler,
\* and close_all sends SIGTERM to the log process of them all.
ChildKilled(s) ==
    /\ Mode = "p" /\ Alive(s)
    /\ spc' = [spc EXCEPT ![s] = "killed"]
    /\ sigterm' \in {sigterm, TRUE}
    /\ UNCHANGED <<mutex, mutexValid, cont, pipe, lpc, lenRead, log, srv>>

-----------------------------------------------------------------------------
(* The log process.                                                        *)

\* prctl(PR_SET_PDEATHSIG): only a death of the server from here on counts.
LoggerStarts ==
    /\ LoggerMoves("boot", "lock")
    /\ UNCHANGED <<mutex, mutexValid, cont, pipe, spc, lenRead, log, srv, sigterm>>

\* pthread_mutex_lock() the first time, the end of pthread_cond_wait() later.
LoggerLocks ==
    /\ mutex = Nobody
    /\ LoggerMoves("lock", "wait") \/ LoggerMoves("woken", "drain")
    /\ mutex' = Logger
    /\ UNCHANGED <<mutexValid, cont, pipe, spc, lenRead, log, srv, sigterm>>

\* pthread_cond_wait() is entered without looking at cont.
LoggerWaits ==
    /\ LoggerMoves("wait", "parked")
    /\ mutex' = Nobody
    /\ UNCHANGED <<mutexValid, cont, pipe, spc, lenRead, log, srv, sigterm>>

LoggerWakesSpuriously ==
    /\ LoggerMoves("parked", "woken")
    /\ UNCHANGED <<mutex, mutexValid, cont, pipe, spc, lenRead, log, srv, sigterm>>

LoggerReadsLength ==
    /\ cont > 0 /\ pipe # <<>>
    /\ LoggerMoves("drain", "text")
    /\ lenRead' = Head(pipe)
    /\ pipe' = Tail(pipe)
    /\ UNCHANGED <<mutex, mutexValid, cont, spc, log, srv, sigterm>>

LoggerWritesLine ==
    /\ pipe # <<>>
    /\ LoggerMoves("text", "drain")
    /\ log' = Append(log, [len |-> lenRead, text |-> Head(pipe)])
    /\ pipe' = Tail(pipe)
    /\ cont' = cont - 1
    /\ UNCHANGED <<mutex, mutexValid, spc, lenRead, srv, sigterm>>

LoggerDrained ==
    /\ cont = 0
    /\ LoggerMoves("drain", "wait")
    /\ UNCHANGED <<mutex, mutexValid, cont, pipe, spc, lenRead, log, srv, sigterm>>

\* read(), fopen() or malloc() fails while the mutex is held.
LoggerFails ==
    /\ \/ cont > 0 /\ LoggerMoves("drain", "exitUnlock")
       \/ LoggerMoves("text", "exitUnlock")
    /\ UNCHANGED <<mutex, mutexValid, cont, pipe, spc, lenRead, log, srv, sigterm>>

\* log_management_exit(): unlock, destroy (EBUSY while locked), close, exit.
LoggerExitUnlocks ==
    /\ LoggerMoves("exitUnlock", "exitDestroy")
    /\ mutex' = Nobody
    /\ UNCHANGED <<mutexValid, cont, pipe, spc, lenRead, log, srv, sigterm>>

LoggerExitDestroys ==
    /\ LoggerMoves("exitDestroy", "exitClose")
    /\ mutexValid' = (mutex # Nobody)
    /\ UNCHANGED <<mutex, cont, pipe, spc, lenRead, log, srv, sigterm>>

LoggerExitCloses ==
    /\ LoggerMoves("exitClose", "dead")
    /\ UNCHANGED <<mutex, mutexValid, cont, pipe, spc, lenRead, log, srv, sigterm>>

\* The log process is forked before main() installs its handlers: SIGTERM has
\* its default action there, wherever it is.
LoggerTerminated ==
    /\ sigterm /\ lpc # "dead"
    /\ lpc' = "dead"
    /\ UNCHANGED <<mutex, mutexValid, cont, pipe, spc, lenRead, log, srv, sigterm>>

-----------------------------------------------------------------------------
(* The main process.                                                       *)

ServerMoves(from, to) == srv = from /\ srv' = to

CloseAllKillsLogger ==
    /\ ServerMoves("up", "closing")
    /\ sigterm' = TRUE
    /\ UNCHANGED <<mutex, mutexValid, cont, pipe, spc, lpc, lenRead, log>>

CloseAllClosesPipe ==
    /\ ServerMoves("closing", "exiting")
    /\ UNCHANGED <<mutex, mutexValid, cont, pipe, spc, lpc, lenRead, log, sigterm>>

CloseAllExits ==
    /\ srv = "exiting"
    /\ ServerDies
    /\ UNCHANGED <<mutex, mutexValid, cont, pipe, spc, lpc, lenRead, log>>

\* exit() without close_all (bind(), select(), accept() failed) or a crash.
ServerFails ==
    /\ srv = "up"
    /\ ServerDies
    /\ UNCHANGED <<mutex, mutexValid, cont, pipe, spc, lpc, lenRead, log>>

-----------------------------------------------------------------------------
SenderStep(s) ==
    \/ SenderLocks(s) \/ SenderLockFails(s)
    \/ SenderWrites(s) \/ SenderHitsBrokenPipe(s) \/ SenderWriteFails(s)
    \/ SenderSignals(s) \/ SenderUnlocks(s)

LoggerStep ==
    \/ LoggerStarts \/ LoggerLocks \/ LoggerWaits
    \/ LoggerReadsLength \/ LoggerWritesLine \/ LoggerDrained

LoggerExits == LoggerExitUnlocks \/ LoggerExitDestroys \/ LoggerExitCloses

ServerStep == CloseAllKillsLogger \/ CloseAllClosesPipe \/ CloseAllExits \/ ServerFails

Next ==
    \/ \E s \in Senders : SenderFinishes(s) \/ SenderStep(s) \/ ChildKilled(s)
    \/ LoggerStep \/ LoggerWakesSpuriously \/ LoggerFails \/ LoggerExits
    \/ LoggerTerminated
    \/ ServerStep

Spec == Init /\ [][Next]_vars

(***************************************************************************)
(* The system while nothing fails and nobody stops it.  The kernel runs    *)
(* every runnable thread in the end; it promises nothing about who gets a  *)
(* contended mutex, so fairness is weak.  A client may never close its     *)
(* connection: SenderFinishes is not fair.  Spurious wake-ups do not go on *)
(* for ever (each of them takes the mutex away from the senders).          *)
(***************************************************************************)
CalmNext ==
    \/ \E s \in Senders : SenderFinishes(s) \/ SenderStep(s)
    \/ LoggerStep \/ LoggerWakesSpuriously

Scheduling ==
    /\ \A s \in Senders : WF_vars(SenderStep(s))
    /\ WF_vars(LoggerStep)
    /\ <>[][~LoggerWakesSpuriously]_vars

CalmSpec == Init /\ [][CalmNext]_vars /\ Scheduling

\* Everything may fail; what has begun to die does die.
FairSpec == Spec /\ Scheduling /\ WF_vars(LoggerExits) /\ WF_vars(LoggerTerminated)

-----------------------------------------------------------------------------
(* What must hold.                                                         *)

\* The type invariant: the ranges of condVar's fields, of the program
\* counters and of the file.  cont is an int that nothing resets: it must not
\* outgrow the number of transfers, nor be decremented below zero.
TypeOK ==
    /\ mutex \in Senders \cup {Logger, Nobody}
    /\ mutexValid \in BOOLEAN
    /\ cont \in Nat
    /\ pipe \in Seq(Message)
    /\ spc \in [Senders -> SenderPc]
    /\ lpc \in LoggerPc
    /\ lenRead \in Message \cup {NoMessage}
    /\ log \in Seq(Line)
    /\ srv \in {"up", "closing", "exiting", "gone"}
    /\ sigterm \in BOOLEAN

\* Two threads write two messages each into one pipe and the reader tells a
\* length from a text by position alone (log.c:64, 84).  Whoever is killed,
\* fails or blocks in between, every line of sacagawea.log was read with the
\* length of its own text.
LinesWhole ==
    \A i \in 1..Len(log) :
        /\ log[i].len.kind = "len" /\ log[i].text.kind = "text"
        /\ log[i].len.rec = log[i].text.rec

\* read() on the pipe blocks, and log_management calls it with the mutex held
\* (log.c:63-91): were cont ahead of what is in the pipe, no sender could ever
\* fill it again.  The log process never reads from an empty pipe.
ReaderNeverStarves ==
    /\ lpc = "drain" /\ cont > 0 => Len(pipe) >= 2
    /\ lpc = "text" => Len(pipe) >= 1

\* A signal sent while the log process is awake is lost (sacagalib.h:84-86);
\* cont makes up for it.  Once the log process has slept a first time, it never
\* sleeps on an announced record that no sender is still about to signal.
NoLostWakeup ==
    LoggerFirst /\ lpc = "parked" /\ mutex \notin Senders => cont = 0

\* pthread_mutex_destroy (log.c:113) comes after the unlock, so a sender can
\* take the mutex in between: destroying it then must fail (EBUSY), so that a
\* sender past its lock call is never inside a mutex that is gone.
NeverDestroyedUnderSender ==
    [][mutexValid /\ ~mutexValid' =>
         \A s \in Senders : spc[s] \notin {"len", "text", "signal", "unlock"}]_vars

\* Refinement of the pipe's promise: what is announced and not yet a line of
\* the file is in the pipe, as the texts it holds.
\* As for the log process, which of them are texts is a matter of position: every
\* second message, and the first one when its length has been taken.
FirstText == IF pipe # <<>> /\ pipe[1].kind = "text" THEN 1 ELSE 2
LoggedRecords == [i \in 1..Len(log) |-> log[i].text.rec]
TextCount == (Len(pipe) + 2 - FirstText) \div 2
PipedRecords == [i \in 1..TextCount |-> pipe[2 * i + FirstText - 2].rec]

Channel == INSTANCE LogChannel WITH
    sent <- LoggedRecords \o PipedRecords, logged <- LoggedRecords

\* Through every failure the file is a prefix of what the senders announced, in
\* their order: no line twice, none invented, none overtaking another.
ChannelSpec == Channel!Spec

\* With nothing failing, every announced transfer becomes a line in the end.
ChannelFairSpec == Channel!FairSpec

\* With nothing failing, no thread that has delivered its file waits for the
\* mutex or the pipe for ever.
SendersFinish == \A s \in Senders : spc[s] = "lock" ~> spc[s] = "done"

\* log_management_exit (log.c:108-118) gives the mutex back, and closes the
\* read end, before it exits.  A log process that fails by itself (no SIGTERM)
\* therefore leaves no sender thread of the server waiting for ever: the sender
\* either finishes or is told by the broken pipe, which ends the server.
FailureStrandsNobody ==
    \A s \in Senders : spc[s] = "lock" ~> spc[s] = "done" \/ sigterm \/ srv = "gone"

-----------------------------------------------------------------------------
(***************************************************************************)
(* Why the invariants hold: the inductive invariant.                       *)
(*                                                                         *)
(* As long as the mutex is not held by a dead thread the pipe alternates   *)
(* lengths and texts, up to what the owner of the mutex has in hand; while *)
(* the log process is in its loop, cont agrees with it, and the log        *)
(* process is about to read the kind it expects.  Once a thread died with  *)
(* the mutex nobody touches the pipe any more; once the log process is on  *)
(* its way out nobody reads it, though senders may go on writing.          *)
(***************************************************************************)
InSection(s) == spc[s] \in {"len", "text", "signal", "unlock", "dropped"}
Stuck == mutex \in Senders /\ spc[mutex] \in {"killed", "dropped"}
InLoop == lpc \in {"boot", "lock", "wait", "parked", "woken", "drain", "text"}
OwnerAt(pc) == mutex \in Senders /\ spc[mutex] = pc

\* The mutex excludes senders from each other, also when it has been destroyed
\* (at worst it is never free again), and from the log process until then.
Exclusion ==
    /\ ~mutexValid => lpc \in {"exitClose", "dead"}
    /\ \A s \in Senders : InSection(s) => mutex = s
    /\ mutexValid =>
         /\ mutex \in Senders => InSection(mutex) \/ spc[mutex] = "killed"
         /\ lpc \in {"wait", "drain", "text", "exitUnlock"} => mutex = Logger

\* Every record counted in cont has its two messages in the pipe, but for
\* those its sender has not written yet and the length already read.
Balance ==
    Len(pipe)
      + (IF lpc = "text" THEN 1 ELSE 0)
      + (IF OwnerAt("len") THEN 2 ELSE IF OwnerAt("text") THEN 1 ELSE 0)
      = 2 * cont

\* A length comes before its text, a text before the next length; the last
\* message is a text, or the length its sender is about to complete.
Framing ==
    /\ \A i \in 1..Len(pipe) :
         IF (i + FirstText) % 2 = 0
         THEN /\ pipe[i].kind = "text"
              /\ i > 1 => pipe[i - 1] = [kind |-> "len", rec |-> pipe[i].rec]
         ELSE pipe[i].kind = "len"
    /\ IF OwnerAt("text")
       THEN Len(pipe) > 0 /\ pipe[Len(pipe)] = [kind |-> "len", rec |-> mutex]
       ELSE Len(pipe) > 0 => pipe[Len(pipe)].kind = "text"

\* The log process has taken the length of the text in front, or none.
Expectation ==
    IF lpc = "text"
    THEN /\ lenRead.kind = "len"
         /\ Len(pipe) > 0
         /\ pipe[1] = [kind |-> "text", rec |-> lenRead.rec]
    ELSE Len(pipe) > 0 => pipe[1].kind = "len"

\* Only a sender past its second write() has a text in the pipe or a line in the
\* file: a record is announced once.
PastText == {"signal", "unlock", "done", "dropped", "killed"}
Announced(s) == spc[s] \in PastText
OneEach ==
    /\ \A i \in 1..Len(log) : Announced(log[i].text.rec)
    /\ \A i \in 1..Len(pipe) : pipe[i].kind = "text" => Announced(pipe[i].rec)

\* A log process that has slept once looks at cont before it sleeps again,
\* and the sender that raises cont wakes it before it unlocks.
Awakening ==
    LoggerFirst =>
        /\ lpc \notin {"boot", "lock"}
        /\ lpc = "wait" => cont = 0
        /\ lpc = "parked" /\ mutex \notin Senders => cont = 0
        /\ lpc = "parked" => ~OwnerAt("unlock")

\* The inductive invariant of the log pipe: the type invariant and the facts
\* above, which together carry LinesWhole, ReaderNeverStarves, NoLostWakeup,
\* NeverDestroyedUnderSender and ChannelSpec from step to step.
LogInv ==
    /\ TypeOK
    /\ Exclusion
    /\ ~Stuck => Framing
    /\ InLoop /\ ~Stuck => Balance /\ Expectation
    /\ LinesWhole
    /\ OneEach
    /\ Awakening

-----------------------------------------------------------------------------
(* What a comment says, and the code does not do.                          *)

\* sacagalib.h:84-86: the log process, when it "is waked up from another
\* signal, [...] remedies the previously lost signal".  A woken log process
\* catches up with cont.
WokenLoggerCatchesUp == lpc = "woken" ~> cont = 0
=============================================================================
