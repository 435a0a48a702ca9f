----------------------------- MODULE SacaServer -----------------------------
(***************************************************************************)
(* The Linux server from accept() to the end of a connection, and its      *)
(* reload on SIGHUP.                                                       *)
(*                                                                         *)
(* The main thread loops in listen_descriptor and accept_wrapper           *)
(* (socket.c): select, copy the settings, accept, start a worker.  SIGHUP  *)
(* interrupts it between any two steps: universal_handler (sacagawea.c)    *)
(* reads sacagawea.conf and, when told that the port changed, closes the   *)
(* listening socket and opens another.  The kernel runs the handler on the *)
(* main thread, which goes on only when the handler has returned.          *)
(*                                                                         *)
(* A worker is a thread ('t') or a child process ('p').  A child inherits  *)
(* the listening socket and never closes it (children.c:218); so does the  *)
(* shell of a popen().  The descriptor number of the listening socket does *)
(* not change: socket() reuses the one just closed.                        *)
(***************************************************************************)
EXTENDS ConfLines, FiniteSets

CONSTANTS
    Clients,      \* one connection each
    Ports,        \* the ports in play
    Taken,        \* those that another program listens on
    NoPort,       \* no port: an unbound socket, a client that is not connected
    Files,        \* the contents sacagawea.conf may have when it is opened
    FileMissing,  \* TRUE: it may also be missing then
    Mode,         \* settings->mode: 't' or 'p'
    MaxFds,       \* sockets of clients the server process can have open
    MaxHups,      \* bound: SIGHUPs sent
    Failures      \* TRUE: fork(), pthread_create(), calloc() may fail

ASSUME ServerAssumption ==
    /\ Taken \subseteq Ports
    /\ NoPort \notin Ports
    /\ FileMissing \in BOOLEAN /\ Failures \in BOOLEAN
    /\ Mode \in {"t", "p"}
    /\ \A f \in Files : \A i \in 1..Len(f) :
         IsPort(f[i]) /\ IsPortNumber(FiveDigits[f[i].port]) =>
             FiveDigits[f[i].port] \in Ports
    /\ MaxFds \in Nat \ {0} /\ MaxHups \in Nat

VARIABLES
    main,         \* where the main thread is in the accept loop
    hand,         \* where the SIGHUP handler is, above it
    port,         \* settings->port
    lsock,        \* the port settings->socket is bound to
    snap,         \* the port in the client_args just filled
    hup,          \* SIGHUP is pending
    ignored,      \* the disposition of SIGHUP is SIG_IGN
    hups,         \* SIGHUPs sent so far
    asked,        \* sacagawea.conf has not been read since the last SIGHUP
    cl,           \* what has become of each client
    at,           \* the port each client connected to
    told,         \* the port in the client_args of each client
    keep          \* [Ports -> workers with a copy of a socket listening there]

netVars == <<cl, at, told, keep>>
hupVars == <<hup, ignored, hups, asked>>
vars == <<main, hand, port, lsock, snap, hupVars, netVars>>

MainPc == {"loop", "select", "ready", "copy", "accept", "spawn", "gone"}
ClientState == {"idle", "queued", "handed", "starting", "serving", "stranded",
                "closed", "reset"}

Init ==
    /\ main = "loop" /\ hand = "none"
    /\ port \in Ports \ Taken /\ lsock = port
    /\ snap = NoPort
    /\ hup = FALSE /\ ignored = FALSE /\ hups = 0 /\ asked = FALSE
    /\ cl = [c \in Clients |-> "idle"]
    /\ at = [c \in Clients |-> NoPort]
    /\ told = [c \in Clients |-> NoPort]
    /\ keep = [p \in Ports |-> {}]

In(states) == {c \in Clients : cl[c] \in states}

\* The clients whose socket is open in the server process.
OpenFds ==
    IF Mode = "t" THEN In({"handed", "starting", "serving", "stranded"})
                  ELSE In({"handed", "stranded"})

Waiting(p) == {c \in In({"queued"}) : at[c] = p}

\* The main thread runs while it is alive and not under the handler.
MainRuns == main # "gone" /\ hand = "none"

\* A listening socket without holders is gone, and its queue is reset.
Unheld(l, k) == {c \in In({"queued"}) : at[c] # l /\ k[at[c]] = {}}

Reset(cs) == [c \in Clients |-> IF c \in cs THEN "reset" ELSE cl[c]]

\* The end of the server process: its sockets are closed, its threads gone.
ServerEnds ==
    /\ main' = "gone" /\ hand' = "none" /\ lsock' = NoPort /\ hup' = FALSE
    /\ cl' = Reset(Unheld(NoPort, keep) \cup OpenFds)
    /\ UNCHANGED <<port, snap, ignored, hups, asked, at, told, keep>>

-----------------------------------------------------------------------------
(* Clients and the administrator.                                          *)

Connects(c) ==
    /\ cl[c] = "idle"
    /\ \E p \in Ports :
        /\ lsock = p \/ keep[p] # {}
        /\ at' = [at EXCEPT ![c] = p]
    /\ cl' = [cl EXCEPT ![c] = "queued"]
    /\ UNCHANGED <<main, hand, port, lsock, snap, hupVars, told, keep>>

\* kill -1: an ignored signal is discarded at once, pending ones do not add up.
SendHup ==
    /\ main # "gone" /\ hups < MaxHups
    /\ hups' = hups + 1
    /\ asked' = TRUE
    /\ hup' = ~ignored
    /\ UNCHANGED <<main, hand, port, lsock, snap, ignored, netVars>>

\* Any signal close_all handles; a failure of select() ends the same way.
Terminates == main # "gone" /\ ServerEnds

-----------------------------------------------------------------------------
(* Defects the properties have to notice: variants of the actions below.   *)

\* the new socket is bound to the port in the last client_args
OpensForgetting ==
    /\ hand = "open" /\ hand' = "none"
    /\ port \notin Taken /\ keep[port] = {}
    /\ lsock' = IF snap = NoPort THEN port ELSE snap
    /\ main' = IF main = "select" THEN "loop" ELSE main
    /\ UNCHANGED <<port, snap, hupVars, netVars>>

\* the thread leaves SIGHUP alone
ThreadKeepsHup(c) ==
    /\ Mode = "t" /\ cl[c] = "starting"
    /\ cl' = [cl EXCEPT ![c] = "serving"]
    /\ UNCHANGED <<main, hand, port, lsock, snap, hupVars, at, told, keep>>

\* a worker that loses its client goes on with the listening socket
WorkerStays(c) ==
    /\ cl[c] = "serving"
    /\ Mode = "t" => \A p \in Ports : c \notin keep[p]
    /\ cl' = [cl EXCEPT ![c] = "closed"]
    /\ UNCHANGED <<main, hand, port, lsock, snap, hupVars, at, told, keep>>

\* a thread ends without close() of its client's socket
WorkerLeaks(c) ==
    /\ cl[c] = "serving"
    /\ Mode = "t" => \A p \in Ports : c \notin keep[p]
    /\ UNCHANGED vars

\* the settings are copied once for all that the loop accepts
SpawnsAnother ==
    /\ MainRuns /\ main = "spawn" /\ main' = "accept"
    /\ \E c \in In({"handed"}) :
        /\ cl' = [cl EXCEPT ![c] = IF Mode = "t" THEN "starting" ELSE "serving"]
        /\ keep' = IF Mode = "t" THEN keep ELSE [keep EXCEPT ![lsock] = @ \cup {c}]
    /\ UNCHANGED <<hand, port, lsock, snap, hupVars, at, told>>

\* the server calls signal(SIGHUP, SIG_IGN) for its worker
SpawnsDeaf ==
    /\ MainRuns /\ main = "spawn" /\ main' = "copy"
    /\ \E c \in In({"handed"}) :
        /\ cl' = [cl EXCEPT ![c] = IF Mode = "t" THEN "starting" ELSE "serving"]
        /\ keep' = IF Mode = "t" THEN keep ELSE [keep EXCEPT ![lsock] = @ \cup {c}]
    /\ ignored' = TRUE /\ hup' = FALSE
    /\ UNCHANGED <<hand, port, lsock, snap, hups, asked, at, told>>

-----------------------------------------------------------------------------
(* The accept loop.                                                        *)

\* FD_ZERO, FD_SET
Loops ==
    /\ MainRuns /\ main = "loop" /\ main' = "select"
    /\ UNCHANGED <<hand, port, lsock, snap, hupVars, netVars>>

SelectReturns ==
    /\ MainRuns /\ main = "select" /\ Waiting(lsock) # {}
    /\ main' = "ready"
    /\ UNCHANGED <<hand, port, lsock, snap, hupVars, netVars>>

\* FD_ISSET, and into accept_wrapper
EntersAccept ==
    /\ MainRuns /\ main = "ready" /\ main' = "copy"
    /\ UNCHANGED <<hand, port, lsock, snap, hupVars, netVars>>

\* calloc and memcpy of the settings
CopiesSettings ==
    /\ MainRuns /\ main = "copy" /\ main' = "accept"
    /\ snap' = port
    /\ UNCHANGED <<hand, port, lsock, hupVars, netVars>>

Accepts ==
    /\ MainRuns /\ main = "accept"
    /\ Cardinality(OpenFds) < MaxFds
    /\ \E c \in Waiting(lsock) :
        /\ cl' = [cl EXCEPT ![c] = "handed"]
        /\ told' = [told EXCEPT ![c] = snap]
    /\ main' = "spawn"
    /\ UNCHANGED <<hand, port, lsock, snap, hupVars, at, keep>>

\* -1, for whatever reason, leaves the loop (socket.c:261-264).
AcceptFails ==
    /\ MainRuns /\ main = "accept"
    /\ \/ Waiting(lsock) = {}              \* EWOULDBLOCK
       \/ Cardinality(OpenFds) = MaxFds    \* EMFILE
    /\ main' = "loop"
    /\ UNCHANGED <<hand, port, lsock, snap, hupVars, netVars>>

\* pthread_create, or fork and close of the server's copy of the socket
Spawns ==
    /\ MainRuns /\ main = "spawn" /\ main' = "copy"
    /\ \E c \in In({"handed"}) :
        /\ cl' = [cl EXCEPT ![c] = IF Mode = "t" THEN "starting" ELSE "serving"]
        /\ keep' = IF Mode = "t" THEN keep ELSE [keep EXCEPT ![lsock] = @ \cup {c}]
    /\ UNCHANGED <<hand, port, lsock, snap, hupVars, at, told>>

\* Nobody closes the socket then (children.c:208-210, 346-348).
SpawnFails ==
    /\ Failures
    /\ MainRuns /\ main = "spawn" /\ main' = "copy"
    /\ cl' = [c \in Clients |-> IF cl[c] = "handed" THEN "stranded" ELSE cl[c]]
    /\ UNCHANGED <<hand, port, lsock, snap, hupVars, at, told, keep>>

\* pthread_detach() of a thread identifier that was never set may crash.
DetachCrashes ==
    /\ Failures /\ Mode = "t"
    /\ MainRuns /\ main = "spawn"
    /\ ServerEnds

-----------------------------------------------------------------------------
(* The SIGHUP handler.                                                     *)

\* read_and_check_conf, in a handler that runs with SIGHUP blocked
HandlerReads(f) ==
    /\ MainRuns /\ hup
    /\ ~FileIsFatal(f)
    /\ hup' = FALSE /\ asked' = FALSE
    /\ port' = FilePort(f, port)
    /\ hand' = IF FileChanges(f, port) THEN "close" ELSE "none"
    /\ main' = IF main = "select" /\ hand' = "none" THEN "loop" ELSE main
    /\ UNCHANGED <<lsock, snap, ignored, hups, netVars>>

\* exit(5): no file; exit(1): "port 0"
HandlerExits ==
    /\ MainRuns /\ hup
    /\ FileMissing \/ \E f \in Files : FileIsFatal(f)
    /\ ServerEnds

HandlerCloses ==
    /\ hand = "close" /\ hand' = "open"
    /\ lsock' = NoPort
    /\ cl' = Reset(Unheld(NoPort, keep))
    /\ UNCHANGED <<main, port, snap, hupVars, at, told, keep>>

\* select() was interrupted: EINTR.
HandlerOpens ==
    /\ hand = "open" /\ hand' = "none"
    /\ port \notin Taken /\ keep[port] = {}
    /\ lsock' = port
    /\ main' = IF main = "select" THEN "loop" ELSE main
    /\ UNCHANGED <<port, snap, hupVars, netVars>>

\* bind(): EADDRINUSE, exit(5)
HandlerCannotBind ==
    /\ hand = "open"
    /\ port \in Taken \/ keep[port] # {}
    /\ ServerEnds

-----------------------------------------------------------------------------
(* The workers.                                                            *)

\* start_thread_management: signal(SIGHUP, SIG_IGN), for the whole process
ThreadIgnoresHup(c) ==
    /\ Mode = "t" /\ cl[c] = "starting"
    /\ cl' = [cl EXCEPT ![c] = "serving"]
    /\ ignored' = TRUE /\ hup' = FALSE
    /\ UNCHANGED <<main, hand, port, lsock, snap, hups, asked, at, told, keep>>

\* popen() in a thread: its shell holds what the server listens on, until pclose().
Popens(c) ==
    /\ Mode = "t" /\ cl[c] = "serving" /\ lsock # NoPort
    /\ \A p \in Ports : c \notin keep[p]
    /\ keep' = [keep EXCEPT ![lsock] = @ \cup {c}]
    /\ UNCHANGED <<main, hand, port, lsock, snap, hupVars, cl, at, told>>

Released(c) == [p \in Ports |-> keep[p] \ {c}]

ShellEnds(c) ==
    /\ Mode = "t" /\ \E p \in Ports : c \in keep[p]
    /\ keep' = Released(c)
    /\ cl' = Reset(Unheld(lsock, Released(c)))
    /\ UNCHANGED <<main, hand, port, lsock, snap, hupVars, at, told>>

\* close_socket_kill_child; a child's copy of the listening socket goes with it.
WorkerEnds(c) ==
    /\ cl[c] = "serving"
    /\ Mode = "t" => \A p \in Ports : c \notin keep[p]
    /\ keep' = Released(c)
    /\ cl' = [Reset(Unheld(lsock, Released(c))) EXCEPT ![c] = "closed"]
    /\ UNCHANGED <<main, hand, port, lsock, snap, hupVars, at, told>>

\* calloc() fails in a thread: exit(1) (children.c:249-256) ends the server.
ThreadExitsServer(c) ==
    /\ Failures /\ Mode = "t" /\ cl[c] = "serving"
    /\ ServerEnds

-----------------------------------------------------------------------------
AcceptLoop ==
    \/ Loops \/ SelectReturns \/ EntersAccept \/ CopiesSettings
    \/ Accepts \/ AcceptFails \/ Spawns \/ SpawnFails \/ DetachCrashes

Handler ==
    \/ \E f \in Files : HandlerReads(f)
    \/ HandlerExits \/ HandlerCloses \/ HandlerOpens \/ HandlerCannotBind

WorkerStep(c) == ThreadIgnoresHup(c) \/ ShellEnds(c) \/ WorkerEnds(c)

Next ==
    \/ \E c \in Clients : Connects(c) \/ WorkerStep(c) \/ Popens(c) \/ ThreadExitsServer(c)
    \/ SendHup \/ Terminates
    \/ AcceptLoop \/ Handler

Spec == Init /\ [][Next]_vars

(***************************************************************************)
(* The server process runs while it can; a signal is delivered.  Whether a *)
(* worker ends is up to its client: PatientSpec assumes that each client   *)
(* closes its connection and that a worker runs finitely many commands.    *)
(***************************************************************************)
FairSpec ==
    /\ Spec
    /\ WF_vars(AcceptLoop)
    /\ WF_vars(Handler)
    /\ \A c \in Clients : WF_vars(ThreadIgnoresHup(c))

PatientSpec ==
    /\ FairSpec
    /\ \A c \in Clients : WF_vars(ShellEnds(c)) /\ SF_vars(WorkerEnds(c))

-----------------------------------------------------------------------------
(* What must hold.                                                         *)

\* The type invariant; the reload leaves only ports of the file in port.
TypeOK ==
    /\ main \in MainPc
    /\ hand \in {"none", "close", "open"}
    /\ port \in Ports
    /\ {lsock, snap} \subseteq Ports \cup {NoPort}
    /\ {hup, ignored, asked} \subseteq BOOLEAN
    /\ hups \in 0..MaxHups
    /\ cl \in [Clients -> ClientState]
    /\ {at, told} \subseteq [Clients -> Ports \cup {NoPort}]
    /\ keep \in [Ports -> SUBSET Clients]

\* universal_handler (sacagawea.c:159-176) against the accept loop: whatever the
\* step it interrupts, the main thread goes on with a socket that listens on
\* the port of the settings.
ListensWhereItSays == MainRuns => lsock = port

\* open_socket (socket.c:158-162) ends the server when bind() fails: when the
\* handler gets there, no copy of an old listening socket, in a worker or in a
\* shell it has started, may still have the port.
BindFindsPortFree == hand = "open" => port \notin Taken /\ keep[port] = {}

\* Closing the socket (sacagawea.c:170) resets the clients in its queue.  That is
\* the price of a new port: a reload that leaves the port as it is resets nobody.
ReloadDropsOnlyOldPort ==
    [][\A c \in Clients :
        hand = "close" /\ main' # "gone" /\ cl[c] = "queued" /\ cl'[c] = "reset" =>
            at[c] # port]_vars

\* Whoever gets into the queue leaves it served, or reset with its port: no
\* reload, no listening socket left in a child (children.c:215) or a shell, no
\* limit on open files (socket.c:261) makes a client wait for ever, as long as the
\* other clients end and every accepted one gets a worker.
ClientsAnswered ==
    \A c \in Clients :
        cl[c] = "queued" ~> cl[c] \in {"closed", "reset"} \/ In({"stranded"}) # {}

\* SIGHUP (sacagawea.c:199-205) leads to a reading of the file that is younger
\* than it, or to the end of the server, whatever the main loop and the workers
\* do meanwhile.
RequestHonoured == asked ~> ~asked \/ main = "gone"

\* The settings are copied before accept() (socket.c:251), so a SIGHUP between the
\* two gives a client of the new port menus with the old one (gopher.c:89).  Each
\* SIGHUP spoils the menus of one client at most: of the next one accepted.
Stale == {c \in Clients : told[c] \notin {NoPort, at[c]}}
StaleMenusBounded == Cardinality(Stale) <= hups
=============================================================================
