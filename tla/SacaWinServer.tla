--------------------------- MODULE SacaWinServer ---------------------------
(***************************************************************************)
(* The server on Windows, from its start to the end of a connection, and   *)
(* its reload on CTRL+BREAK.                                               *)
(*                                                                         *)
(* There are no signals there: the console runs consoleEventHandler        *)
(* (sacagawea.c) on a thread of its own, one event at a time, NEXT TO the  *)
(* main thread, which goes on with its accept loop (socket.c) while the    *)
(* handler closes the socket, opens another one and, as its last step,     *)
(* stores it in settings->socket.  The main thread reads that field three  *)
(* times per round: for FD_SET, for FD_ISSET and for accept().             *)
(*                                                                         *)
(* A listening socket lives as long as a process has a handle of it: in    *)
(* 'p' mode each child (mp.c) inherits every one the server has, and none  *)
(* closes it.  SO_REUSEADDR lets several sockets listen on one port; a     *)
(* client gets into the queue of any of them.  Sockets are numbered in the *)
(* order they are opened, which leaves out that a number may come back.    *)
(* The copy of the settings a client gets is left out too: see SacaServer. *)
(***************************************************************************)
EXTENDS ConfLines, FiniteSets

CONSTANTS
    Clients,      \* one connection each
    Server,       \* the server process, as a holder of sockets
    Ports,        \* the ports in play
    NoPort,       \* the port of a socket that is not open yet
    Files,        \* the contents sacagawea.conf may have when it is opened
    MaxBreaks,    \* bound: CTRL+BREAKs
    Failures      \* TRUE: CreateThread() may fail

ASSUME WinServerAssumption ==
    /\ Server \notin Clients
    /\ NoPort \notin Ports
    /\ Failures \in BOOLEAN
    /\ \A f \in Files : \A i \in 1..Len(f) :
         IsPort(f[i]) /\ IsPortNumber(FiveDigits[f[i].port]) =>
             FiveDigits[f[i].port] \in Ports
    /\ MaxBreaks \in Nat

VARIABLES
    mode,         \* settings->mode: 't' or 'p', from the start on
    main,         \* where the main thread is
    hand,         \* where the handler is, on its thread
    port,         \* settings->port
    lsock,        \* settings->socket; keeps its value when that socket is closed
    seen,         \* the socket the main thread has: in fds_set, or just opened
    made,         \* the socket the handler has just opened
    opened,       \* sockets opened so far
    sport,        \* [Sockets -> the port it listens on]
    keep,         \* [Sockets -> processes with a handle of it]
    breaks,       \* CTRL+BREAKs so far
    early,        \* one of them changed the port before the loop was reached
    cl,           \* what has become of each client
    at            \* the socket in whose queue each client was put

sockVars == <<opened, sport, keep>>
handVars == <<hand, made, breaks, early>>
vars == <<mode, main, handVars, port, lsock, seen, sockVars, cl, at>>

Sockets == 1..(MaxBreaks + 1)
NoSocket == 0         \* the field after calloc()

MainPc == {"boot", "bound", "loop", "select", "ready", "accept", "spawn", "gone"}
HandlerPc == {"none", "close", "open", "assign"}
ClientState == {"idle", "queued", "handed", "serving", "stranded", "closed", "reset"}

Init ==
    /\ mode \in {"t", "p"}
    /\ main = "boot" /\ hand = "none"
    /\ port \in Ports
    /\ lsock = NoSocket /\ seen = NoSocket /\ made = NoSocket
    /\ opened = 0
    /\ sport = [k \in Sockets |-> NoPort]
    /\ keep = [k \in Sockets |-> {}]
    /\ breaks = 0 /\ early = FALSE
    /\ cl = [c \in Clients |-> "idle"]
    /\ at = [c \in Clients |-> NoSocket]

In(states) == {c \in Clients : cl[c] \in states}

Held(h) == {k \in Sockets : h \in keep[k]}

Waiting(k) == {c \in In({"queued"}) : at[c] = k}

\* A socket nobody holds is gone, and its queue is reset.
Unheld(k) == {c \in In({"queued"}) : k[at[c]] = {}}

Reset(cs) == [c \in Clients |-> IF c \in cs THEN "reset" ELSE cl[c]]

\* socket, bind, listen: a socket of the server process on the port of the settings.
OpensSocket ==
    /\ opened' = opened + 1
    /\ sport' = [sport EXCEPT ![opened + 1] = port]
    /\ keep' = [keep EXCEPT ![opened + 1] = {Server}]

Connects(c) ==
    /\ cl[c] = "idle"
    /\ \E k \in Sockets :
        /\ keep[k] # {}
        /\ at' = [at EXCEPT ![c] = k]
    /\ cl' = [cl EXCEPT ![c] = "queued"]
    /\ UNCHANGED <<mode, main, handVars, port, lsock, seen, sockVars>>

(***************************************************************************)
(* The end of the server process, by any other event of the console or by  *)
(* the exit() of a call that failed: of a fatal configuration file, of     *)
(* open_socket, ioctlsocket, CreateProcess, calloc in a thread.  The job   *)
(* object ends its children with it.                                       *)
(***************************************************************************)
ServerEnds ==
    /\ main # "gone" /\ main' = "gone" /\ hand' = "none"
    /\ keep' = [k \in Sockets |-> {}]
    /\ cl' = Reset(In({"queued", "handed", "serving", "stranded"}))
    /\ UNCHANGED <<mode, made, breaks, early, port, lsock, seen, opened, sport, at>>

-----------------------------------------------------------------------------
(* Defects the properties have to notice: variants of the actions below.   *)

\* closesocket() is left to the end of the program
HandlerLeaves ==
    /\ hand = "close" /\ hand' = "open"
    /\ UNCHANGED <<mode, main, made, breaks, early, port, lsock, seen, sockVars, cl, at>>

\* fds_set is filled once, before the loop
LoopsWithFirst ==
    /\ main = "loop" /\ main' = "select"
    /\ UNCHANGED <<mode, handVars, port, lsock, seen, sockVars, cl, at>>

-----------------------------------------------------------------------------
(* The main thread.                                                        *)

BootOpens ==
    /\ main = "boot" /\ main' = "bound"
    /\ OpensSocket
    /\ seen' = opened + 1
    /\ UNCHANGED <<mode, handVars, port, lsock, cl, at>>

BootAssigns ==
    /\ main = "bound" /\ main' = "loop"
    /\ lsock' = seen
    /\ UNCHANGED <<mode, handVars, port, seen, sockVars, cl, at>>

\* FD_ZERO, FD_SET
Loops ==
    /\ main = "loop" /\ main' = "select"
    /\ seen' = lsock
    /\ UNCHANGED <<mode, handVars, port, lsock, sockVars, cl, at>>

SelectReturns ==
    /\ main = "select" /\ main' = "ready"
    /\ Waiting(seen) # {}
    /\ UNCHANGED <<mode, handVars, port, lsock, seen, sockVars, cl, at>>

\* WSAENOTSOCK: the socket in fds_set has been closed, by the last who had it.
SelectFails ==
    /\ main = "select" /\ main' = "loop"
    /\ keep[seen] = {}
    /\ UNCHANGED <<mode, handVars, port, lsock, seen, sockVars, cl, at>>

\* While a child has the closed socket too, select() may go on waiting or not.
SelectMayFail ==
    /\ main = "select" /\ main' = "loop"
    /\ keep[seen] # {} /\ Server \notin keep[seen]
    /\ UNCHANGED <<mode, handVars, port, lsock, seen, sockVars, cl, at>>

\* FD_ISSET of what is now in settings->socket
EntersAccept ==
    /\ main = "ready"
    /\ main' = IF lsock = seen THEN "accept" ELSE "loop"
    /\ UNCHANGED <<mode, handVars, port, lsock, seen, sockVars, cl, at>>

Accepts ==
    /\ main = "accept" /\ main' = "spawn"
    /\ Server \in keep[lsock]
    /\ \E c \in Waiting(lsock) : cl' = [cl EXCEPT ![c] = "handed"]
    /\ UNCHANGED <<mode, handVars, port, lsock, seen, sockVars, at>>

\* INVALID_SOCKET: WSAEWOULDBLOCK, or WSAENOTSOCK while the handler is at work
AcceptFails ==
    /\ main = "accept" /\ main' = "loop"
    /\ Waiting(lsock) = {} \/ Server \notin keep[lsock]
    /\ UNCHANGED <<mode, handVars, port, lsock, seen, sockVars, cl, at>>

\* CreateThread, or CreateProcess with bInheritHandles and closesocket
Spawns ==
    /\ main = "spawn" /\ main' = "accept"
    /\ \E c \in In({"handed"}) :
        /\ cl' = [cl EXCEPT ![c] = "serving"]
        /\ keep' = IF mode = "t" THEN keep
                   ELSE [k \in Sockets |-> IF k \in Held(Server) THEN keep[k] \cup {c}
                                                                  ELSE keep[k]]
    /\ UNCHANGED <<mode, handVars, port, lsock, seen, opened, sport, at>>

\* The result of CreateThread() is only closed, never looked at.
CreateThreadFails ==
    /\ Failures /\ mode = "t"
    /\ main = "spawn" /\ main' = "accept"
    /\ cl' = [c \in Clients |-> IF cl[c] = "handed" THEN "stranded" ELSE cl[c]]
    /\ UNCHANGED <<mode, handVars, port, lsock, seen, sockVars, at>>

-----------------------------------------------------------------------------
(* The handler's thread: consoleEventHandler and universal_handler.        *)

\* CTRL_BREAK_EVENT, read_and_check_conf
HandlerReads(f) ==
    /\ main # "gone" /\ hand = "none" /\ breaks < MaxBreaks
    /\ ~FileIsFatal(f)
    /\ breaks' = breaks + 1
    /\ port' = FilePort(f, port)
    /\ hand' = IF FileChanges(f, port) THEN "close" ELSE "none"
    /\ early' = (early \/ (hand' = "close" /\ main \in {"boot", "bound"}))
    /\ UNCHANGED <<mode, main, made, lsock, seen, sockVars, cl, at>>

\* closesocket() of what settings->socket names; a failure is only logged.
HandlerCloses ==
    /\ hand = "close" /\ hand' = "open"
    /\ keep' = [k \in Sockets |-> IF k = lsock THEN keep[k] \ {Server} ELSE keep[k]]
    /\ cl' = Reset(Unheld(keep'))
    /\ UNCHANGED <<mode, main, made, breaks, early, port, lsock, seen, opened, sport, at>>

HandlerOpens ==
    /\ hand = "open" /\ hand' = "assign"
    /\ OpensSocket
    /\ made' = opened + 1
    /\ UNCHANGED <<mode, main, breaks, early, port, lsock, seen, cl, at>>

HandlerAssigns ==
    /\ hand = "assign" /\ hand' = "none"
    /\ lsock' = made
    /\ UNCHANGED <<mode, main, made, breaks, early, port, seen, sockVars, cl, at>>

-----------------------------------------------------------------------------
\* close_socket_kill_child; the handles of a child end with it.
WorkerEnds(c) ==
    /\ cl[c] = "serving"
    /\ keep' = [k \in Sockets |-> keep[k] \ {c}]
    /\ cl' = [Reset(Unheld(keep')) EXCEPT ![c] = "closed"]
    /\ UNCHANGED <<mode, main, handVars, port, lsock, seen, opened, sport, at>>

MainStep ==
    \/ BootOpens \/ BootAssigns \/ Loops \/ SelectReturns \/ SelectFails
    \/ EntersAccept \/ Accepts \/ AcceptFails \/ Spawns \/ CreateThreadFails

HandlerStep == HandlerCloses \/ HandlerOpens \/ HandlerAssigns

Next ==
    \/ \E c \in Clients : Connects(c) \/ WorkerEnds(c)
    \/ MainStep \/ SelectMayFail
    \/ (\E f \in Files : HandlerReads(f)) \/ HandlerStep
    \/ ServerEnds

Spec == Init /\ [][Next]_vars

\* Both threads run, select() tells of a socket that is gone, and each client
\* closes its connection some day.
FairSpec ==
    /\ Spec
    /\ WF_vars(MainStep) /\ WF_vars(HandlerStep)
    /\ \A c \in Clients : WF_vars(WorkerEnds(c))

-----------------------------------------------------------------------------
(* What must hold.                                                         *)

\* The type invariant; open_socket is called once at the start and at most once
\* per CTRL+BREAK, only with ports of the settings.
TypeOK ==
    /\ mode \in {"t", "p"}
    /\ main \in MainPc
    /\ hand \in HandlerPc
    /\ port \in Ports
    /\ {lsock, seen, made} \subseteq Sockets \cup {NoSocket}
    /\ opened \in 0..(MaxBreaks + 1)
    /\ sport \in [Sockets -> Ports \cup {NoPort}]
    /\ keep \in [Sockets -> SUBSET (Clients \cup {Server})]
    /\ breaks \in 0..MaxBreaks /\ early \in BOOLEAN
    /\ cl \in [Clients -> ClientState]
    /\ at \in [Clients -> Sockets \cup {NoSocket}]

\* universal_handler (sacagawea.c:159-176) next to the accept loop: whenever the
\* handler is not at work, settings->socket is open and on the port of the
\* settings, and the server has no other listening socket, whatever socket the
\* main thread still has in its select().  Not so if the port changed before
\* the main thread stored its first socket (sacagawea.c:566).
ServesItsPort ==
    hand = "none" /\ main \notin {"boot", "bound", "gone"} /\ ~early =>
        /\ Held(Server) = {lsock}
        /\ sport[lsock] = port

\* open_socket is called once by the main thread and once per change of the port,
\* so a number is left for the socket each of them is about to open.
NumbersLeft ==
    opened + (IF main = "boot" THEN 1 ELSE 0)
           + (IF hand \in {"close", "open"} THEN 1 ELSE 0) <= breaks + 1

\* What the server listens on at each step of the start and of the handler, if
\* the two do not meet.
ListensWhileBusy ==
    ~early =>
        /\ main = "boot" => hand = "none" /\ Held(Server) = {}
        /\ main = "bound" => hand = "none" /\ Held(Server) = {seen} /\ sport[seen] = port
        /\ main \notin {"boot", "bound", "gone"} =>
             /\ hand = "close" => Held(Server) = {lsock}
             /\ hand = "open" => Held(Server) = {}
             /\ hand = "assign" => Held(Server) = {made} /\ sport[made] = port

\* The inductive invariant: ServesItsPort and what leads to it.
WinServerInv == TypeOK /\ NumbersLeft /\ ListensWhileBusy /\ ServesItsPort

\* Whoever gets into a queue is served or reset: the main thread leaves a select()
\* on a closed socket (socket.c:200-209) for the new one, and the sockets the
\* children still have on an old port, or on the same port (socket.c:66), end
\* with them.
ClientsAnswered ==
    \A c \in Clients :
        cl[c] = "queued" ~> cl[c] \in {"closed", "reset", "stranded"} \/ early
=============================================================================
