--------------------------- MODULE SacaServerProof ---------------------------
(***************************************************************************)
(* The accept loop under its signal handler, for every number of clients,  *)
(* ports and files: proofs about SacaServer.                               *)
(***************************************************************************)
EXTENDS SacaServer, ConfLinesProof, FiniteSetTheorems, TLAPS

-----------------------------------------------------------------------------
(* What a file does to the port.                                           *)

\* A file leads from one of the ports to one of the ports.
LEMMA PortOfFile ==
    ASSUME NEW f \in Files, NEW p \in Ports
    PROVE  FilePort(f, p) \in Ports
<1>1. \A i \in PortLinesOf(f) : FiveDigits[f[i].port] \in Ports
  <2> SUFFICES ASSUME NEW i \in PortLinesOf(f)
               PROVE  FiveDigits[f[i].port] \in Ports
    OBVIOUS
  <2>1. i \in 1..Len(f) /\ AcceptablePort(f[i])
    BY DEF PortLinesOf
  <2>2. IsPort(f[i]) /\ IsPortNumber(FiveDigits[f[i].port])
    BY <2>1 DEF AcceptablePort
  <2> QED
    BY <2>1, <2>2, ServerAssumption DEF ServerAssumption
<1> QED
  BY <1>1, PortOfLines

\* The files an administrator writes: one port line at most.
OnePortLine(f) == \A i, j \in PortLinesOf(f) : i = j

\* Such a file reopens the socket for another port only.
LEMMA ChangedPort ==
    ASSUME NEW f \in Files, NEW p, OnePortLine(f), FileChanges(f, p)
    PROVE  FilePort(f, p) # p
<1>1. PICK i \in PortLinesOf(f) : FiveDigits[f[i].port] # p
  BY DEF FileChanges
<1>2. i \in Nat
  BY DEF PortLinesOf
<1>3. IsLastOf(f, i)
  BY <1>2 DEF IsLastOf, OnePortLine
<1> DEFINE last == CHOOSE k \in PortLinesOf(f) : IsLastOf(f, k)
<1>4. last \in PortLinesOf(f)
  BY <1>3
<1>5. last = i
  BY <1>4 DEF OnePortLine
<1> QED
  BY <1>1, <1>3, <1>5 DEF FilePort

-----------------------------------------------------------------------------
(* The types.                                                              *)

\* The end of the server keeps the types.
LEMMA EndKeepsTypes ==
    ASSUME TypeOK, ServerEnds
    PROVE  TypeOK'
BY DEF TypeOK, ServerEnds, Reset, MainPc, ClientState

\* Every variable keeps its type, in both modes: a reload leaves a port in port
\* (sacagawea.c:159-176), and no client has the menus of no port.
THEOREM TypeCorrect == Spec => []TypeOK
<1>1. Init => TypeOK
  <2> SUFFICES ASSUME Init PROVE TypeOK
    OBVIOUS
  <2>1. hups \in 0..MaxHups
    BY ServerAssumption DEF Init, ServerAssumption
  <2>2. /\ cl \in [Clients -> ClientState] /\ keep \in [Ports -> SUBSET Clients]
        /\ {at, told} \subseteq [Clients -> Ports \cup {NoPort}]
    BY DEF Init, ClientState
  <2> QED
    BY <2>1, <2>2 DEF Init, TypeOK, MainPc
<1>2. TypeOK /\ [Next]_vars => TypeOK'
  <2> SUFFICES ASSUME TypeOK, [Next]_vars PROVE TypeOK'
    OBVIOUS
  <2>1. CASE AcceptLoop
    <3>1. CASE Loops \/ SelectReturns \/ EntersAccept \/ CopiesSettings \/ AcceptFails
      BY <3>1 DEF Loops, SelectReturns, EntersAccept, CopiesSettings, AcceptFails,
                  TypeOK, MainPc, hupVars, netVars
    <3>2. CASE Accepts
      <4>1. /\ main' = "spawn" /\ UNCHANGED <<hand, port, lsock, snap, hupVars, at, keep>>
            /\ \E c \in Clients : /\ cl' = [cl EXCEPT ![c] = "handed"]
                                  /\ told' = [told EXCEPT ![c] = snap]
        BY <3>2 DEF Accepts, Waiting, In
      <4> QED
        BY <4>1 DEF TypeOK, MainPc, ClientState, hupVars
    <3>3. CASE Spawns
      <4>1. /\ main' = "copy" /\ UNCHANGED <<hand, port, lsock, snap, hupVars, at, told>>
            /\ \E c \in Clients :
                 /\ cl' \in {[cl EXCEPT ![c] = "starting"], [cl EXCEPT ![c] = "serving"]}
                 /\ keep' \in {keep, [keep EXCEPT ![lsock] = @ \cup {c}]}
        BY <3>3 DEF Spawns, In
      <4> QED
        BY <4>1 DEF TypeOK, MainPc, ClientState, hupVars
    <3>4. CASE SpawnFails
      BY <3>4 DEF SpawnFails, TypeOK, MainPc, ClientState, hupVars
    <3>5. CASE DetachCrashes
      BY <3>5, EndKeepsTypes DEF DetachCrashes
    <3> QED
      BY <2>1, <3>1, <3>2, <3>3, <3>4, <3>5 DEF AcceptLoop
  <2>2. CASE Handler
    <3>1. ASSUME NEW f \in Files, HandlerReads(f) PROVE TypeOK'
      <4>1. port' \in Ports
        BY <3>1, PortOfFile DEF HandlerReads, TypeOK
      <4> QED
        BY <3>1, <4>1 DEF HandlerReads, TypeOK, MainPc, netVars
    <3>2. CASE HandlerCloses \/ HandlerOpens
      BY <3>2 DEF HandlerCloses, HandlerOpens, Reset, TypeOK, MainPc, ClientState, hupVars, netVars
    <3>3. CASE HandlerExits \/ HandlerCannotBind
      BY <3>3, EndKeepsTypes DEF HandlerExits, HandlerCannotBind
    <3> QED
      BY <2>2, <3>1, <3>2, <3>3 DEF Handler
  <2>3. ASSUME NEW c \in Clients, Connects(c) PROVE TypeOK'
    BY <2>3 DEF Connects, TypeOK, ClientState, hupVars
  <2>4. ASSUME NEW c \in Clients, WorkerStep(c) PROVE TypeOK'
    <3>1. Released(c) \in [Ports -> SUBSET Clients]
      BY DEF Released, TypeOK
    <3>2. \A cs : Reset(cs) \in [Clients -> ClientState]
      BY DEF Reset, TypeOK, ClientState
    <3>3. CASE ThreadIgnoresHup(c)
      BY <3>3 DEF ThreadIgnoresHup, TypeOK, ClientState
    <3>4. CASE ShellEnds(c) \/ WorkerEnds(c)
      <4>1. /\ keep' \in [Ports -> SUBSET Clients] /\ cl' \in [Clients -> ClientState]
            /\ UNCHANGED <<main, hand, port, lsock, snap, hupVars, at, told>>
        BY <3>1, <3>2, <3>4 DEF ShellEnds, WorkerEnds, ClientState
      <4> QED
        BY <4>1 DEF TypeOK, hupVars
    <3> QED
      BY <2>4, <3>3, <3>4 DEF WorkerStep
  <2>5. ASSUME NEW c \in Clients, Popens(c) PROVE TypeOK'
    BY <2>5 DEF Popens, TypeOK, hupVars
  <2>6. CASE \/ Terminates \/ \E c \in Clients : ThreadExitsServer(c)
    BY <2>6, EndKeepsTypes DEF Terminates, ThreadExitsServer
  <2>7. CASE SendHup
    BY <2>7, ServerAssumption DEF SendHup, TypeOK, netVars, ServerAssumption
  <2>8. CASE UNCHANGED vars
    BY <2>8 DEF vars, netVars, hupVars, TypeOK
  <2> QED
    BY <2>1, <2>2, <2>3, <2>4, <2>5, <2>6, <2>7, <2>8 DEF Next
<1> QED
  BY <1>1, <1>2, PTL DEF Spec

-----------------------------------------------------------------------------
(* The socket and the settings.                                            *)

\* universal_handler leaves the main thread a socket that listens on the port of
\* the settings, whichever step of the accept loop it has interrupted.
THEOREM ServerListens == Spec => []ListensWhereItSays
<1>1. Init => ListensWhereItSays
  BY DEF Init, ListensWhereItSays
<1>2. ListensWhereItSays /\ [Next]_vars => ListensWhereItSays'
  <2> SUFFICES ASSUME ListensWhereItSays, [Next]_vars, MainRuns'
               PROVE  lsock' = port'
    BY DEF ListensWhereItSays
  <2>1. CASE UNCHANGED vars
    BY <2>1 DEF vars, ListensWhereItSays, MainRuns
  <2>2. CASE \E f \in Files : HandlerReads(f)
    <3>1. PICK f \in Files : HandlerReads(f)
      BY <2>2
    <3>2. lsock = port /\ lsock' = lsock /\ port' = FilePort(f, port)
      BY <3>1 DEF HandlerReads, ListensWhereItSays
    <3>3. ~FileChanges(f, port)
      BY <3>1 DEF HandlerReads, MainRuns
    <3> QED
      BY <3>2, <3>3, UnchangedPort
  <2>3. CASE HandlerOpens
    BY <2>3 DEF HandlerOpens
  <2>4. CASE HandlerCloses
    BY <2>4 DEF HandlerCloses, MainRuns
  <2>5. CASE ServerEnds
    BY <2>5 DEF ServerEnds, MainRuns
  <2>6. CASE lsock' = lsock /\ port' = port /\ hand' = hand /\ (main' = "gone" <=> main = "gone")
    BY <2>6 DEF ListensWhereItSays, MainRuns
  <2>7. \/ UNCHANGED vars \/ \E f \in Files : HandlerReads(f)
        \/ HandlerOpens \/ HandlerCloses \/ ServerEnds
        \/ lsock' = lsock /\ port' = port /\ hand' = hand /\ (main' = "gone" <=> main = "gone")
    <3>1. CASE AcceptLoop
      BY <3>1 DEF AcceptLoop, Loops, SelectReturns, EntersAccept, CopiesSettings,
                  Accepts, AcceptFails, Spawns, SpawnFails, DetachCrashes
    <3>2. CASE Handler
      BY <3>2 DEF Handler, HandlerExits, HandlerCannotBind
    <3>3. CASE \E c \in Clients : Connects(c) \/ WorkerStep(c) \/ Popens(c) \/ ThreadExitsServer(c)
      BY <3>3 DEF Connects, WorkerStep, ThreadIgnoresHup, ShellEnds, WorkerEnds,
                  Popens, ThreadExitsServer
    <3>4. CASE SendHup \/ Terminates
      BY <3>4 DEF SendHup, Terminates
    <3> QED
      BY <3>1, <3>2, <3>3, <3>4 DEF Next
  <2> QED
    BY <2>1, <2>2, <2>3, <2>4, <2>5, <2>6, <2>7
<1> QED
  BY <1>1, <1>2, PTL DEF Spec
-----------------------------------------------------------------------------
(* Stale menus: each SIGHUP pays for the menus of one client, of the next  *)
(* one accepted, wherever the accept loop is when it is handled.           *)

\* The main thread is about to accept with the settings of before a reload.
Spoiling == main = "accept" /\ snap # port

\* What the stale menus, the stale copy of the settings in the main thread's
\* hands and the signal not yet handled add up to has been sent as SIGHUPs.
HupsPay ==
    /\ IsFiniteSet(Stale)
    /\ Cardinality(Stale)
         + (IF Spoiling THEN 1 ELSE 0)
         + (IF hup THEN 1 ELSE 0)
         <= hups
    /\ \A c \in Clients : cl[c] = "idle" => told[c] = NoPort

StaleInv == TypeOK /\ ListensWhereItSays /\ HupsPay

\* A step that moves nobody's port and brings nobody back to "idle" keeps HupsPay
\* when neither of its other two terms grows.
LEMMA NobodySpoiled ==
    ASSUME TypeOK, HupsPay, hups' = hups,
           UNCHANGED <<at, told>>,
           \A c \in Clients : cl'[c] = "idle" => cl[c] = "idle",
           Spoiling' => Spoiling \/ (hup /\ ~hup'),
           hup' => hup
    PROVE  HupsPay'
<1>1. Stale' = Stale
  BY DEF Stale
<1>2. Cardinality(Stale) \in Nat /\ hups \in Nat
  BY FS_CardinalityType DEF HupsPay, TypeOK
<1>3. Cardinality(Stale)
         + (IF Spoiling' THEN 1 ELSE 0)
         + (IF hup' THEN 1 ELSE 0)
         <= hups
  BY <1>2 DEF HupsPay
<1> QED
  BY <1>1, <1>3 DEF HupsPay

\* accept() may spoil the menus of the one client it accepts.
LEMMA AcceptPays ==
    ASSUME StaleInv, Accepts
    PROVE  HupsPay'
<1>1. /\ TypeOK /\ HupsPay /\ lsock = port
  BY DEF StaleInv, Accepts, ListensWhereItSays
<1>2. PICK c \in Waiting(lsock) : /\ cl' = [cl EXCEPT ![c] = "handed"]
                                 /\ told' = [told EXCEPT ![c] = snap]
  BY DEF Accepts
<1>3. c \in Clients /\ at[c] = port
  BY <1>1, <1>2 DEF Waiting, In
<1>4. /\ main = "accept" /\ main' = "spawn"
      /\ UNCHANGED <<hup, hups, port, snap, at>>
      /\ ~Spoiling' /\ (Spoiling <=> snap # port)
  BY DEF Accepts, hupVars, Spoiling
<1>5. \A d \in Clients : d # c => told'[d] = told[d] /\ cl'[d] = cl[d]
  BY <1>1, <1>2 DEF TypeOK
<1>6. told'[c] = snap /\ cl'[c] = "handed"
  BY <1>1, <1>2, <1>3 DEF TypeOK
<1>7. IsFiniteSet(Stale) /\ Cardinality(Stale) \in Nat /\ hups \in Nat
  BY <1>1, FS_CardinalityType DEF HupsPay, TypeOK
<1>8. CASE snap = port
  <2>1. Stale' \subseteq Stale
    BY <1>3, <1>4, <1>5, <1>6, <1>8 DEF Stale
  <2>2. IsFiniteSet(Stale') /\ Cardinality(Stale') \in Nat /\ Cardinality(Stale') <= Cardinality(Stale)
    BY <2>1, <1>7, FS_Subset, FS_CardinalityType
  <2> QED
    BY <1>1, <1>4, <1>5, <1>6, <1>7, <2>2 DEF HupsPay
<1>9. CASE snap # port
  <2>1. Stale' \subseteq Stale \cup {c}
    BY <1>4, <1>5 DEF Stale
  <2>2. /\ IsFiniteSet(Stale \cup {c})
        /\ Cardinality(Stale \cup {c}) \in Nat
        /\ Cardinality(Stale \cup {c}) <= Cardinality(Stale) + 1
    BY <1>7, FS_AddElement
  <2>3. IsFiniteSet(Stale') /\ Cardinality(Stale') \in Nat /\ Cardinality(Stale') <= Cardinality(Stale) + 1
    BY <2>1, <2>2, <1>7, FS_Subset, FS_CardinalityType
  <2>4. Cardinality(Stale) + 1 + (IF hup THEN 1 ELSE 0) <= hups
    BY <1>1, <1>4, <1>9, <1>7 DEF HupsPay
  <2>5. Cardinality(Stale') + 0 + (IF hup THEN 1 ELSE 0) <= hups
    BY <1>7, <2>3, <2>4
  <2> QED
    BY <1>1, <1>4, <1>5, <1>6, <2>3, <2>5 DEF HupsPay
<1> QED
  BY <1>8, <1>9

\* A client that connects has been told nothing yet.
LEMMA ConnectPays ==
    ASSUME StaleInv, NEW c \in Clients, Connects(c)
    PROVE  HupsPay'
<1>1. TypeOK /\ HupsPay
  BY DEF StaleInv
<1>2. /\ cl[c] = "idle" /\ cl' = [cl EXCEPT ![c] = "queued"]
      /\ \E p \in Ports : at' = [at EXCEPT ![c] = p]
      /\ UNCHANGED <<main, port, snap, hup, hups, told>>
  BY DEF Connects, hupVars
<1>3. told[c] = NoPort
  BY <1>1, <1>2 DEF HupsPay
<1>4. Stale' = Stale
  BY <1>1, <1>2, <1>3 DEF Stale, TypeOK
<1>5. Spoiling' <=> Spoiling
  BY <1>2 DEF Spoiling
<1>6. \A d \in Clients : cl'[d] = "idle" => told'[d] = NoPort
  BY <1>1, <1>2 DEF HupsPay, TypeOK
<1> QED
  BY <1>1, <1>2, <1>4, <1>5, <1>6 DEF HupsPay

\* The end of the server spoils nothing.
LEMMA EndPays ==
    ASSUME StaleInv, ServerEnds
    PROVE  HupsPay'
<1>1. \A cs : \A c \in Clients : Reset(cs)[c] = "idle" => cl[c] = "idle"
  BY DEF Reset
<1> QED
  BY <1>1, NobodySpoiled DEF StaleInv, ServerEnds, Spoiling

\* The inductive invariant of the menus.
LEMMA StaleStep ==
    ASSUME StaleInv, [Next]_vars
    PROVE  HupsPay'
<1>1. TypeOK /\ HupsPay
  BY DEF StaleInv
<1>2. CASE AcceptLoop
  <2>1. CASE Loops \/ SelectReturns \/ EntersAccept \/ CopiesSettings \/ AcceptFails
    BY <1>1, <2>1, NobodySpoiled DEF Loops, SelectReturns, EntersAccept, CopiesSettings,
                                     AcceptFails, hupVars, netVars, Spoiling
  <2>2. CASE Accepts
    BY <2>2, AcceptPays
  <2>3. CASE Spawns \/ SpawnFails
    <3>1. /\ main' = "copy" /\ UNCHANGED <<hup, hups, at, told>>
          /\ \A c \in Clients : cl'[c] = "idle" => cl[c] = "idle"
      BY <1>1, <2>3 DEF Spawns, SpawnFails, In, hupVars, TypeOK
    <3> QED
      BY <1>1, <3>1, NobodySpoiled DEF Spoiling
  <2>4. CASE DetachCrashes
    BY <2>4, EndPays DEF DetachCrashes
  <2> QED
    BY <1>2, <2>1, <2>2, <2>3, <2>4 DEF AcceptLoop
<1>3. CASE Handler
  <2>1. ASSUME NEW f \in Files, HandlerReads(f) PROVE HupsPay'
    <3>1. /\ hup /\ hup' = FALSE /\ hups' = hups /\ UNCHANGED <<at, told, cl>>
      BY <2>1 DEF HandlerReads, netVars
    <3> QED
      BY <1>1, <3>1, NobodySpoiled DEF Spoiling
  <2>2. CASE HandlerCloses \/ HandlerOpens
    <3>1. /\ UNCHANGED <<hup, hups, at, told>>
          /\ Spoiling' => Spoiling
          /\ \A c \in Clients : cl'[c] = "idle" => cl[c] = "idle"
      BY <2>2 DEF HandlerCloses, HandlerOpens, Reset, hupVars, netVars, Spoiling
    <3>2. hup' => hup
      BY <3>1
    <3> QED
      BY <1>1, <3>1, <3>2, NobodySpoiled
  <2>3. CASE HandlerExits \/ HandlerCannotBind
    BY <2>3, EndPays DEF HandlerExits, HandlerCannotBind
  <2> QED
    BY <1>3, <2>1, <2>2, <2>3 DEF Handler
<1>4. ASSUME NEW c \in Clients, Connects(c) PROVE HupsPay'
  BY <1>4, ConnectPays
<1>5. ASSUME NEW c \in Clients, WorkerStep(c) \/ Popens(c) PROVE HupsPay'
  <2>1. CASE ThreadIgnoresHup(c)
    <3>1. /\ UNCHANGED <<main, hups, port, snap, at, told>> /\ hup' = FALSE
          /\ \A d \in Clients : cl'[d] = "idle" => cl[d] = "idle"
      BY <1>1, <2>1 DEF ThreadIgnoresHup, TypeOK
    <3> QED
      BY <1>1, <3>1, NobodySpoiled DEF Spoiling
  <2>2. CASE ShellEnds(c) \/ WorkerEnds(c) \/ Popens(c)
    <3>1. \A cs : \A d \in Clients : Reset(cs)[d] = "idle" => cl[d] = "idle"
      BY DEF Reset
    <3>2. \A cs : Reset(cs) \in [Clients -> ClientState]
      BY <1>1 DEF Reset, TypeOK, ClientState
    <3>3. /\ UNCHANGED <<main, hup, hups, port, snap, at, told>>
          /\ \A d \in Clients : cl'[d] = "idle" => cl[d] = "idle"
      BY <2>2, <3>1, <3>2 DEF ShellEnds, WorkerEnds, Popens, hupVars
    <3>4. (hup' => hup) /\ (Spoiling' => Spoiling)
      BY <3>3 DEF Spoiling
    <3> QED
      BY <1>1, <3>3, <3>4, NobodySpoiled
  <2> QED
    BY <1>5, <2>1, <2>2 DEF WorkerStep
<1>6. CASE Terminates \/ \E c \in Clients : ThreadExitsServer(c)
  BY <1>6, EndPays DEF Terminates, ThreadExitsServer
<1>7. CASE SendHup
  <2>1. /\ UNCHANGED <<main, port, snap, at, told, cl>> /\ hups' = hups + 1
        /\ Stale' = Stale
    BY <1>7 DEF SendHup, netVars, Stale
  <2>2. Cardinality(Stale) \in Nat /\ hups \in Nat
    BY <1>1, FS_CardinalityType DEF HupsPay, TypeOK
  <2>3. Spoiling' <=> Spoiling
    BY <2>1 DEF Spoiling
  <2>4. Cardinality(Stale)
           + (IF Spoiling' THEN 1 ELSE 0)
           + (IF hup' THEN 1 ELSE 0)
           <= hups + 1
    BY <1>1, <2>2, <2>3 DEF HupsPay
  <2>5. \A c \in Clients : cl'[c] = "idle" => told'[c] = NoPort
    BY <1>1, <2>1 DEF HupsPay
  <2>6. IsFiniteSet(Stale') /\ Cardinality(Stale') = Cardinality(Stale) /\ hups' = hups + 1
    BY <1>1, <2>1 DEF HupsPay
  <2>7. Cardinality(Stale')
           + (IF Spoiling' THEN 1 ELSE 0)
           + (IF hup' THEN 1 ELSE 0)
           <= hups'
    BY <2>4, <2>6
  <2> QED
    BY <2>5, <2>6, <2>7 DEF HupsPay
<1>8. CASE UNCHANGED vars
  BY <1>1, <1>8, NobodySpoiled DEF vars, netVars, hupVars, Spoiling
<1> QED
  BY <1>2, <1>3, <1>4, <1>5, <1>6, <1>7, <1>8 DEF Next

\* The settings are copied before accept() (socket.c:251-254), and still no more
\* clients have the menus of a port they did not connect to than there were SIGHUPs.
THEOREM StaleMenusPaidFor == Spec => []StaleMenusBounded
<1>1. Init => HupsPay
  <2> SUFFICES ASSUME Init PROVE HupsPay
    OBVIOUS
  <2>1. Stale = {}
    BY DEF Init, Stale
  <2>2. IsFiniteSet(Stale) /\ Cardinality(Stale) = 0
    BY <2>1, FS_EmptySet
  <2> QED
    BY <2>2 DEF Init, HupsPay, Spoiling
<1>2. TypeOK /\ ListensWhereItSays /\ HupsPay /\ [Next]_vars => HupsPay'
  BY StaleStep DEF StaleInv
<1>3. TypeOK /\ HupsPay => StaleMenusBounded
  <2> SUFFICES ASSUME TypeOK, HupsPay PROVE Cardinality(Stale) <= hups
    BY DEF StaleMenusBounded
  <2>1. Cardinality(Stale) \in Nat /\ hups \in Nat
    BY FS_CardinalityType DEF HupsPay, TypeOK
  <2> QED
    BY <2>1 DEF HupsPay
<1> QED
  BY <1>1, <1>2, <1>3, TypeCorrect, ServerListens, PTL DEF Spec

-----------------------------------------------------------------------------
(* Threads.  The first worker that starts makes the process deaf to SIGHUP *)
(* (children.c:364), and only workers run shells: so no reload ever meets  *)
(* a copy of the listening socket on the port it wants.                    *)

\* What the variables of the invariant below range over.
NetTypes ==
    /\ port \in Ports
    /\ lsock \in Ports \cup {NoPort}
    /\ cl \in [Clients -> ClientState]
    /\ at \in [Clients -> Ports \cup {NoPort}]
    /\ keep \in [Ports -> SUBSET Clients]

\* A process that has not been made deaf has no shells and no served client.
DeafFirst ==
    ~ignored => /\ \A c \in Clients : cl[c] # "serving"
                /\ \A p \in Ports : keep[p] = {}

DeafHearsNothing == ignored => ~hup

\* A queue belongs to a listening socket that somebody has.
QueueOwned ==
    \A c \in Clients : cl[c] = "queued" =>
        at[c] \in Ports /\ (lsock = at[c] \/ keep[at[c]] # {})

\* While the handler is at work nobody has the port it is going to open.
HandlerHasPort ==
    /\ hand = "close" => lsock # port /\ keep[port] = {}
    /\ hand = "open" => lsock = NoPort /\ keep[port] = {}

ThreadInv ==
    /\ NetTypes
    /\ ListensWhereItSays
    /\ hand \in {"none", "close", "open"}
    /\ DeafFirst
    /\ DeafHearsNothing
    /\ QueueOwned
    /\ HandlerHasPort

\* Resetting clients touches no other client.
LEMMA ResetFacts ==
    ASSUME NetTypes, NEW cs
    PROVE  /\ Reset(cs) \in [Clients -> ClientState]
           /\ \A c \in Clients : Reset(cs)[c] = IF c \in cs THEN "reset" ELSE cl[c]
BY DEF NetTypes, Reset, ClientState

\* The end of the server keeps the invariant: only queues that a shell has a
\* hold of are left.
LEMMA EndKeepsInv ==
    ASSUME ThreadInv, ServerEnds
    PROVE  ThreadInv'
<1> USE DEF ThreadInv
<1> DEFINE cs == Unheld(NoPort, keep) \cup OpenFds
<1>1. /\ main' = "gone" /\ hand' = "none" /\ lsock' = NoPort /\ hup' = FALSE
      /\ cl' = Reset(cs)
      /\ UNCHANGED <<port, ignored, at, keep>>
  BY DEF ServerEnds
<1>2. /\ cl' \in [Clients -> ClientState]
      /\ \A c \in Clients : cl'[c] = IF c \in cs THEN "reset" ELSE cl[c]
  BY <1>1, ResetFacts
<1> HIDE DEF cs
<1>3. NetTypes'
  BY <1>1, <1>2 DEF NetTypes
<1>4. DeafFirst' /\ DeafHearsNothing'
  BY <1>1, <1>2 DEF DeafFirst, DeafHearsNothing
<1>5. QueueOwned'
  <2> SUFFICES ASSUME NEW c \in Clients, cl'[c] = "queued"
               PROVE  at[c] \in Ports /\ keep[at[c]] # {}
    BY <1>1 DEF QueueOwned
  <2>1. cl[c] = "queued" /\ c \notin cs
    BY <1>2
  <2>2. at[c] \in Ports /\ at[c] # NoPort
    BY <2>1, ServerAssumption DEF QueueOwned, ServerAssumption
  <2> QED
    BY <2>1, <2>2 DEF cs, Unheld, In
<1> QED
  BY <1>1, <1>3, <1>4, <1>5 DEF HandlerHasPort, ListensWhereItSays, MainRuns

\* The accept loop moves clients on, one at a time, and leaves sockets, ports
\* and signals alone.
LEMMA AcceptKeepsInv ==
    ASSUME Mode = "t", ThreadInv, AcceptLoop
    PROVE  ThreadInv'
<1> USE DEF ThreadInv
<1>1. CASE Loops \/ SelectReturns \/ EntersAccept \/ CopiesSettings \/ AcceptFails
  <2>1. /\ UNCHANGED <<port, lsock, hand, cl, at, keep, hup, ignored>>
        /\ main # "gone"
    BY <1>1 DEF Loops, SelectReturns, EntersAccept, CopiesSettings, AcceptFails,
                netVars, hupVars, MainRuns
  <2> QED
    BY <2>1 DEF NetTypes, ListensWhereItSays, MainRuns, DeafFirst,
                DeafHearsNothing, QueueOwned, HandlerHasPort
<1>2. CASE Accepts \/ Spawns \/ SpawnFails
  <2>1. /\ UNCHANGED <<port, lsock, hand, at, keep, hup, ignored>>
        /\ main # "gone"
        /\ cl' \in [Clients -> ClientState]
        /\ \A c \in Clients : cl'[c] \in {cl[c], "handed", "starting", "stranded"}
    BY <1>2 DEF Accepts, Spawns, SpawnFails, MainRuns, netVars, hupVars, NetTypes, ClientState
  <2> QED
    BY <2>1 DEF NetTypes, ListensWhereItSays, MainRuns, DeafFirst,
                DeafHearsNothing, QueueOwned, HandlerHasPort
<1>3. CASE DetachCrashes
  BY <1>3, EndKeepsInv DEF DetachCrashes
<1> QED
  BY <1>1, <1>2, <1>3 DEF AcceptLoop

\* The handler of the one SIGHUP that a process without workers can get: nobody
\* else has the old socket, nobody has the new port.
LEMMA HandlerKeepsInv ==
    ASSUME Mode = "t", \A f \in Files : OnePortLine(f), ThreadInv, Handler
    PROVE  ThreadInv'
<1> USE DEF ThreadInv
<1>1. ASSUME NEW f \in Files, HandlerReads(f) PROVE ThreadInv'
  <2>1. /\ hup' = FALSE /\ port' = FilePort(f, port)
        /\ hand' = IF FileChanges(f, port) THEN "close" ELSE "none"
        /\ UNCHANGED <<lsock, ignored, cl, at, keep>>
        /\ lsock = port
        /\ hup /\ main # "gone"
    BY <1>1 DEF HandlerReads, netVars, ListensWhereItSays, MainRuns
  <2>2. port' \in Ports
    BY <2>1, PortOfFile DEF NetTypes
  <2>3. \A p \in Ports : keep[p] = {}
    BY <2>1 DEF DeafFirst, DeafHearsNothing
  <2>4. hand' = "close" => lsock # port'
    BY <2>1, ChangedPort
  <2>5. hand' = "none" => port' = port
    BY <2>1, UnchangedPort
  <2>6. NetTypes' /\ DeafFirst' /\ DeafHearsNothing' /\ QueueOwned'
    BY <2>1, <2>2 DEF NetTypes, DeafFirst, DeafHearsNothing, QueueOwned
  <2>7. HandlerHasPort'
    BY <2>1, <2>2, <2>3, <2>4 DEF HandlerHasPort
  <2> QED
    BY <2>1, <2>5, <2>6, <2>7 DEF ListensWhereItSays, MainRuns
<1>2. CASE HandlerCloses
  <2> DEFINE cs == Unheld(NoPort, keep)
  <2>1. /\ hand = "close" /\ hand' = "open" /\ lsock' = NoPort /\ cl' = Reset(cs)
        /\ UNCHANGED <<main, port, hup, ignored, at, keep>>
    BY <1>2 DEF HandlerCloses, hupVars
  <2>2. /\ cl' \in [Clients -> ClientState]
        /\ \A c \in Clients : cl'[c] = IF c \in cs THEN "reset" ELSE cl[c]
    BY <2>1, ResetFacts
  <2> HIDE DEF cs
  <2>3. NetTypes' /\ DeafFirst' /\ DeafHearsNothing'
    BY <2>1, <2>2 DEF NetTypes, DeafFirst, DeafHearsNothing
  <2>4. QueueOwned'
    <3> SUFFICES ASSUME NEW c \in Clients, cl'[c] = "queued"
                 PROVE  at[c] \in Ports /\ keep[at[c]] # {}
      BY <2>1 DEF QueueOwned
    <3>1. cl[c] = "queued" /\ c \notin cs
      BY <2>2
    <3>2. at[c] \in Ports /\ at[c] # NoPort
      BY <3>1, ServerAssumption DEF QueueOwned, ServerAssumption
    <3> QED
      BY <3>1, <3>2 DEF cs, Unheld, In
  <2> QED
    BY <2>1, <2>3, <2>4 DEF ListensWhereItSays, MainRuns, HandlerHasPort
<1>3. CASE HandlerOpens
  <2>1. /\ hand = "open" /\ hand' = "none" /\ lsock' = port
        /\ UNCHANGED <<port, cl, at, keep, hup, ignored>>
    BY <1>3 DEF HandlerOpens, netVars, hupVars
  <2>2. lsock = NoPort
    BY <2>1 DEF HandlerHasPort
  <2>3. QueueOwned'
    BY <2>1, <2>2, ServerAssumption DEF QueueOwned, ServerAssumption
  <2> QED
    BY <2>1, <2>3 DEF NetTypes, DeafFirst, DeafHearsNothing, ListensWhereItSays,
                      MainRuns, HandlerHasPort
<1>4. CASE HandlerExits \/ HandlerCannotBind
  BY <1>4, EndKeepsInv DEF HandlerExits, HandlerCannotBind
<1> QED
  BY <1>1, <1>2, <1>3, <1>4 DEF Handler

\* A client that connects, a worker that starts, runs a shell or ends.
LEMMA WorkerKeepsInv ==
    ASSUME Mode = "t", ThreadInv, NEW c \in Clients,
           Connects(c) \/ WorkerStep(c) \/ Popens(c) \/ ThreadExitsServer(c)
    PROVE  ThreadInv'
<1> USE DEF ThreadInv
<1>1. CASE Connects(c)
  <2>1. /\ UNCHANGED <<main, hand, port, lsock, hup, ignored, keep>>
        /\ cl' = [cl EXCEPT ![c] = "queued"]
    BY <1>1 DEF Connects, hupVars
  <2>2. PICK p \in Ports : (lsock = p \/ keep[p] # {}) /\ at' = [at EXCEPT ![c] = p]
    BY <1>1 DEF Connects
  <2>3. NetTypes' /\ DeafFirst' /\ DeafHearsNothing'
    BY <2>1, <2>2 DEF NetTypes, DeafFirst, DeafHearsNothing, ClientState
  <2>4. QueueOwned'
    BY <2>1, <2>2 DEF QueueOwned, NetTypes
  <2> QED
    BY <2>1, <2>3, <2>4 DEF ListensWhereItSays, MainRuns, HandlerHasPort
<1>2. CASE ThreadIgnoresHup(c)
  <2>1. /\ UNCHANGED <<main, hand, port, lsock, at, keep>>
        /\ cl' = [cl EXCEPT ![c] = "serving"]
        /\ ignored' = TRUE /\ hup' = FALSE
    BY <1>2 DEF ThreadIgnoresHup
  <2> QED
    BY <2>1 DEF NetTypes, ClientState, DeafFirst, DeafHearsNothing, QueueOwned,
                ListensWhereItSays, MainRuns, HandlerHasPort
<1>3. CASE Popens(c)
  <2>1. /\ UNCHANGED <<main, hand, port, lsock, hup, ignored, cl, at>>
        /\ cl[c] = "serving" /\ lsock # NoPort /\ lsock \in Ports
        /\ keep' = [keep EXCEPT ![lsock] = @ \cup {c}]
    BY <1>3 DEF Popens, hupVars, NetTypes
  <2>2. ignored
    BY <2>1 DEF DeafFirst
  <2>3. keep' \in [Ports -> SUBSET Clients] /\ \A p \in Ports : keep[p] # {} => keep'[p] # {}
    BY <2>1 DEF NetTypes
  <2>4. \A p \in Ports : p # lsock => keep'[p] = keep[p]
    BY <2>1 DEF NetTypes
  <2>5. NetTypes' /\ DeafFirst' /\ DeafHearsNothing'
    BY <2>1, <2>2, <2>3 DEF NetTypes, DeafFirst, DeafHearsNothing
  <2>6. QueueOwned'
    BY <2>1, <2>3 DEF QueueOwned
  <2>7. HandlerHasPort'
    BY <2>1, <2>4 DEF HandlerHasPort, NetTypes
  <2> QED
    BY <2>1, <2>5, <2>6, <2>7 DEF ListensWhereItSays, MainRuns
<1>4. CASE ShellEnds(c) \/ WorkerEnds(c)
  <2> DEFINE cs == Unheld(lsock, Released(c))
  <2>1. /\ UNCHANGED <<main, hand, port, lsock, hup, ignored, at>>
        /\ keep' = Released(c)
        /\ cl' \in {Reset(cs), [Reset(cs) EXCEPT ![c] = "closed"]}
    BY <1>4 DEF ShellEnds, WorkerEnds, hupVars
  <2>2. /\ Reset(cs) \in [Clients -> ClientState]
        /\ \A d \in Clients : Reset(cs)[d] = IF d \in cs THEN "reset" ELSE cl[d]
    BY ResetFacts
  <2> HIDE DEF cs
  <2>3. /\ cl' \in [Clients -> ClientState]
        /\ \A d \in Clients : cl'[d] \in {cl[d], "reset", "closed"}
        /\ \A d \in Clients : cl'[d] = "queued" => cl[d] = "queued" /\ d \notin cs
    BY <2>1, <2>2 DEF ClientState
  <2>4. /\ keep' \in [Ports -> SUBSET Clients]
        /\ \A p \in Ports : keep'[p] = keep[p] \ {c}
    BY <2>1 DEF Released, NetTypes
  <2>5. NetTypes' /\ DeafFirst' /\ DeafHearsNothing'
    BY <2>1, <2>3, <2>4 DEF NetTypes, DeafFirst, DeafHearsNothing
  <2>6. QueueOwned'
    <3> SUFFICES ASSUME NEW d \in Clients, cl'[d] = "queued"
                 PROVE  at[d] \in Ports /\ (lsock = at[d] \/ keep'[at[d]] # {})
      BY <2>1 DEF QueueOwned
    <3>1. cl[d] = "queued" /\ d \notin cs /\ at[d] \in Ports
      BY <2>3 DEF QueueOwned
    <3> QED
      BY <2>1, <3>1 DEF cs, Unheld, In
  <2>7. HandlerHasPort'
    BY <2>1, <2>4 DEF HandlerHasPort, NetTypes
  <2> QED
    BY <2>1, <2>5, <2>6, <2>7 DEF ListensWhereItSays, MainRuns
<1>5. CASE ThreadExitsServer(c)
  BY <1>5, EndKeepsInv DEF ThreadExitsServer
<1> QED
  BY <1>1, <1>2, <1>3, <1>4, <1>5 DEF WorkerStep

\* With files of one port line at most, a 't' mode server keeps ThreadInv.
THEOREM ThreadInductive ==
    ASSUME Mode = "t", \A f \in Files : OnePortLine(f)
    PROVE  Spec => []ThreadInv
<1>1. Init => ThreadInv
  <2> SUFFICES ASSUME Init PROVE ThreadInv
    OBVIOUS
  <2> QED
    BY ServerAssumption
    DEF Init, ThreadInv, NetTypes, ClientState, ListensWhereItSays, MainRuns,
        DeafFirst, DeafHearsNothing, QueueOwned, HandlerHasPort, ServerAssumption
<1>2. ThreadInv /\ [Next]_vars => ThreadInv'
  <2> SUFFICES ASSUME ThreadInv, [Next]_vars PROVE ThreadInv'
    OBVIOUS
  <2>1. CASE SendHup
    BY <2>1 DEF SendHup, netVars, ThreadInv, NetTypes, ListensWhereItSays, MainRuns,
                DeafFirst, DeafHearsNothing, QueueOwned, HandlerHasPort
  <2>2. CASE Terminates
    BY <2>2, EndKeepsInv DEF Terminates
  <2>3. CASE UNCHANGED vars
    BY <2>3 DEF vars, netVars, hupVars, ThreadInv, NetTypes, ListensWhereItSays,
                MainRuns, DeafFirst, DeafHearsNothing, QueueOwned, HandlerHasPort
  <2> QED
    BY <2>1, <2>2, <2>3, AcceptKeepsInv, HandlerKeepsInv, WorkerKeepsInv DEF Next
<1> QED
  BY <1>1, <1>2, PTL DEF Spec

\* The one reload that such a server makes never fails in bind() for a copy of a
\* listening socket of its own, as long as no other program has the port.
THEOREM BindSucceeds ==
    ASSUME Mode = "t", Taken = {}, \A f \in Files : OnePortLine(f)
    PROVE  Spec => []BindFindsPortFree
<1>1. ThreadInv => BindFindsPortFree
  BY DEF ThreadInv, HandlerHasPort, BindFindsPortFree
<1>2. Spec => []ThreadInv
  BY ThreadInductive
<1> QED
  BY <1>1, <1>2, PTL

\* Nor does it reset a client in the queue of the port it opens.
THEOREM OnlyOldPortDropped ==
    ASSUME Mode = "t", \A f \in Files : OnePortLine(f)
    PROVE  Spec => ReloadDropsOnlyOldPort
<1> DEFINE A == \A c \in Clients :
        hand = "close" /\ main' # "gone" /\ cl[c] = "queued" /\ cl'[c] = "reset" =>
            at[c] # port
<1>1. ThreadInv /\ [Next]_vars => [A]_vars
  <2> SUFFICES ASSUME ThreadInv, NEW c \in Clients, hand = "close",
                      at[c] = port, cl[c] = "queued"
               PROVE  FALSE
    OBVIOUS
  <2> QED
    BY DEF ThreadInv, QueueOwned, HandlerHasPort
<1>2. Spec => []ThreadInv
  BY ThreadInductive
<1> QED
  BY <1>1, <1>2, PTL DEF Spec, ReloadDropsOnlyOldPort
=============================================================================
