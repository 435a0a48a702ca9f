------------------------- MODULE SacaWinServerProof -------------------------
(***************************************************************************)
(* The Windows server's sockets under its two threads, for every number of *)
(* clients, ports, files and CTRL+BREAKs: proofs about SacaWinServer.      *)
(***************************************************************************)
EXTENDS SacaWinServer, ConfLinesProof, TLAPS

\* A file leads from one of the ports to one of the ports.
LEMMA PortOfFile ==
    ASSUME NEW f \in Files, NEW p \in Ports
    PROVE  FilePort(f, p) \in Ports
<1>1. ASSUME NEW i \in PortLinesOf(f)
      PROVE  FiveDigits[f[i].port] \in Ports
  <2>1. i \in 1..Len(f) /\ IsPort(f[i]) /\ IsPortNumber(FiveDigits[f[i].port])
    BY DEF PortLinesOf, AcceptablePort
  <2> QED
    BY <2>1, WinServerAssumption DEF WinServerAssumption
<1> QED
  BY <1>1, PortOfLines

\* MaxBreaks is a number, and the server none of its clients.
LEMMA Bounds == MaxBreaks \in Nat /\ Server \notin Clients
BY WinServerAssumption DEF WinServerAssumption

\* open_socket gives the server a socket of its own on the port of the settings.
LEMMA OneMoreSocket ==
    ASSUME TypeOK, NumbersLeft, OpensSocket,
           main = "boot" \/ hand = "open"
    PROVE  /\ opened' = opened + 1 /\ opened' \in Sockets /\ opened' \in 0..(MaxBreaks + 1)
           /\ sport' \in [Sockets -> Ports \cup {NoPort}]
           /\ sport'[opened + 1] = port
           /\ keep' \in [Sockets -> SUBSET (Clients \cup {Server})]
           /\ Held(Server) = {} => Held(Server)' = {opened + 1}
<1>1. opened \in Nat /\ breaks \in Nat /\ breaks <= MaxBreaks /\ MaxBreaks \in Nat
  BY Bounds DEF TypeOK
<1>2. opened + 1 <= breaks + 1
  BY <1>1 DEF NumbersLeft
<1>3. opened + 1 \in Sockets /\ opened + 1 \in 0..(MaxBreaks + 1)
  BY <1>1, <1>2 DEF Sockets
<1>4. /\ sport' = [sport EXCEPT ![opened + 1] = port]
      /\ keep' = [keep EXCEPT ![opened + 1] = {Server}]
      /\ opened' = opened + 1
  BY DEF OpensSocket
<1>5. /\ sport' \in [Sockets -> Ports \cup {NoPort}]
      /\ sport'[opened + 1] = port
  BY <1>3, <1>4 DEF TypeOK
<1>6. /\ keep' \in [Sockets -> SUBSET (Clients \cup {Server})]
      /\ keep'[opened + 1] = {Server}
      /\ \A k \in Sockets : k # opened + 1 => keep'[k] = keep[k]
  BY <1>3, <1>4 DEF TypeOK
<1>7. Held(Server) = {} => Held(Server)' = {opened + 1}
  BY <1>3, <1>6 DEF Held
<1> QED
  BY <1>3, <1>4, <1>5, <1>6, <1>7

-----------------------------------------------------------------------------
(* One lemma per part of the system: its steps keep the invariant.         *)

\* The steps of the main thread.
LEMMA MainKeeps ==
    ASSUME WinServerInv, MainStep \/ SelectMayFail
    PROVE  WinServerInv'
<1> USE DEF WinServerInv, NumbersLeft, ListensWhileBusy, ServesItsPort
<1>1. CASE BootOpens
  <2>1. /\ opened' = opened + 1 /\ opened' \in Sockets /\ opened' \in 0..(MaxBreaks + 1)
        /\ sport' \in [Sockets -> Ports \cup {NoPort}]
        /\ sport'[opened + 1] = port
        /\ keep' \in [Sockets -> SUBSET (Clients \cup {Server})]
        /\ Held(Server) = {} => Held(Server)' = {opened + 1}
    BY <1>1, OneMoreSocket DEF BootOpens
  <2>2. TypeOK'
    BY <1>1, <2>1 DEF BootOpens, handVars, TypeOK, MainPc
  <2>3. NumbersLeft'
    <3>1. main = "boot" /\ main' = "bound" /\ UNCHANGED <<hand, breaks>>
      BY <1>1 DEF BootOpens, handVars
    <3>2. opened \in Nat /\ breaks \in Nat
      BY Bounds DEF TypeOK
    <3> QED
      BY <2>1, <3>1, <3>2
  <2>4. (ListensWhileBusy /\ ServesItsPort)'
    BY <1>1, <2>1 DEF BootOpens, handVars
  <2> QED
    BY <2>2, <2>3, <2>4
<1>2. CASE BootAssigns
  <2>1. TypeOK'
    BY <1>2 DEF BootAssigns, handVars, sockVars, TypeOK, MainPc
  <2>2. /\ main = "bound" /\ main' = "loop" /\ lsock' = seen
        /\ UNCHANGED <<hand, made, breaks, early, port, seen, opened, sport, keep>>
    BY <1>2 DEF BootAssigns, handVars, sockVars
  <2>3. Held(Server)' = Held(Server)
    BY <2>2 DEF Held
  <2> QED
    BY <2>1, <2>2, <2>3
<1>3. ASSUME Loops \/ SelectReturns \/ SelectFails \/ SelectMayFail \/ EntersAccept
             \/ Accepts \/ AcceptFails \/ Spawns \/ CreateThreadFails
      PROVE  WinServerInv'
  <2>1. TypeOK'
    <3>1. CASE Spawns
      <4>1. cl' \in [Clients -> ClientState]
        BY <3>1 DEF Spawns, TypeOK, ClientState, In
      <4>2. keep' \in [Sockets -> SUBSET (Clients \cup {Server})]
        BY <3>1 DEF Spawns, TypeOK, In, Held
      <4> QED
        BY <3>1, <4>1, <4>2 DEF Spawns, handVars, TypeOK, MainPc
    <3>2. CASE Accepts \/ CreateThreadFails
      <4>1. cl' \in [Clients -> ClientState]
        BY <3>2 DEF Accepts, CreateThreadFails, TypeOK, ClientState
      <4> QED
        BY <3>2, <4>1 DEF Accepts, CreateThreadFails, handVars, sockVars, TypeOK, MainPc
    <3>3. CASE Loops \/ SelectReturns \/ SelectFails \/ SelectMayFail
               \/ EntersAccept \/ AcceptFails
      BY <3>3 DEF Loops, SelectReturns, SelectFails, SelectMayFail, EntersAccept,
                  AcceptFails, handVars, sockVars, TypeOK, MainPc
    <3> QED
      BY <1>3, <3>1, <3>2, <3>3
  <2>2. /\ {main, main'} \cap {"boot", "bound", "gone"} = {}
        /\ UNCHANGED <<hand, made, breaks, early, port, lsock, opened, sport>>
    BY <1>3 DEF Loops, SelectReturns, SelectFails, SelectMayFail, EntersAccept,
                Accepts, AcceptFails, Spawns, CreateThreadFails, handVars, sockVars
  <2>3. Held(Server)' = Held(Server)
    <3>1. CASE Spawns
      <4>1. \A k \in Sockets : Server \in keep'[k] <=> Server \in keep[k]
        BY <3>1, Bounds DEF Spawns, In
      <4> QED
        BY <4>1 DEF Held
    <3>2. CASE UNCHANGED keep
      BY <3>2 DEF Held
    <3> QED
      BY <1>3, <3>1, <3>2 DEF Loops, SelectReturns, SelectFails, SelectMayFail,
             EntersAccept, Accepts, AcceptFails, CreateThreadFails, sockVars
  <2> QED
    BY <2>1, <2>2, <2>3
<1> QED
  BY <1>1, <1>2, <1>3 DEF MainStep

\* The steps of the handler on its own thread.
LEMMA HandlerKeeps ==
    ASSUME WinServerInv, HandlerStep \/ \E f \in Files : HandlerReads(f)
    PROVE  WinServerInv'
<1> USE DEF WinServerInv, NumbersLeft, ListensWhileBusy, ServesItsPort
<1>1. opened \in Nat /\ breaks \in Nat /\ MaxBreaks \in Nat
  BY Bounds DEF TypeOK
<1>2. ASSUME NEW f \in Files, HandlerReads(f)
      PROVE  WinServerInv'
  <2>1. /\ hand = "none" /\ main # "gone" /\ breaks < MaxBreaks /\ breaks' = breaks + 1
        /\ port' = FilePort(f, port)
        /\ hand' = IF FileChanges(f, port) THEN "close" ELSE "none"
        /\ early' = (early \/ (hand' = "close" /\ main \in {"boot", "bound"}))
        /\ UNCHANGED <<mode, main, made, lsock, seen, opened, sport, keep, cl, at>>
    BY <1>2 DEF HandlerReads, sockVars
  <2>2. TypeOK'
    <3>1. port' \in Ports
      BY <2>1, PortOfFile DEF TypeOK
    <3> QED
      BY <1>1, <2>1, <3>1 DEF TypeOK, HandlerPc
  <2>3. NumbersLeft'
    BY <1>1, <2>1
  <2>4. hand' = "none" => port' = port
    BY <2>1, UnchangedPort
  <2>5. Held(Server)' = Held(Server)
    BY <2>1 DEF Held
  <2>6. hand' \in {"none", "close"}
    BY <2>1
  <2>7. ASSUME ~early'
        PROVE  (ListensWhileBusy /\ ServesItsPort)'
    <3>1. ~early /\ (main \in {"boot", "bound"} => hand' = "none")
      BY <2>1, <2>6, <2>7 DEF TypeOK
    <3>2. CASE hand' = "none"
      BY <2>1, <2>4, <2>5, <3>1, <3>2
    <3>3. CASE hand' = "close"
      BY <2>1, <2>5, <3>1, <3>3
    <3> QED
      BY <2>6, <3>2, <3>3
  <2> QED
    BY <2>2, <2>3, <2>7
<1>3. CASE HandlerCloses
  <2>1. /\ hand = "close" /\ hand' = "open"
        /\ keep' = [k \in Sockets |-> IF k = lsock THEN keep[k] \ {Server} ELSE keep[k]]
        /\ UNCHANGED <<mode, main, made, breaks, early, port, lsock, seen, opened, sport, at>>
    BY <1>3 DEF HandlerCloses
  <2>2. TypeOK'
    <3>1. cl' \in [Clients -> ClientState]
      BY <1>3 DEF HandlerCloses, Reset, TypeOK, ClientState
    <3>2. keep' \in [Sockets -> SUBSET (Clients \cup {Server})]
      BY <2>1 DEF TypeOK
    <3> QED
      BY <2>1, <3>1, <3>2 DEF TypeOK, HandlerPc
  <2>3. Held(Server)' = Held(Server) \ {lsock}
    BY <2>1 DEF Held
  <2>4. NumbersLeft'
    BY <1>1, <2>1
  <2> QED
    BY <2>1, <2>2, <2>3, <2>4
<1>4. CASE HandlerOpens
  <2>1. /\ opened' = opened + 1 /\ opened' \in Sockets /\ opened' \in 0..(MaxBreaks + 1)
        /\ sport' \in [Sockets -> Ports \cup {NoPort}]
        /\ sport'[opened + 1] = port
        /\ keep' \in [Sockets -> SUBSET (Clients \cup {Server})]
        /\ Held(Server) = {} => Held(Server)' = {opened + 1}
    BY <1>4, OneMoreSocket DEF HandlerOpens
  <2>2. /\ hand = "open" /\ hand' = "assign" /\ made' = opened + 1
        /\ UNCHANGED <<mode, main, breaks, early, port, lsock, seen, cl, at>>
    BY <1>4 DEF HandlerOpens
  <2>3. TypeOK'
    BY <2>1, <2>2 DEF TypeOK, HandlerPc
  <2>4. NumbersLeft'
    BY <1>1, <2>1, <2>2
  <2> QED
    BY <2>1, <2>2, <2>3, <2>4
<1>5. CASE HandlerAssigns
  <2>1. /\ hand = "assign" /\ hand' = "none" /\ lsock' = made
        /\ UNCHANGED <<mode, main, made, breaks, early, port, seen, opened, sport, keep, cl, at>>
    BY <1>5 DEF HandlerAssigns, sockVars
  <2>2. TypeOK'
    BY <2>1 DEF TypeOK, HandlerPc
  <2>3. Held(Server)' = Held(Server)
    BY <2>1 DEF Held
  <2>4. NumbersLeft'
    BY <1>1, <2>1
  <2> QED
    BY <2>1, <2>2, <2>3, <2>4
<1> QED
  BY <1>2, <1>3, <1>4, <1>5 DEF HandlerStep

\* Clients, workers, and the end of the server.
LEMMA OthersKeep ==
    ASSUME WinServerInv, ServerEnds \/ \E c \in Clients : Connects(c) \/ WorkerEnds(c)
    PROVE  WinServerInv'
<1> USE DEF WinServerInv, NumbersLeft, ListensWhileBusy, ServesItsPort
<1>1. CASE ServerEnds
  <2>1. TypeOK'
    BY <1>1 DEF ServerEnds, Reset, TypeOK, MainPc, HandlerPc, ClientState
  <2>2. opened \in Nat /\ breaks \in Nat
    BY Bounds DEF TypeOK
  <2>3. main' = "gone" /\ hand' = "none" /\ UNCHANGED <<opened, breaks>>
    BY <1>1 DEF ServerEnds
  <2> QED
    BY <2>1, <2>2, <2>3
<1>2. ASSUME NEW c \in Clients, Connects(c)
      PROVE  WinServerInv'
  <2>1. TypeOK'
    BY <1>2 DEF Connects, handVars, sockVars, TypeOK, ClientState
  <2>2. UNCHANGED <<main, hand, made, breaks, early, port, lsock, seen, opened, sport, keep>>
    BY <1>2 DEF Connects, handVars, sockVars
  <2>3. Held(Server)' = Held(Server)
    BY <2>2 DEF Held
  <2> QED
    BY <2>1, <2>2, <2>3
<1>3. ASSUME NEW c \in Clients, WorkerEnds(c)
      PROVE  WinServerInv'
  <2>1. keep' = [k \in Sockets |-> keep[k] \ {c}]
    BY <1>3 DEF WorkerEnds
  <2>2. UNCHANGED <<mode, main, hand, made, breaks, early, port, lsock, seen, opened, sport, at>>
    BY <1>3 DEF WorkerEnds, handVars
  <2>3. TypeOK'
    <3>1. cl' \in [Clients -> ClientState]
      BY <1>3 DEF WorkerEnds, Reset, TypeOK, ClientState
    <3>2. keep' \in [Sockets -> SUBSET (Clients \cup {Server})]
      BY <2>1 DEF TypeOK
    <3> QED
      BY <2>2, <3>1, <3>2 DEF TypeOK
  <2>4. Held(Server)' = Held(Server)
    BY <2>1, Bounds DEF Held
  <2> QED
    BY <2>2, <2>3, <2>4
<1> QED
  BY <1>1, <1>2, <1>3

-----------------------------------------------------------------------------
(* The results.                                                            *)

\* The invariant that carries ServesItsPort through the interleavings of the main
\* thread (socket.c:173-322) and the handler's thread (sacagawea.c:159-193).
THEOREM WinServerInductive == Spec => []WinServerInv
<1>1. Init => WinServerInv
  <2> SUFFICES ASSUME Init PROVE WinServerInv
    OBVIOUS
  <2>1. TypeOK
    <3>1. opened \in 0..(MaxBreaks + 1) /\ breaks \in 0..MaxBreaks
      BY Bounds DEF Init
    <3>2. /\ sport \in [Sockets -> Ports \cup {NoPort}]
          /\ keep \in [Sockets -> SUBSET (Clients \cup {Server})]
      BY DEF Init
    <3>3. /\ cl \in [Clients -> ClientState]
          /\ at \in [Clients -> Sockets \cup {NoSocket}]
      BY DEF Init, ClientState
    <3> QED
      BY <3>1, <3>2, <3>3 DEF Init, TypeOK, MainPc, HandlerPc
  <2>2. Held(Server) = {}
    BY DEF Init, Held
  <2>3. NumbersLeft /\ ListensWhileBusy /\ ServesItsPort
    BY <2>2 DEF Init, NumbersLeft, ListensWhileBusy, ServesItsPort
  <2> QED
    BY <2>1, <2>3 DEF WinServerInv
<1>2. WinServerInv /\ [Next]_vars => WinServerInv'
  <2> SUFFICES ASSUME WinServerInv, [Next]_vars
               PROVE  WinServerInv'
    OBVIOUS
  <2>1. CASE UNCHANGED vars
    BY <2>1 DEF vars, handVars, sockVars, WinServerInv, TypeOK, NumbersLeft,
                ListensWhileBusy, ServesItsPort, Held
  <2>2. CASE Next
    BY <2>2, MainKeeps, HandlerKeeps, OthersKeep DEF Next
  <2> QED
    BY <2>1, <2>2
<1> QED
  BY <1>1, <1>2, PTL DEF Spec

\* Every variable keeps its type: the numbers for new sockets never run out.
THEOREM WinTypeCorrect == Spec => []TypeOK
<1>1. WinServerInv => TypeOK
  BY DEF WinServerInv
<1> QED
  BY <1>1, WinServerInductive, PTL

\* Between two CTRL+BREAKs the server (sacagawea.c:159-176) listens on the port of
\* its settings, and on nothing else.
THEOREM WinServesItsPort == Spec => []ServesItsPort
<1>1. WinServerInv => ServesItsPort
  BY DEF WinServerInv
<1> QED
  BY <1>1, WinServerInductive, PTL
=============================================================================
