--------------------------- MODULE SacaWinLogProof ---------------------------
(***************************************************************************)
(* The transfer log on Windows, for every number of senders and pipe       *)
(* instances and every length of record: proofs about SacaWinLog.          *)
(***************************************************************************)
EXTENDS SacaWinLog, FiniteSetTheorems, SequenceTheorems, TLAPS

-----------------------------------------------------------------------------
(* What the operators of the model return.                                 *)

\* A function on 1..n is a sequence of length n.
LEMMA FunctionIsSeq ==
    ASSUME NEW S, NEW n \in Nat, NEW f \in [1..n -> S]
    PROVE  f \in Seq(S) /\ Len(f) = n
<1>1. f \in Seq(S)
  BY SeqDef
<1>2. DOMAIN f = 1..n /\ DOMAIN f = 1..Len(f) /\ Len(f) \in Nat
  BY <1>1, LenProperties
<1> QED
  BY <1>1, <1>2

\* WaitForMultipleObjects returns one of the instances it was given.
LEMMA MinOfPipes ==
    ASSUME NEW S, S \subseteq Pipes, S # {}
    PROVE  Min(S) \in S
<1>1. S \subseteq Nat
  BY DEF Pipes
<1>2. PICK x \in S : \A y \in S : <<y, x>> \notin OpToRel(<, Nat)
  BY <1>1, WFMin, NatLessThanWellFounded
<1>3. \A y \in S : x =< y
  <2> SUFFICES ASSUME NEW y \in S, y < x PROVE FALSE
    BY <1>1
  <2> QED
    BY <1>1, <1>2 DEF OpToRel
<1> QED
  BY <1>3 DEF Min

\* What a record leaves of a buffer: all of the record, and the buffer behind it.
LEMMA OverFacts ==
    ASSUME NEW s \in Senders, NEW b \in Seq(Senders)
    PROVE  /\ Size[s] \in Nat /\ Size[s] > 0
           /\ Over(s, b) \in Seq(Senders)
           /\ Len(Over(s, b)) >= Size[s]
           /\ \A n \in 1..Size[s] : Over(s, b)[n] = s
           /\ \A n \in (Size[s] + 1)..Len(Over(s, b)) : n \in 1..Len(b) /\ Over(s, b)[n] = b[n]
<1> DEFINE m == Max({Size[s], Len(b)})
<1>1. /\ Size[s] \in Nat /\ Size[s] > 0 /\ Len(b) \in Nat
      /\ \A n \in 1..Len(b) : b[n] \in Senders
  BY WinLogAssumption, LenProperties, ElementOfSeq DEF WinLogAssumption
<1>2. /\ m \in {Size[s], Len(b)} /\ m >= Size[s] /\ m >= Len(b)
  <2>1. \E x \in {Size[s], Len(b)} : \A y \in {Size[s], Len(b)} : x >= y
    BY <1>1
  <2> QED
    BY <2>1 DEF Max
<1> HIDE DEF m
<1>3. /\ Over(s, b) = [k \in 1..m |-> IF k <= Size[s] THEN s ELSE b[k]]
      /\ m \in Nat
      /\ \A k \in 1..m : ~(k <= Size[s]) => k \in 1..Len(b)
  BY <1>1, <1>2 DEF Over, m
<1>4. Over(s, b) \in [1..m -> Senders]
  BY <1>1, <1>3
<1>5. Over(s, b) \in Seq(Senders) /\ Len(Over(s, b)) = m
  BY <1>3, <1>4, FunctionIsSeq
<1>6. \A n \in 1..Size[s] : n \in 1..m /\ Over(s, b)[n] = s
  BY <1>1, <1>2, <1>3
<1>7. \A n \in (Size[s] + 1)..m : n \in 1..Len(b) /\ Over(s, b)[n] = b[n]
  <2> SUFFICES ASSUME NEW n \in (Size[s] + 1)..m
               PROVE  n \in 1..Len(b) /\ Over(s, b)[n] = b[n]
    OBVIOUS
  <2>1. n \in 1..m /\ ~(n <= Size[s])
    BY <1>1, <1>3
  <2> QED
    BY <1>3, <2>1
<1> QED
  BY <1>1, <1>2, <1>5, <1>6, <1>7

-----------------------------------------------------------------------------
(* The types.                                                              *)

\* A line about to be written is not empty.
TypeInv == TypeOK /\ (lpc = "file" => Len(request) > 0)

\* Closing a handle makes an instance "closing" and leaves all others alone.
LEMMA LetsGoFacts ==
    ASSUME TypeOK, NEW s \in Senders, LetsGo(s)
    PROVE  /\ inst' \in [Pipes -> InstState]
           /\ \A i \in Pipes : \/ inst'[i] = inst[i]
                               \/ client[i] = s /\ inst[i] = "connected" /\ inst'[i] = "closing"
           /\ hpipe' = [hpipe EXCEPT ![s] = Invalid]
           /\ hpipe' \in [Senders -> 0..NPipes]
BY WinLogAssumption DEF WinLogAssumption, LetsGo, TypeOK, InstState, Invalid

\* Every step of a sender keeps the types.
LEMMA SenderTypes ==
    ASSUME TypeInv, NEW s \in Senders, SenderStep(s)
    PROVE  TypeInv'
<1> USE DEF TypeInv
<1>1. CASE Opens(s)
  <2>1. PICK i \in Available :
            /\ hpipe' = [hpipe EXCEPT ![s] = i]
            /\ client' = [client EXCEPT ![i] = s]
            /\ inst' = [inst EXCEPT ![i] = "connected"]
            /\ signaled' = signaled \cup (IF inst[i] = "listening" THEN {i} ELSE {})
    BY <1>1 DEF Opens
  <2>2. i \in Pipes /\ i \in 0..NPipes
    BY WinLogAssumption DEF Available, Pipes, WinLogAssumption
  <2>3. inst' \in [Pipes -> InstState] /\ client' \in [Pipes -> Senders \cup {Free}]
    BY <2>1, <2>2 DEF TypeOK, InstState
  <2>4. signaled' \subseteq {j \in Pipes : inst'[j] \in {"new", "connected", "closing", "off"}}
    BY <2>1, <2>2 DEF TypeOK
  <2>5. spc' \in [Senders -> SenderPc] /\ hpipe' \in [Senders -> 0..NPipes]
    BY <1>1, <2>1, <2>2 DEF Opens, SenderGoes, TypeOK, SenderPc
  <2> QED
    BY <1>1, <2>3, <2>4, <2>5 DEF Opens, TypeOK, loggerVars
<1>2. CASE FindsBusy(s) \/ FindsNoPipe(s) \/ Waits(s) \/ TimesOut(s) \/ SetsMode(s) \/ WriteFails(s)
  <2>1. /\ spc' \in [Senders -> SenderPc]
        /\ UNCHANGED <<mode, pipeVars, loggerVars, hpipe>>
    BY <1>2 DEF FindsBusy, FindsNoPipe, Waits, TimesOut, SetsMode, WriteFails, SenderGoes,
                TypeOK, SenderPc
  <2> QED
    BY <2>1 DEF TypeOK, pipeVars, loggerVars
<1>3. CASE Writes(s)
  <2>1. data' \in [Pipes -> Senders \cup {Free}] /\ spc' \in [Senders -> SenderPc]
    BY <1>3 DEF Writes, SenderGoes, TypeOK, SenderPc
  <2> QED
    BY <1>3, <2>1 DEF Writes, TypeOK, loggerVars
<1>4. CASE Closes(s) \/ ChildEnds(s)
  <2>1. /\ LetsGo(s) /\ spc' \in [Senders -> SenderPc]
        /\ UNCHANGED <<mode, client, data, signaled, loggerVars>>
    BY <1>4 DEF Closes, ChildEnds, SenderGoes, TypeOK, SenderPc
  <2>2. /\ inst' \in [Pipes -> InstState] /\ hpipe' \in [Senders -> 0..NPipes]
        /\ \A i \in Pipes : inst'[i] \in {inst[i], "closing"}
    BY <2>1, LetsGoFacts
  <2> QED
    BY <2>1, <2>2 DEF TypeOK, loggerVars
<1> QED
  BY <1>1, <1>2, <1>3, <1>4 DEF SenderStep

\* Every step of the log process does.
LEMMA LoggerTypes ==
    ASSUME TypeInv, LoggerStep \/ LoggerFileFails \/ LoggerEnds
    PROVE  TypeInv'
<1> USE DEF TypeInv
<1>0. TypeOK /\ li \in Pipes
  BY DEF TypeOK
<1>1. CASE LoggerCreates
  <2>1. /\ inst' \in [Pipes -> InstState] /\ lpc' = "connect"
        /\ signaled' \subseteq {j \in Pipes : inst'[j] \in {"new", "connected", "closing", "off"}}
    BY <1>0, <1>1 DEF LoggerCreates, TypeOK, InstState
  <2> QED
    BY <1>0, <1>1, <2>1 DEF LoggerCreates, TypeOK, LoggerPc, senderVars
<1>2. CASE LoggerConnects
  <2>1. /\ inst' \in [Pipes -> InstState] /\ inst'[li] = Connected(inst[li])
        /\ \A i \in Pipes : i # li => inst'[i] = inst[i]
    BY <1>0, <1>2 DEF LoggerConnects, TypeOK, InstState, Connected
  <2>2. inst[li] = "connected" => inst'[li] = "connected"
    BY <2>1 DEF Connected
  <2>3. signaled' \subseteq {j \in Pipes : inst'[j] \in {"new", "connected", "closing", "off"}}
    BY <1>0, <1>2, <2>1, <2>2 DEF LoggerConnects, TypeOK
  <2>4. lpc' \in {"create", "wait"} /\ li' \in Pipes
    BY <1>0, <1>2, WinLogAssumption DEF LoggerConnects, Pipes, WinLogAssumption
  <2> QED
    BY <1>0, <1>2, <2>1, <2>3, <2>4 DEF LoggerConnects, TypeOK, LoggerPc, senderVars
<1>3. CASE LoggerWakes
  <2>1. Min(signaled) \in Pipes
    BY <1>0, <1>3, MinOfPipes DEF LoggerWakes, TypeOK
  <2> QED
    BY <1>0, <1>3, <2>1 DEF LoggerWakes, TypeOK, LoggerPc, senderVars, pipeVars
<1>4. CASE LoggerReads
  <2>1. data[li] \in Senders
    BY <1>0, <1>4 DEF LoggerReads, TypeOK
  <2>2. request' \in Seq(Senders) /\ Len(request') > 0
    <3>1. request \in Seq(Senders) /\ request' = Over(data[li], request)
      BY <1>0, <1>4 DEF LoggerReads, TypeOK
    <3>2. Over(data[li], request) \in Seq(Senders)
      BY <2>1, <3>1, OverFacts
    <3>3. Len(Over(data[li], request)) >= Size[data[li]] /\ Size[data[li]] \in Nat /\ Size[data[li]] > 0
      BY <2>1, <3>1, OverFacts
    <3>4. Len(Over(data[li], request)) \in Nat
      BY <3>2, LenProperties
    <3> QED
      BY <3>1, <3>2, <3>3, <3>4
  <2>3. data' \in [Pipes -> Senders \cup {Free}]
    BY <1>0, <1>4 DEF LoggerReads, TypeOK
  <2> QED
    BY <1>0, <1>4, <2>2, <2>3 DEF LoggerReads, TypeOK, LoggerPc, senderVars
<1>5. CASE LoggerReadFails
  BY <1>0, <1>5 DEF LoggerReadFails, TypeOK, LoggerPc, senderVars, pipeVars
<1>6. CASE LoggerFiles
  <2>1. log' \in Seq(Seq(Senders)) /\ request' \in Seq(Senders)
    BY <1>0, <1>6, AppendProperties, EmptySeq DEF LoggerFiles, TypeOK
  <2> QED
    BY <1>0, <1>6, <2>1 DEF LoggerFiles, TypeOK, LoggerPc, senderVars, pipeVars
<1>7. CASE LoggerFileFails
  <2>1. request[1] \in Senders
    <3>1. request \in Seq(Senders) /\ Len(request) > 0 /\ Len(request) \in Nat
      BY <1>0, <1>7, LenProperties DEF LoggerFileFails, TypeOK
    <3> QED
      BY <3>1, ElementOfSeq
  <2>2. request' \in Seq(Senders)
    BY <1>0, <1>7, EmptySeq DEF LoggerFileFails, TypeOK
  <2> QED
    BY <1>0, <1>7, <2>1, <2>2 DEF LoggerFileFails, TypeOK, LoggerPc, senderVars, pipeVars
<1>8. CASE LoggerDisconnects
  <2>1. /\ inst' \in [Pipes -> InstState]
        /\ client' \in [Pipes -> Senders \cup {Free}] /\ data' \in [Pipes -> Senders \cup {Free}]
        /\ signaled' \subseteq {j \in Pipes : inst'[j] \in {"new", "connected", "closing", "off"}}
    BY <1>0, <1>8 DEF LoggerDisconnects, TypeOK, InstState
  <2> QED
    BY <1>0, <1>8, <2>1 DEF LoggerDisconnects, TypeOK, LoggerPc, senderVars
<1>9. CASE LoggerEnds
  BY <1>0, <1>9 DEF LoggerEnds, TypeOK, LoggerPc, InstState, senderVars
<1> QED
  BY <1>1, <1>2, <1>3, <1>4, <1>5, <1>6, <1>7, <1>8, <1>9 DEF LoggerStep

LEMMA TypesHold == Spec => []TypeInv
<1>1. Init => TypeInv
  <2> SUFFICES ASSUME Init PROVE TypeInv
    OBVIOUS
  <2>1. li \in Pipes /\ lpc = "create" /\ mode \in Modes /\ signaled = {}
    BY WinLogAssumption DEF Init, Pipes, WinLogAssumption
  <2>2. /\ inst \in [Pipes -> InstState] /\ spc \in [Senders -> SenderPc]
        /\ client \in [Pipes -> Senders \cup {Free}] /\ data \in [Pipes -> Senders \cup {Free}]
    BY DEF Init, InstState, SenderPc
  <2>3. hpipe \in [Senders -> 0..NPipes]
    BY WinLogAssumption DEF Init, Invalid, WinLogAssumption
  <2>4. request \in Seq(Senders) /\ log \in Seq(Seq(Senders)) /\ dropped = {}
    BY EmptySeq DEF Init
  <2> QED
    BY <2>1, <2>2, <2>3, <2>4 DEF TypeInv, TypeOK, LoggerPc
<1>2. TypeInv /\ [Next]_vars => TypeInv'
  <2> SUFFICES ASSUME TypeInv, [Next]_vars PROVE TypeInv'
    OBVIOUS
  <2>1. CASE UNCHANGED vars
    BY <2>1 DEF vars, pipeVars, loggerVars, senderVars, TypeInv, TypeOK
  <2> QED
    BY <2>1, SenderTypes, LoggerTypes DEF Next
<1> QED
  BY <1>1, <1>2, PTL DEF Spec

\* Every variable keeps its type, and no event is set of an instance that waits for
\* its first client (logger.c:54-66, 144-172).
THEOREM TypeCorrect == Spec => []TypeOK
<1>1. TypeInv => TypeOK
  BY DEF TypeInv
<1> QED
  BY <1>1, TypesHold, PTL
-----------------------------------------------------------------------------
(* The lines.  The buffer is zeroed only after a line was written, so what *)
(* is left in it, and may follow the next record, is a dropped record's.   *)

\* A record from end to end, with nothing but lost ones behind it.
Whole(line, lost) ==
    /\ Len(line) >= Size[line[1]]
    /\ \A n \in 1..Size[line[1]] : line[n] = line[1]
    /\ \A n \in (Size[line[1]] + 1)..Len(line) : line[n] \in lost

BufferWhole ==
    /\ lpc = "file" => Whole(request, dropped)
    /\ lpc \notin {"file", "gone"} => \A n \in 1..Len(request) : request[n] \in dropped

LineInv ==
    /\ TypeInv
    /\ \A k \in 1..Len(log) : Whole(log[k], dropped)
    /\ BufferWhole

\* A step that leaves buffer and file alone, and does not read, keeps LineInv.
LEMMA LinesUntouched ==
    ASSUME LineInv, UNCHANGED <<request, log, dropped>>,
           lpc' = "file" => lpc = "file", lpc = "file" => lpc' \in {"file", "gone"},
           lpc = "gone" => lpc' = "gone"
    PROVE  /\ \A k \in 1..Len(log') : Whole(log'[k], dropped')
           /\ BufferWhole'
<1>1. \A k \in 1..Len(log') : Whole(log'[k], dropped')
  BY DEF LineInv
<1>2. lpc' = "file" => Whole(request', dropped')
  BY DEF LineInv, BufferWhole
<1>3. lpc' \notin {"file", "gone"} => \A n \in 1..Len(request') : request'[n] \in dropped'
  BY DEF LineInv, BufferWhole
<1> QED
  BY <1>1, <1>2, <1>3 DEF BufferWhole

\* Every step of the log process keeps the lines whole.
LEMMA LineStep ==
    ASSUME LineInv, [Next]_vars
    PROVE  /\ \A k \in 1..Len(log') : Whole(log'[k], dropped')
           /\ BufferWhole'
<1>0. TypeOK /\ li \in Pipes /\ request \in Seq(Senders)
  BY DEF LineInv, TypeInv, TypeOK
<1>1. CASE LoggerReads
  <2>1. data[li] \in Senders /\ request' = Over(data[li], request) /\ lpc = "read" /\ lpc' = "file"
        /\ UNCHANGED <<log, dropped>>
    BY <1>0, <1>1 DEF LoggerReads, TypeOK
  <2> DEFINE s == data[li]
  <2>2. /\ Size[s] \in Nat /\ Size[s] > 0
        /\ Len(request') >= Size[s]
        /\ \A n \in 1..Size[s] : request'[n] = s
        /\ \A n \in (Size[s] + 1)..Len(request') : n \in 1..Len(request) /\ request'[n] = request[n]
    BY <1>0, <2>1, OverFacts
  <2> HIDE DEF s
  <2>3. request'[1] = s
    BY <2>2
  <2>4. \A n \in 1..Len(request) : request[n] \in dropped
    BY <2>1 DEF LineInv, BufferWhole
  <2>5. Whole(request', dropped')
    BY <2>1, <2>2, <2>3, <2>4 DEF Whole
  <2> QED
    BY <2>1, <2>5 DEF LineInv, BufferWhole, Whole
<1>2. CASE LoggerFiles
  <2>1. /\ lpc = "file" /\ lpc' = "disconnect" /\ request' = <<>> /\ dropped' = dropped
        /\ log' = Append(log, request) /\ log \in Seq(Seq(Senders))
    BY <1>0, <1>2 DEF LoggerFiles, TypeOK
  <2>2. /\ Len(log) \in Nat /\ Len(log') = Len(log) + 1 /\ log'[Len(log) + 1] = request
        /\ \A k \in 1..Len(log) : log'[k] = log[k]
    BY <1>0, <2>1, AppendProperties, LenProperties
  <2>3. Whole(request, dropped) /\ \A k \in 1..Len(log) : Whole(log[k], dropped)
    BY <2>1 DEF LineInv, BufferWhole
  <2>4. ASSUME NEW k \in 1..Len(log') PROVE Whole(log'[k], dropped')
    <3>1. CASE k = Len(log) + 1
      BY <2>1, <2>2, <2>3, <3>1 DEF Whole
    <3>2. CASE k \in 1..Len(log)
      BY <2>1, <2>2, <2>3, <3>2 DEF Whole
    <3> QED
      BY <2>2, <3>1, <3>2
  <2>5. BufferWhole'
    BY <2>1, EmptySeq DEF BufferWhole
  <2> QED
    BY <2>4, <2>5
<1>3. CASE LoggerFileFails
  <2>1. /\ lpc = "file" /\ lpc' = "disconnect" /\ dropped' = dropped \cup {request[1]}
        /\ request' \in {request, <<>>} /\ log' = log
    BY <1>3 DEF LoggerFileFails
  <2>2. Whole(request, dropped) /\ \A k \in 1..Len(log) : Whole(log[k], dropped)
    BY <2>1 DEF LineInv, BufferWhole
  <2>3. \A n \in 1..Len(request) : request[n] \in dropped'
    <3> SUFFICES ASSUME NEW n \in 1..Len(request) PROVE request[n] \in dropped'
      OBVIOUS
    <3>1. Len(request) \in Nat /\ request[1] \in Senders /\ Size[request[1]] \in Nat
      BY <1>0, LenProperties, ElementOfSeq, WinLogAssumption DEF WinLogAssumption
    <3>2. n \in 1..Size[request[1]] \/ n \in (Size[request[1]] + 1)..Len(request)
      BY <3>1
    <3> QED
      BY <2>1, <2>2, <3>2 DEF Whole
  <2>4. \A k \in 1..Len(log') : Whole(log'[k], dropped')
    BY <2>1, <2>2 DEF Whole
  <2>5. BufferWhole'
    BY <2>1, <2>3, EmptySeq DEF BufferWhole
  <2> QED
    BY <2>4, <2>5
<1>4. CASE \E s \in Senders : SenderStep(s)
  BY <1>4, LinesUntouched
  DEF SenderStep, Opens, FindsBusy, FindsNoPipe, Waits, TimesOut, SetsMode, Writes, WriteFails,
      Closes, ChildEnds, loggerVars
<1>5. CASE LoggerCreates \/ LoggerConnects \/ LoggerWakes \/ LoggerReadFails \/ LoggerDisconnects
  BY <1>5, LinesUntouched
  DEF LoggerCreates, LoggerConnects, LoggerWakes, LoggerReadFails, LoggerDisconnects
<1>6. CASE LoggerEnds
  BY <1>6, LinesUntouched DEF LoggerEnds
<1>7. CASE UNCHANGED vars
  BY <1>7, LinesUntouched DEF vars, loggerVars
<1> QED
  BY <1>1, <1>2, <1>3, <1>4, <1>5, <1>6, <1>7 DEF Next, LoggerStep

\* No line of the file mixes two records, but for the end of a record that could not
\* be written and stayed in the buffer (logger.c:179-204).
THEOREM LinesAreWhole == Spec => []LinesAreRecords
<1> DEFINE Kept == (\A k \in 1..Len(log) : Whole(log[k], dropped)) /\ BufferWhole
<1>1. Init => Kept
  <2> SUFFICES ASSUME Init PROVE Kept
    OBVIOUS
  <2>1. log = <<>> /\ request = <<>> /\ lpc = "create"
    BY DEF Init
  <2>2. Len(log) = 0 /\ Len(request) = 0
    BY <2>1, EmptySeq
  <2> QED
    BY <2>1, <2>2 DEF BufferWhole
<1>2. TypeInv /\ Kept /\ [Next]_vars => Kept'
  BY LineStep DEF LineInv
<1>3. TypeInv /\ Kept => LinesAreRecords
  <2> SUFFICES ASSUME TypeInv, Kept, NEW k \in DOMAIN log
               PROVE  /\ \A n \in 1 .. Size[log[k][1]] : log[k][n] = log[k][1]
                      /\ \A n \in Size[log[k][1]] + 1 .. Len(log[k]) : log[k][n] \in dropped
    BY DEF LinesAreRecords
  <2>1. DOMAIN log = 1..Len(log)
    BY LenProperties DEF TypeInv, TypeOK
  <2> QED
    BY <2>1 DEF Whole
<1> QED
  BY <1>1, <1>2, <1>3, TypesHold, PTL DEF Spec
-----------------------------------------------------------------------------
(* The records.  An instance belongs to the sender that opened it until    *)
(* the log process has read its message and disconnects it: so no message  *)
(* is overwritten, and none is thrown away with its instance.              *)

Written == {s \in Senders : Wrote(s)}

\* Who has which instance.
Instances ==
    /\ lpc = "create" => inst[li] = "none"
    /\ \A i \in Pipes : client[i] # Free => inst[i] \in {"connected", "closing", "missed"}
    /\ \A i, j \in Pipes : client[i] = client[j] /\ client[i] # Free => i = j
    /\ \A s \in Senders : spc[s] = "open" => hpipe[s] = Invalid /\ \A i \in Pipes : client[i] # s
    /\ \A s \in Senders : spc[s] \in {"wait", "mode", "write"} /\ hpipe[s] # Invalid =>
            hpipe[s] \in Pipes /\ client[hpipe[s]] = s
    /\ \A s \in Senders : spc[s] = "write" => hpipe[s] # Invalid

\* A message is its client's, and read before the instance is disconnected.
Messages ==
    /\ \A i \in Pipes : data[i] # Free => client[i] = data[i] /\ data[i] \in Written
    /\ lpc \in {"file", "disconnect"} => data[li] = Free /\ client[li] \in Written

\* What is written is in one place only.
Places ==
    /\ IsFiniteSet(Written)
    /\ Written = InPipes \cup InHand \cup Heads \cup dropped
    /\ InPipes \cap (InHand \cup Heads \cup dropped) = {}
    /\ InHand \cap dropped = {}
    /\ Cardinality(InPipes) + Cardinality(InHand) + Len(log) + Cardinality(dropped)
           = Cardinality(Written)

KeptInv == lpc # "gone" => Instances /\ Messages /\ Places

\* A sender keeps Instances and Messages.
LEMMA SenderKeeps ==
    ASSUME TypeOK, Instances, Messages, NEW s \in Senders, SenderStep(s)
    PROVE  Instances' /\ Messages'
<1>0. WinLogAssumption
  BY WinLogAssumption
<1>1. CASE Opens(s)
  <2>1. PICK i \in Available :
            /\ hpipe' = [hpipe EXCEPT ![s] = i]
            /\ client' = [client EXCEPT ![i] = s]
            /\ inst' = [inst EXCEPT ![i] = "connected"]
    BY <1>1 DEF Opens
  <2>2. /\ i \in Pipes /\ inst[i] \in {"new", "listening"}
        /\ spc[s] = "open" /\ spc' = [spc EXCEPT ![s] = "wait"]
        /\ UNCHANGED <<data, lpc, li>>
    BY <1>1 DEF Opens, SenderGoes, Available, loggerVars
  <2>3. client[i] = Free /\ data[i] = Free /\ s # Free
    BY <1>0, <2>2 DEF Instances, Messages, WinLogAssumption
  <2>4. /\ client'[i] = s /\ inst'[i] = "connected" /\ hpipe'[s] = i /\ spc'[s] = "wait"
        /\ \A j \in Pipes : j # i => client'[j] = client[j] /\ inst'[j] = inst[j]
        /\ \A t \in Senders : t # s => hpipe'[t] = hpipe[t] /\ spc'[t] = spc[t]
    BY <2>1, <2>2 DEF TypeOK
  <2>5. \A j \in Pipes : client[j] # s
    BY <2>2 DEF Instances
  <2>6. Instances'
    <3>1. lpc' = "create" => inst'[li'] = "none"
      BY <2>2, <2>4 DEF Instances, TypeOK
    <3>2. \A j \in Pipes : client'[j] # Free => inst'[j] \in {"connected", "closing", "missed"}
      BY <2>4 DEF Instances
    <3>3. \A j, k \in Pipes : client'[j] = client'[k] /\ client'[j] # Free => j = k
      BY <2>4, <2>5 DEF Instances
    <3>4. \A t \in Senders : spc'[t] = "open" => hpipe'[t] = Invalid /\ \A j \in Pipes : client'[j] # t
      BY <2>4 DEF Instances
    <3>5. \A t \in Senders : spc'[t] \in {"wait", "mode", "write"} /\ hpipe'[t] # Invalid =>
              hpipe'[t] \in Pipes /\ client'[hpipe'[t]] = t
      <4> SUFFICES ASSUME NEW t \in Senders, spc'[t] \in {"wait", "mode", "write"},
                          hpipe'[t] # Invalid
                   PROVE  hpipe'[t] \in Pipes /\ client'[hpipe'[t]] = t
        OBVIOUS
      <4>1. CASE t = s
        BY <2>2, <2>4, <4>1
      <4>2. CASE t # s
        <5>1. hpipe'[t] = hpipe[t] /\ hpipe[t] \in Pipes /\ client[hpipe[t]] = t
          BY <2>4, <4>2 DEF Instances
        <5>2. hpipe[t] # i
          BY <1>0, <2>3, <5>1 DEF WinLogAssumption
        <5> QED
          BY <2>4, <5>1, <5>2
      <4> QED
        BY <4>1, <4>2
    <3>6. \A t \in Senders : spc'[t] = "write" => hpipe'[t] # Invalid
      BY <2>4 DEF Instances
    <3> QED
      BY <3>1, <3>2, <3>3, <3>4, <3>5, <3>6 DEF Instances
  <2>7. Messages'
    <3>1. Written' = Written /\ s \notin Written
      BY <2>2, <2>4 DEF Written, Wrote
    <3>3. \A j \in Pipes : data'[j] # Free => client'[j] = data'[j] /\ data'[j] \in Written'
      BY <2>2, <2>3, <2>4, <3>1 DEF Messages
    <3>4. lpc' \in {"file", "disconnect"} => data'[li'] = Free /\ client'[li'] \in Written'
      <4>1. lpc \in {"file", "disconnect"} => client[li] # Free /\ client[li] \in Written
                                              /\ data[li] = Free
        BY <1>0 DEF Messages, Written, WinLogAssumption
      <4> QED
        BY <2>2, <2>3, <2>4, <3>1, <4>1 DEF TypeOK
    <3> QED
      BY <3>3, <3>4 DEF Messages
  <2> QED
    BY <2>6, <2>7
<1>2. CASE FindsBusy(s) \/ FindsNoPipe(s) \/ Waits(s) \/ TimesOut(s) \/ SetsMode(s) \/ WriteFails(s)
  <2>1. /\ spc[s] \in {"open", "wait", "mode", "write"}
        /\ spc'[s] \in {"wait", "mode", "write", "lost"}
        /\ spc'[s] = "write" => hpipe[s] # Invalid
        /\ spc'[s] = "wait" => spc[s] = "open"
        /\ \A t \in Senders : t # s => spc'[t] = spc[t]
        /\ UNCHANGED <<inst, client, data, lpc, li, hpipe>>
    BY <1>2 DEF FindsBusy, FindsNoPipe, Waits, TimesOut, SetsMode, WriteFails, SenderGoes,
                pipeVars, loggerVars, TypeOK
  <2>2. Messages'
    <3>1. Written' = Written
      BY <2>1 DEF Written, Wrote
    <3> QED
      BY <2>1, <3>1 DEF Messages
  <2>3. Instances'
    BY <2>1 DEF Instances
  <2> QED
    BY <2>2, <2>3
<1>3. CASE Writes(s)
  <2>1. /\ spc[s] = "write" /\ spc'[s] = "close" /\ \A t \in Senders : t # s => spc'[t] = spc[t]
        /\ data' = [data EXCEPT ![hpipe[s]] = s]
        /\ UNCHANGED <<inst, client, lpc, li, hpipe>>
    BY <1>3 DEF Writes, SenderGoes, loggerVars, TypeOK
  <2>2. hpipe[s] \in Pipes /\ client[hpipe[s]] = s
    BY <2>1 DEF Instances
  <2>3. /\ data'[hpipe[s]] = s
        /\ \A j \in Pipes : j # hpipe[s] => data'[j] = data[j]
    BY <2>1, <2>2 DEF TypeOK
  <2>4. Instances'
    BY <2>1 DEF Instances
  <2>5. Written' = Written \cup {s} /\ s \notin Written
    BY <2>1 DEF Written, Wrote
  <2>6. lpc' \in {"file", "disconnect"} => data'[li'] = Free /\ client'[li'] \in Written'
    BY <2>1, <2>2, <2>3, <2>5 DEF Messages, TypeOK
  <2>7. \A j \in Pipes : data'[j] # Free => client'[j] = data'[j] /\ data'[j] \in Written'
    BY <2>1, <2>2, <2>3, <2>5 DEF Messages
  <2> QED
    BY <2>4, <2>6, <2>7 DEF Messages
<1>4. CASE Closes(s) \/ ChildEnds(s)
  <2>1. /\ spc[s] \in {"close", "lost"} /\ spc'[s] = (IF spc[s] = "close" THEN "done" ELSE "gone")
        /\ \A t \in Senders : t # s => spc'[t] = spc[t]
        /\ LetsGo(s) /\ UNCHANGED <<client, data, lpc, li>>
    BY <1>4 DEF Closes, ChildEnds, SenderGoes, loggerVars, TypeOK
  <2>2. /\ \A i \in Pipes : \/ inst'[i] = inst[i]
                            \/ client[i] = s /\ inst[i] = "connected" /\ inst'[i] = "closing"
        /\ hpipe'[s] = Invalid /\ \A t \in Senders : t # s => hpipe'[t] = hpipe[t]
    BY <2>1, LetsGoFacts DEF TypeOK
  <2>3. Messages'
    <3>1. Written' = Written
      BY <2>1 DEF Written, Wrote
    <3> QED
      BY <2>1, <3>1 DEF Messages
  <2>4. Instances'
    <3>1. lpc' = "create" => inst'[li'] = "none"
      BY <2>1, <2>2 DEF Instances, TypeOK
    <3>2. \A i \in Pipes : client'[i] # Free => inst'[i] \in {"connected", "closing", "missed"}
      BY <2>1, <2>2 DEF Instances
    <3>3. spc'[s] \notin {"open", "wait", "mode", "write"}
      BY <2>1
    <3> QED
      BY <2>1, <2>2, <3>1, <3>2, <3>3 DEF Instances
  <2> QED
    BY <2>3, <2>4
<1> QED
  BY <1>1, <1>2, <1>3, <1>4 DEF SenderStep

\* So does the log process.
LEMMA LoggerKeeps ==
    ASSUME TypeOK, Instances, Messages, LoggerStep \/ LoggerFileFails
    PROVE  Instances' /\ Messages'
<1>0. WinLogAssumption /\ li \in Pipes
  BY WinLogAssumption DEF TypeOK
<1>1. Written' = Written
  BY DEF LoggerStep, LoggerCreates, LoggerConnects, LoggerWakes, LoggerReads, LoggerReadFails,
         LoggerFiles, LoggerDisconnects, LoggerFileFails, senderVars, Written, Wrote
<1>2. CASE LoggerCreates
  <2>1. /\ lpc = "create" /\ lpc' = "connect" /\ inst[li] = "none"
        /\ inst' = [inst EXCEPT ![li] = "new"]
        /\ UNCHANGED <<client, data, li, spc, hpipe>>
    BY <1>2 DEF LoggerCreates, senderVars, Instances
  <2>2. client[li] = Free
    BY <1>0, <2>1 DEF Instances
  <2>3. \A i \in Pipes : client[i] # Free => inst'[i] = inst[i]
    BY <2>1, <2>2 DEF TypeOK
  <2> QED
    BY <1>1, <2>1, <2>3 DEF Instances, Messages
<1>3. CASE LoggerConnects
  <2>1. /\ inst' = [inst EXCEPT ![li] = Connected(@)]
        /\ \/ lpc' = "create" /\ li' = li + 1 /\ li < NPipes /\ inst[li + 1] = "none"
           \/ lpc' = "wait"
        /\ UNCHANGED <<client, data, spc, hpipe>>
    BY <1>3 DEF LoggerConnects, senderVars
  <2>2. /\ inst'[li] = Connected(inst[li])
        /\ \A i \in Pipes : i # li => inst'[i] = inst[i]
    BY <1>0, <2>1 DEF TypeOK
  <2>3. \A i \in Pipes : client'[i] # Free => inst'[i] \in {"connected", "closing", "missed"}
    <3>1. inst[li] \in {"connected", "closing", "missed"} =>
              Connected(inst[li]) \in {"connected", "closing", "missed"}
      BY DEF Connected
    <3> QED
      BY <1>0, <2>1, <2>2, <3>1 DEF Instances
  <2>4. lpc' = "create" => inst'[li'] = "none"
    <3>1. li \in Nat /\ NPipes \in Nat /\ (li < NPipes => li + 1 \in Pipes /\ li + 1 # li)
      BY <1>0 DEF WinLogAssumption, Pipes
    <3> QED
      BY <2>1, <2>2, <3>1
  <2> QED
    BY <1>1, <2>1, <2>3, <2>4 DEF Instances, Messages
<1>4. CASE LoggerWakes \/ LoggerReadFails
  BY <1>1, <1>4 DEF LoggerWakes, LoggerReadFails, pipeVars, senderVars, Instances, Messages
<1>5. CASE LoggerReads
  <2>1. /\ lpc = "read" /\ lpc' = "file" /\ data[li] # Free
        /\ data' = [data EXCEPT ![li] = Free]
        /\ UNCHANGED <<inst, client, li, spc, hpipe>>
    BY <1>5 DEF LoggerReads, senderVars
  <2>2. data'[li] = Free /\ \A i \in Pipes : i # li => data'[i] = data[i]
    BY <1>0, <2>1 DEF TypeOK
  <2> QED
    BY <1>0, <1>1, <2>1, <2>2 DEF Instances, Messages
<1>6. CASE LoggerFiles \/ LoggerFileFails
  BY <1>1, <1>6 DEF LoggerFiles, LoggerFileFails, pipeVars, senderVars, Instances, Messages
<1>7. CASE LoggerDisconnects
  <2>1. /\ lpc = "disconnect" /\ lpc' = "connect"
        /\ inst' = [inst EXCEPT ![li] = "off"]
        /\ client' = [client EXCEPT ![li] = Free]
        /\ data' = [data EXCEPT ![li] = Free]
        /\ UNCHANGED <<li, spc, hpipe>>
    BY <1>7 DEF LoggerDisconnects, senderVars
  <2>2. /\ inst'[li] = "off" /\ client'[li] = Free /\ data'[li] = Free
        /\ \A i \in Pipes : i # li =>
              inst'[i] = inst[i] /\ client'[i] = client[i] /\ data'[i] = data[i]
    BY <1>0, <2>1 DEF TypeOK
  <2>3. client[li] \in Senders /\ spc[client[li]] \in {"close", "done"}
    BY <2>1 DEF Messages, Written, Wrote
  <2>4. \A t \in Senders : spc[t] \in {"wait", "mode", "write"} /\ hpipe[t] # Invalid =>
            hpipe[t] \in Pipes /\ client'[hpipe[t]] = t
    BY <2>2, <2>3 DEF Instances
  <2>5. \A t \in Senders : spc[t] = "open" => \A i \in Pipes : client'[i] # t
    BY <1>0, <2>2 DEF Instances, WinLogAssumption
  <2> QED
    BY <1>1, <2>1, <2>2, <2>4, <2>5 DEF Instances, Messages
<1> QED
  BY <1>2, <1>3, <1>4, <1>5, <1>6, <1>7 DEF LoggerStep

\* The places are finite, and a record is in the hand of the log process or not.
LEMMA PlaceSizes ==
    ASSUME Places
    PROVE  /\ IsFiniteSet(InPipes) /\ Cardinality(InPipes) \in Nat
           /\ IsFiniteSet(dropped) /\ Cardinality(dropped) \in Nat
           /\ Cardinality(Written) \in Nat
           /\ Cardinality(InHand) = IF lpc = "file" THEN 1 ELSE 0
<1>1. InPipes \subseteq Written /\ dropped \subseteq Written /\ IsFiniteSet(Written)
  BY DEF Places
<1>2. Cardinality(InHand) = IF lpc = "file" THEN 1 ELSE 0
  BY FS_EmptySet, FS_Singleton DEF InHand
<1> QED
  BY <1>1, <1>2, FS_Subset, FS_CardinalityType

\* A step that moves no record.
LEMMA PlacesUntouched ==
    ASSUME Places, Written' = Written, UNCHANGED <<data, log, dropped, request>>,
           lpc = "file" <=> lpc' = "file"
    PROVE  Places'
<1>1. InPipes' = InPipes /\ InHand' = InHand /\ Heads' = Heads
  BY DEF InPipes, InHand, Heads
<1> QED
  BY <1>1 DEF Places

\* What one sender writes is new, and goes into its own instance.
LEMMA WritePlaces ==
    ASSUME TypeOK, Instances, Messages, Places, NEW s \in Senders, Writes(s)
    PROVE  Places'
<1>1. /\ spc[s] = "write" /\ spc' = [spc EXCEPT ![s] = "close"]
      /\ data' = [data EXCEPT ![hpipe[s]] = s]
      /\ UNCHANGED <<log, dropped, request, lpc>>
  BY DEF Writes, SenderGoes, loggerVars
<1>2. hpipe[s] \in Pipes /\ client[hpipe[s]] = s
  BY <1>1 DEF Instances
<1>3. Written' = Written \cup {s} /\ s \notin Written
  BY <1>1 DEF Written, Wrote, TypeOK
<1>4. data[hpipe[s]] = Free /\ s # Free
  BY <1>2, <1>3, WinLogAssumption DEF Messages, WinLogAssumption
<1>5. InPipes' = InPipes \cup {s}
  <2>1. data'[hpipe[s]] = s /\ \A i \in Pipes : i # hpipe[s] => data'[i] = data[i]
    BY <1>1, <1>2 DEF TypeOK
  <2>2. \A x : x \in InPipes' <=> x \in InPipes \cup {s}
    BY <1>2, <1>4, <2>1 DEF InPipes
  <2> QED
    BY <2>2
<1>6. InHand' = InHand /\ Heads' = Heads
  BY <1>1 DEF InHand, Heads
<1>7. s \notin InPipes /\ s \notin InHand /\ s \notin Heads /\ s \notin dropped
  BY <1>3 DEF Places
<1>8. /\ Cardinality(InPipes') = Cardinality(InPipes) + 1
      /\ Cardinality(Written') = Cardinality(Written) + 1
      /\ IsFiniteSet(Written')
  BY <1>3, <1>5, <1>7, PlaceSizes, FS_AddElement DEF Places
<1>9. Cardinality(InPipes') + Cardinality(InHand') + Len(log') + Cardinality(dropped')
          = Cardinality(Written')
  <2>1. Len(log) \in Nat /\ Cardinality(InHand) \in Nat
    BY PlaceSizes, LenProperties DEF TypeOK
  <2> QED
    BY <1>1, <1>6, <1>8, <2>1, PlaceSizes DEF Places
<1>10. /\ Written' = InPipes' \cup InHand' \cup Heads' \cup dropped'
       /\ InPipes' \cap (InHand' \cup Heads' \cup dropped') = {}
       /\ InHand' \cap dropped' = {}
  BY <1>1, <1>3, <1>5, <1>6, <1>7 DEF Places
<1> QED
  BY <1>8, <1>9, <1>10 DEF Places

\* ReadFile takes a record out of its instance into the hand of the log process.
LEMMA ReadPlaces ==
    ASSUME TypeOK, Instances, Messages, Places, LoggerReads
    PROVE  Places'
<1> DEFINE d == data[li]
<1>1. /\ lpc = "read" /\ lpc' = "file" /\ d # Free /\ d \in Senders /\ li \in Pipes
      /\ request' = Over(d, request) /\ request \in Seq(Senders)
      /\ data' = [data EXCEPT ![li] = Free]
      /\ UNCHANGED <<log, dropped, spc>>
  BY DEF LoggerReads, senderVars, TypeOK
<1>2. Written' = Written /\ Heads' = Heads
  BY <1>1 DEF Written, Wrote, Heads
<1>3. InHand = {} /\ InHand' = {d}
  <2>1. request'[1] = d
    <3>1. Size[d] \in Nat /\ Size[d] > 0 /\ \A n \in 1..Size[d] : Over(d, request)[n] = d
      BY <1>1, OverFacts
    <3> QED
      BY <1>1, <3>1
  <2> QED
    BY <1>1, <2>1 DEF InHand
<1>4. d \in InPipes
  BY <1>1 DEF InPipes
<1>5. InPipes' = InPipes \ {d}
  <2>1. data'[li] = Free /\ \A i \in Pipes : i # li => data'[i] = data[i]
    BY <1>1 DEF TypeOK
  <2>2. \A i \in Pipes : i # li => data[i] # d
    BY <1>1 DEF Instances, Messages
  <2>3. \A x : x \in InPipes' <=> x \in InPipes \ {d}
    BY <1>1, <2>1, <2>2 DEF InPipes
  <2> QED
    BY <2>3
<1> HIDE DEF d
<1>6. Cardinality(InPipes') = Cardinality(InPipes) - 1
  BY <1>4, <1>5, PlaceSizes, FS_RemoveElement
<1>7. Cardinality(InHand) = 0 /\ Cardinality(InHand') = 1
  BY <1>3, FS_EmptySet, FS_Singleton
<1>8. Cardinality(InPipes') + Cardinality(InHand') + Len(log') + Cardinality(dropped')
          = Cardinality(Written')
  <2>1. Len(log) \in Nat
    BY LenProperties DEF TypeOK
  <2> QED
    BY <1>1, <1>2, <1>6, <1>7, <2>1, PlaceSizes DEF Places
<1>9. /\ Written' = InPipes' \cup InHand' \cup Heads' \cup dropped'
      /\ InPipes' \cap (InHand' \cup Heads' \cup dropped') = {}
      /\ InHand' \cap dropped' = {}
  BY <1>1, <1>2, <1>3, <1>4, <1>5 DEF Places
<1> QED
  BY <1>2, <1>8, <1>9 DEF Places

\* From there it goes into the file, or is dropped.
LEMMA FilePlaces ==
    ASSUME TypeOK, Places, LoggerFiles \/ LoggerFileFails
    PROVE  Places'
<1> DEFINE r == request[1]
<1>1. /\ lpc = "file" /\ lpc' = "disconnect" /\ UNCHANGED <<data, spc>>
  BY DEF LoggerFiles, LoggerFileFails, senderVars, pipeVars
<1>2. Written' = Written /\ InPipes' = InPipes /\ InHand = {r} /\ InHand' = {}
  BY <1>1 DEF Written, Wrote, InPipes, InHand
<1>3. Cardinality(InHand) = 1 /\ Cardinality(InHand') = 0
  BY <1>2, FS_EmptySet, FS_Singleton
<1>4. Len(log) \in Nat /\ DOMAIN log = 1..Len(log)
  BY LenProperties DEF TypeOK
<1>5. CASE LoggerFiles
  <2>1. log' = Append(log, request) /\ dropped' = dropped
    BY <1>5 DEF LoggerFiles
  <2>2. /\ log' \in Seq(Seq(Senders)) /\ Len(log') = Len(log) + 1 /\ log'[Len(log) + 1] = request
        /\ \A k \in 1..Len(log) : log'[k] = log[k]
    BY <2>1, AppendProperties DEF TypeOK
  <2>3. DOMAIN log' = 1..(Len(log) + 1)
    BY <2>2, LenProperties
  <2>4. Heads' = Heads \cup {r}
    <3> DEFINE n == Len(log)
    <3>1. /\ Heads' = {log'[k][1] : k \in 1..(n + 1)}
          /\ Heads = {log[k][1] : k \in 1..n}
      BY <1>4, <2>3 DEF Heads
    <3>2. log'[n + 1][1] = r /\ \A k \in 1..n : log'[k][1] = log[k][1]
      BY <2>2
    <3> HIDE DEF n, r
    <3>3. n \in Nat
      BY <1>4 DEF n
    <3>4. n + 1 \in 1..(n + 1) /\ 1..n \subseteq 1..(n + 1)
          /\ \A k \in 1..(n + 1) : k = n + 1 \/ k \in 1..n
      BY <3>3
    <3> QED
      BY <3>1, <3>2, <3>4
  <2>5. Cardinality(InPipes') + Cardinality(InHand') + Len(log') + Cardinality(dropped')
            = Cardinality(Written')
    <3>1. Len(log') = Len(log) + 1 /\ dropped' = dropped
      BY <2>1, <2>2
    <3> QED
      BY <1>2, <1>3, <1>4, <3>1, PlaceSizes DEF Places
  <2> QED
    BY <1>2, <2>1, <2>4, <2>5 DEF Places
<1>6. CASE LoggerFileFails
  <2>1. log' = log /\ dropped' = dropped \cup {r}
    BY <1>6 DEF LoggerFileFails
  <2>2. Heads' = Heads
    BY <2>1 DEF Heads
  <2>3. r \notin dropped
    BY <1>2 DEF Places
  <2>4. Cardinality(dropped') = Cardinality(dropped) + 1
    BY <2>1, <2>3, PlaceSizes, FS_AddElement
  <2>5. Cardinality(InPipes') + Cardinality(InHand') + Len(log') + Cardinality(dropped')
            = Cardinality(Written')
    BY <1>2, <1>3, <1>4, <2>1, <2>4, PlaceSizes DEF Places
  <2> QED
    BY <1>2, <2>1, <2>2, <2>5 DEF Places
<1> QED
  BY <1>5, <1>6

\* An instance is disconnected empty.
LEMMA DisconnectPlaces ==
    ASSUME TypeOK, Messages, Places, LoggerDisconnects
    PROVE  Places'
<1>1. /\ lpc = "disconnect" /\ lpc' = "connect" /\ data' = [data EXCEPT ![li] = Free]
      /\ UNCHANGED <<log, dropped, request, spc>>
  BY DEF LoggerDisconnects, senderVars
<1>2. data[li] = Free
  BY <1>1 DEF Messages
<1>3. data' = data /\ Written' = Written
  BY <1>1, <1>2 DEF TypeOK, Written, Wrote
<1> QED
  BY <1>1, <1>3, PlacesUntouched

LEMMA KeptStep ==
    ASSUME TypeInv, KeptInv, [Next]_vars
    PROVE  KeptInv'
<1> SUFFICES ASSUME lpc' # "gone" PROVE Instances' /\ Messages' /\ Places'
  BY DEF KeptInv
<1>1. lpc # "gone" /\ TypeOK
  BY DEF TypeInv, Next, SenderStep, LoggerStep, Opens, FindsBusy, FindsNoPipe, Waits, TimesOut,
         SetsMode, Writes, WriteFails, Closes, ChildEnds, LoggerCreates, LoggerConnects,
         LoggerWakes, LoggerReads, LoggerReadFails, LoggerFiles, LoggerDisconnects,
         LoggerFileFails, LoggerEnds, loggerVars, vars
<1>2. Instances /\ Messages /\ Places
  BY <1>1 DEF KeptInv
<1>3. ASSUME NEW s \in Senders, SenderStep(s) PROVE Instances' /\ Messages' /\ Places'
  <2>1. CASE Writes(s)
    BY <1>1, <1>2, <1>3, <2>1, WritePlaces, SenderKeeps
  <2>2. CASE ~Writes(s)
    <3>1. UNCHANGED <<data, loggerVars>>
      BY <1>3, <2>2 DEF SenderStep, Opens, FindsBusy, FindsNoPipe, Waits, TimesOut, SetsMode,
                        WriteFails, Closes, ChildEnds, pipeVars
    <3>2. spc' = [spc EXCEPT ![s] = spc'[s]] /\ (Wrote(s) <=> spc'[s] \in {"close", "done"})
      BY <1>1, <1>3, <2>2
      DEF SenderStep, Opens, FindsBusy, FindsNoPipe, Waits, TimesOut, SetsMode,
          WriteFails, Closes, ChildEnds, SenderGoes, Wrote, TypeOK
    <3>3. Written' = Written
      BY <1>1, <3>2 DEF Written, Wrote, TypeOK
    <3> QED
      BY <1>1, <1>2, <1>3, <3>1, <3>3, SenderKeeps, PlacesUntouched DEF loggerVars
  <2> QED
    BY <2>1, <2>2
<1>4. CASE LoggerStep \/ LoggerFileFails
  <2> SUFFICES Places'
    BY <1>1, <1>2, <1>4, LoggerKeeps
  <2>1. CASE LoggerReads
    BY <1>1, <1>2, <2>1, ReadPlaces
  <2>2. CASE LoggerFiles \/ LoggerFileFails
    BY <1>1, <1>2, <2>2, FilePlaces
  <2>3. CASE LoggerDisconnects
    BY <1>1, <1>2, <2>3, DisconnectPlaces
  <2>4. CASE LoggerCreates \/ LoggerConnects \/ LoggerWakes \/ LoggerReadFails
    <3>1. /\ UNCHANGED <<data, log, dropped, request, spc>>
          /\ lpc = "file" <=> lpc' = "file"
      BY <2>4 DEF LoggerCreates, LoggerConnects, LoggerWakes, LoggerReadFails, pipeVars, senderVars
    <3>2. Written' = Written
      BY <3>1 DEF Written, Wrote
    <3> QED
      BY <1>2, <3>1, <3>2, PlacesUntouched
  <2> QED
    BY <1>4, <2>1, <2>2, <2>3, <2>4 DEF LoggerStep
<1>5. CASE UNCHANGED vars
  <2>1. UNCHANGED <<inst, client, data, lpc, li, request, log, dropped, spc, hpipe>>
    BY <1>5 DEF vars, pipeVars, loggerVars, senderVars
  <2>2. Written' = Written
    BY <2>1 DEF Written, Wrote
  <2>3. Places'
    BY <1>2, <2>1, <2>2, PlacesUntouched
  <2> QED
    BY <1>2, <2>1, <2>2, <2>3 DEF Instances, Messages
<1> QED
  BY <1>3, <1>4, <1>5 DEF Next, LoggerEnds

\* No record is lost between CreateFile and sacagawea.log, and none is written twice,
\* while the log process lives (gopher.c:343-398, logger.c:84-139, 179-204).
THEOREM WrittenStays == Spec => []WrittenIsKept
<1>1. Init => KeptInv
  <2> SUFFICES ASSUME Init PROVE Instances /\ Messages /\ Places
    BY DEF KeptInv
  <2>1. /\ lpc = "create" /\ log = <<>> /\ dropped = {}
        /\ \A i \in Pipes : inst[i] = "none" /\ client[i] = Free /\ data[i] = Free
        /\ \A s \in Senders : spc[s] = "open" /\ hpipe[s] = Invalid
        /\ li \in Pipes /\ Free \notin Senders
    BY WinLogAssumption DEF Init, Pipes, WinLogAssumption
  <2>2. Instances /\ Messages
    BY <2>1 DEF Instances, Messages
  <2>3. Written = {} /\ InPipes = {} /\ InHand = {} /\ Heads = {} /\ Len(log) = 0
    BY <2>1, EmptySeq DEF Written, Wrote, InPipes, InHand, Heads
  <2> QED
    BY <2>1, <2>2, <2>3, FS_EmptySet DEF Places
<1>2. TypeInv /\ KeptInv /\ [Next]_vars => KeptInv'
  BY KeptStep
<1>3. KeptInv => WrittenIsKept
  BY DEF KeptInv, Places, WrittenIsKept, Written
<1> QED
  BY <1>1, <1>2, <1>3, TypesHold, PTL DEF Spec
=============================================================================
