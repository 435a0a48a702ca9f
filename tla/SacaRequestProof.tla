-------------------------- MODULE SacaRequestProof --------------------------
(***************************************************************************)
(* What a request holds, locks and records, for every number of workers,   *)
(* every text and every file length: proofs about SacaRequest.             *)
(***************************************************************************)
EXTENDS SacaRequest, RequestTextProof

\* The three parties that may own the lock are different.
LEMMA Parties == Writer \notin Workers /\ Nobody \notin Workers /\ Writer # Nobody
BY RequestAssumption DEF RequestAssumption

\* The types of the variables that the steps below write.
LEMMA LengthsAreNumbers == Lengths \subseteq Nat
BY RequestAssumption DEF RequestAssumption

-----------------------------------------------------------------------------
(* Clients and other programs.                                             *)

LEMMA OutsideKeeps ==
    ASSUME RequestInv,
           \/ \E w \in Workers : Takes(w) \/ Leaves(w) \/ Resets(w)
           \/ WriterLocks \/ WriterUnlocks
    PROVE  RequestInv'
<1> USE DEF RequestInv, Control, Holds, Locked, Sending
<1>1. ASSUME NEW w \in Workers, Takes(w) PROVE RequestInv'
  BY <1>1 DEF Takes, fileVars, sendVars
<1>2. ASSUME NEW w \in Workers, Leaves(w) PROVE RequestInv'
  BY <1>2 DEF Leaves, fileVars, sendVars
<1>3. ASSUME NEW w \in Workers, Resets(w) PROVE RequestInv'
  BY <1>3 DEF Resets, fileVars, sendVars
<1>4. CASE WriterLocks
  BY <1>4, Parties DEF WriterLocks, sendVars
<1>5. CASE WriterUnlocks
  BY <1>5, Parties, LengthsAreNumbers DEF WriterUnlocks, sendVars
<1> QED
  BY <1>1, <1>2, <1>3, <1>4, <1>5

-----------------------------------------------------------------------------
(* The end of a worker, alone or with its process.                         *)

\* close_socket_kill_child (children.c:389-399), from where it is called.
LEMMA EndKeeps ==
    ASSUME RequestInv, NEW w \in Workers, NEW rs,
           pc[w] \in {"read", "path", "finish"}, Ends(w, rs),
           pc[w] = "finish" => rs = {"input"}
    PROVE  RequestInv'
<1> USE DEF RequestInv, Control, Holds, Locked, Sending
<1>1. /\ pc' = [pc EXCEPT ![w] = "gone"]
      /\ held' = [held EXCEPT ![w] =
                     IF mode = "t" THEN @ \ (rs \cup {"path", "args", "sock"}) ELSE {}]
      /\ UNCHANGED <<mode, spc, lock, flen>>
      /\ len' = [v \in Workers |-> IF v \in {w} THEN 0 ELSE len[v]]
      /\ peer' = [v \in Workers |-> IF v \in {w} THEN "closed" ELSE peer[v]]
  BY DEF Ends, Forgets, fileVars
<1>2. Control'
  BY <1>1 DEF WorkerPc
<1>3. held'[w] \subseteq {"input", "fd"}
  BY <1>1 DEF Resources
<1>4. Holds(w)' /\ Locked(w)' /\ Sending(w)'
  BY <1>1, <1>3
<1>5. \A v \in Workers \ {w} : Holds(v)' /\ Locked(v)' /\ Sending(v)'
  BY <1>1
<1> QED
  BY <1>2, <1>4, <1>5

\* exit() or a crash: of the server with all its threads, or of one child.
LEMMA ProcessEndKeeps ==
    ASSUME RequestInv, NEW w \in Workers, ProcessEnds(w)
    PROVE  RequestInv'
<1> USE DEF RequestInv, Control, Holds, Locked, Sending
<1> DEFINE dead == IF mode = "t" THEN Workers ELSE {w}
<1>1. /\ pc' = [v \in Workers |-> IF v \in dead THEN "gone" ELSE pc[v]]
      /\ spc' = [v \in Workers |-> IF v \in dead THEN "none" ELSE spc[v]]
      /\ held' = [v \in Workers |-> IF v \in dead THEN {} ELSE held[v]]
      /\ lock' = IF lock \in dead THEN Nobody ELSE lock
      /\ len' = [v \in Workers |-> IF v \in dead THEN 0 ELSE len[v]]
      /\ peer' = [v \in Workers |-> IF v \in dead THEN "closed" ELSE peer[v]]
      /\ UNCHANGED <<mode, flen>>
  BY DEF ProcessEnds, Forgets
<1>2. dead \subseteq Workers
  OBVIOUS
<1> HIDE DEF dead
<1>3. Control'
  BY <1>1 DEF WorkerPc, SenderPc
<1>4. \A v \in Workers : Holds(v)' /\ Locked(v)' /\ Sending(v)'
  BY <1>1, <1>2, Parties
<1> QED
  BY <1>3, <1>4

-----------------------------------------------------------------------------
(* The worker's own steps.                                                 *)

\* A worker goes on, and takes or frees nothing but input, path and a directory.
LEMMA GoingOnKeeps ==
    ASSUME RequestInv, NEW w \in Workers, NEW from, NEW to,
           Goes(w, from, to), to \in WorkerPc \ {"gone"}, from # "gone",
           from \notin {"stat", "map", "unlock", "create", "join"},
           to \notin {"stat", "map", "unlock", "create", "join"},
           held' \in [Workers -> SUBSET Resources],
           {"args", "sock"} \subseteq held[w] => {"args", "sock"} \subseteq held'[w],
           "map" \in held'[w] <=> "map" \in held[w],
           "dir" \in held'[w] <=> to = "entries",
           \A v \in Workers \ {w} : held'[v] = held[v],
           UNCHANGED <<mode, spc, peer, len, lock, flen>>
    PROVE  RequestInv'
<1> USE DEF RequestInv, Control, Holds, Locked, Sending, Goes
<1>1. Control'
  OBVIOUS
<1>2. pc'[w] = to /\ \A v \in Workers \ {w} : pc'[v] = pc[v]
  OBVIOUS
<1>3. Holds(w)' /\ Locked(w)' /\ Sending(w)'
  BY <1>2
<1>4. \A v \in Workers \ {w} : Holds(v)' /\ Locked(v)' /\ Sending(v)'
  BY <1>2
<1> QED
  BY <1>1, <1>3, <1>4

\* management_function up to the type, and the menu.
LEMMA AnswerKeeps ==
    ASSUME RequestInv, NEW w \in Workers,
           \/ Begins(w) \/ Receives(w) \/ ReadEnds(w) \/ ReadFails(w)
           \/ Refuses(w) \/ BuildsPath(w) \/ Types(w)
           \/ OpensDir(w) \/ OpenDirFails(w) \/ Lists(w) \/ SendsMenu(w) \/ EmptyMenu(w)
           \/ SendsError(w) \/ Finishes(w) \/ Exits(w)
    PROVE  RequestInv'
<1>0. Control /\ Holds(w)
  BY DEF RequestInv
<1>1. CASE Begins(w)
  <2>1. Goes(w, "start", "read") /\ Gets(w, "input")
        /\ UNCHANGED <<mode, spc, peer, len, lock, flen>>
    BY <1>1 DEF Begins, fileVars, sendVars
  <2> QED
    BY <1>0, <2>1, GoingOnKeeps DEF Gets, Goes, Control, Holds, Resources, WorkerPc
<1>2. CASE Receives(w)
  <2>1. pc[w] = "read" /\ (pc' = pc \/ pc' = [pc EXCEPT ![w] = "path"])
        /\ UNCHANGED <<mode, spc, peer, held, len, lock, flen>>
    BY <1>2 DEF Receives, fileVars, sendVars
  <2>2. Goes(w, "read", "read") \/ Goes(w, "read", "path")
    BY <1>0, <2>1 DEF Goes, Control
  <2> QED
    BY <1>0, <2>1, <2>2, GoingOnKeeps DEF Control, Holds, WorkerPc
<1>3. CASE ReadEnds(w)
  BY <1>3, EndKeeps DEF ReadEnds
<1>4. CASE ReadFails(w)
  BY <1>4, EndKeeps DEF ReadFails
<1>5. CASE Refuses(w)
  BY <1>5, EndKeeps DEF Refuses
<1>6. CASE BuildsPath(w)
  <2>1. Goes(w, "path", "type") /\ Gets(w, "path")
        /\ UNCHANGED <<mode, spc, peer, len, lock, flen>>
    BY <1>6 DEF BuildsPath, fileVars, sendVars
  <2> QED
    BY <1>0, <2>1, GoingOnKeeps DEF Gets, Goes, Control, Holds, Resources, WorkerPc
<1>7. CASE Types(w)
  <2>1. PICK char : Goes(w, "type", AnswerTo(char))
    BY <1>7 DEF Types
  <2>2. AnswerTo(char) \in {"menu", "error", "open"}
    BY DEF AnswerTo
  <2>3. UNCHANGED <<mode, spc, peer, held, len, lock, flen>>
    BY <1>7 DEF Types, fileVars, sendVars
  <2>4. pc[w] = "type"
    BY <2>1 DEF Goes
  <2> QED
    BY <1>0, <2>1, <2>2, <2>3, <2>4, GoingOnKeeps DEF Control, Holds, WorkerPc
<1>8. CASE OpensDir(w)
  <2>1. Goes(w, "menu", "entries") /\ Gets(w, "dir")
        /\ UNCHANGED <<mode, spc, peer, len, lock, flen>>
    BY <1>8 DEF OpensDir, fileVars, sendVars
  <2> QED
    BY <1>0, <2>1, GoingOnKeeps DEF Gets, Goes, Control, Holds, Resources, WorkerPc
<1>9. CASE OpenDirFails(w)
  <2>1. Goes(w, "menu", "finish") /\ UNCHANGED <<mode, spc, peer, held, len, lock, flen>>
    BY <1>9 DEF OpenDirFails, fileVars, sendVars
  <2> QED
    BY <1>0, <2>1, GoingOnKeeps DEF Goes, Control, Holds, WorkerPc
<1>10. CASE Lists(w)
  <2>1. UNCHANGED <<mode, pc, spc, peer, held, len, lock, flen>>
    BY <1>10 DEF Lists, fileVars, sendVars
  <2> QED
    BY <2>1 DEF RequestInv, Control, Holds, Locked, Sending
<1>11. CASE SendsMenu(w)
  <2>1. Goes(w, "entries", "finish") /\ Drops(w, {"dir"})
        /\ UNCHANGED <<mode, spc, peer, len, lock, flen>>
    BY <1>11 DEF SendsMenu, fileVars, sendVars
  <2> QED
    BY <1>0, <2>1, GoingOnKeeps DEF Drops, Goes, Control, Holds, Resources, WorkerPc
<1>12. CASE EmptyMenu(w)
  BY <1>12, ProcessEndKeeps DEF EmptyMenu
<1>13. CASE SendsError(w)
  <2>1. Goes(w, "error", "finish") /\ UNCHANGED <<mode, spc, peer, held, len, lock, flen>>
    BY <1>13 DEF SendsError, fileVars, sendVars
  <2> QED
    BY <1>0, <2>1, GoingOnKeeps DEF Goes, Control, Holds, WorkerPc
<1>14. CASE Finishes(w)
  BY <1>14, EndKeeps DEF Finishes
<1>15. CASE Exits(w)
  BY <1>15, ProcessEndKeeps DEF Exits
<1> QED
  BY <1>1, <1>2, <1>3, <1>4, <1>5, <1>6, <1>7, <1>8, <1>9, <1>10, <1>11, <1>12,
     <1>13, <1>14, <1>15

\* load_file_memory_and_send: the lock, the mapping and the sender come and go.
LEMMA FileKeeps ==
    ASSUME RequestInv, NEW w \in Workers,
           \/ OpensFile(w) \/ OpenFails(w) \/ Locks(w) \/ LockFails(w)
           \/ Stats(w) \/ Maps(w) \/ LoadFails(w)
           \/ Unlocks(w) \/ Creates(w) \/ Joins(w) \/ LoadExits(w)
    PROVE  RequestInv'
<1>0. Control /\ Holds(w)
  BY DEF RequestInv
<1>1. CASE OpensFile(w)
  <2>1. Goes(w, "open", "lock") /\ Gets(w, "fd")
        /\ UNCHANGED <<mode, spc, peer, len, lock, flen>>
    BY <1>1 DEF OpensFile, fileVars, sendVars
  <2> QED
    BY <1>0, <2>1, GoingOnKeeps DEF Gets, Goes, Control, Holds, Resources, WorkerPc
<1>2. CASE OpenFails(w)
  <2>1. Goes(w, "open", "finish") /\ UNCHANGED <<mode, spc, peer, held, len, lock, flen>>
    BY <1>2 DEF OpenFails, fileVars, sendVars
  <2> QED
    BY <1>0, <2>1, GoingOnKeeps DEF Goes, Control, Holds, WorkerPc
<1>3. CASE LockFails(w)
  <2>1. Goes(w, "lock", "finish") /\ UNCHANGED <<mode, spc, peer, held, len, lock, flen>>
    BY <1>3 DEF LockFails, fileVars, sendVars
  <2> QED
    BY <1>0, <2>1, GoingOnKeeps DEF Goes, Control, Holds, WorkerPc
<1> USE DEF RequestInv, Control, Holds, Locked, Sending, WorkerPc, SenderPc, Resources
<1>4. CASE Locks(w)
  BY <1>4, Parties DEF Locks, Goes, sendVars
<1>5. CASE Stats(w)
  BY <1>5 DEF Stats, Goes, fileVars
<1>6. CASE Maps(w)
  BY <1>6 DEF Maps, Goes, Gets, fileVars, sendVars
<1>7. CASE LoadFails(w)
  BY <1>7, Parties DEF LoadFails, Goes, Drops, sendVars
<1>8. CASE Unlocks(w)
  BY <1>8, Parties DEF Unlocks, Goes, Drops, sendVars
<1>9. CASE Creates(w)
  BY <1>9 DEF Creates, Goes, fileVars, sendVars
<1>10. CASE Joins(w)
  BY <1>10 DEF Joins, Goes, Drops, fileVars, sendVars
<1>11. CASE LoadExits(w)
  BY <1>11, ProcessEndKeeps DEF LoadExits
<1> QED
  BY <1>1, <1>2, <1>3, <1>4, <1>5, <1>6, <1>7, <1>8, <1>9, <1>10, <1>11

\* thread_sender.
LEMMA SenderKeeps ==
    ASSUME RequestInv, NEW w \in Workers, SenderStep(w) \/ AnnounceFails(w)
    PROVE  RequestInv'
<1> USE DEF RequestInv, Control, Holds, Locked, Sending, SenderPc, SenderGoes
<1>1. CASE Sends(w)
  BY <1>1 DEF Sends, fileVars
<1>2. CASE SendFails(w)
  BY <1>2 DEF SendFails, fileVars, sendVars
<1>3. CASE ShutsDown(w)
  BY <1>3 DEF ShutsDown, fileVars, sendVars
<1>4. CASE Waits(w)
  BY <1>4 DEF Waits, fileVars, sendVars
<1>5. CASE Announces(w)
  BY <1>5 DEF Announces, fileVars
<1>6. CASE AnnounceFails(w)
  BY <1>6 DEF AnnounceFails, fileVars, sendVars
<1> QED
  BY <1>1, <1>2, <1>3, <1>4, <1>5, <1>6 DEF SenderStep

-----------------------------------------------------------------------------
(* The results.                                                            *)

\* Every step of a worker, a sender, a client or another program keeps it.
LEMMA StepKeeps ==
    ASSUME RequestInv, [Next]_vars
    PROVE  RequestInv'
<1>1. CASE UNCHANGED vars
  BY <1>1 DEF vars, fileVars, sendVars, RequestInv, Control, Holds, Locked, Sending
<1>2. ASSUME NEW w \in Workers, WorkerStep(w)
      PROVE  RequestInv'
  BY <1>2, AnswerKeeps, FileKeeps DEF WorkerStep
<1>3. ASSUME NEW w \in Workers, Locks(w) \/ SenderStep(w) \/ Fails(w)
      PROVE  RequestInv'
  BY <1>3, AnswerKeeps, FileKeeps, SenderKeeps DEF Fails
<1>4. CASE \/ \E w \in Workers : Takes(w) \/ Leaves(w) \/ Resets(w)
           \/ WriterLocks \/ WriterUnlocks
  BY <1>4, OutsideKeeps
<1> QED
  BY <1>1, <1>2, <1>3, <1>4 DEF Next

\* What each worker holds, locks and sends, at each of its steps.
THEOREM RequestInductive == Spec => []RequestInv
<1>1. Init => RequestInv
  <2> SUFFICES ASSUME Init PROVE RequestInv
    OBVIOUS
  <2>1. mode \in {"t", "p"} /\ flen \in Nat /\ lock = Nobody
    BY RequestAssumption, LengthsAreNumbers DEF Init, RequestAssumption
  <2>2. Control
    BY <2>1 DEF Init, Control, WorkerPc, SenderPc, Resources
  <2>3. \A w \in Workers : Holds(w) /\ Locked(w) /\ Sending(w)
    BY <2>1, Parties DEF Init, Holds, Locked, Sending
  <2> QED
    BY <2>2, <2>3 DEF RequestInv
<1>2. RequestInv /\ [Next]_vars => RequestInv'
  BY StepKeeps
<1> QED
  BY <1>1, <1>2, PTL DEF Spec

\* Nothing is freed, closed or unmapped under a sender thread (utility.c:194,
\* children.c:322).
THEOREM SendersOwnTheirData == Spec => []SenderOwnsItsData
<1>1. RequestInv => SenderOwnsItsData
  BY DEF RequestInv, Holds, Sending, SenderOwnsItsData
<1> QED
  BY <1>1, RequestInductive, PTL

\* No program that takes the lock changes a file between fstat and the mapping
\* (utility.c:143-181).
THEOREM MappingsAreWhole == Spec => []MappedLengthIsFiles
<1>1. RequestInv => MappedLengthIsFiles
  BY DEF RequestInv, Locked, MappedLengthIsFiles
<1> QED
  BY <1>1, RequestInductive, PTL

\* A finished request leaves at most its input buffer and a descriptor
\* (children.c:389-399).
THEOREM OnlyKnownLeaks == Spec => []LeaksAreKnown
<1>1. RequestInv => LeaksAreKnown
  BY DEF RequestInv, Holds, Locked, LeaksAreKnown
<1> QED
  BY <1>1, RequestInductive, PTL

\* What is recorded went out whole, to a client that had said its last word
\* (gopher.c:287-305).
THEOREM WholeTransfersRecorded == Spec => OnlyWholeRecorded
<1>1. RequestInv /\ [Next]_vars =>
        \A w \in recorded' \ recorded : sent[w] = len[w] /\ len[w] > 0 /\ peer[w] # "open"
  <2> SUFFICES ASSUME RequestInv, [Next]_vars, NEW w \in recorded' \ recorded
               PROVE  sent[w] = len[w] /\ len[w] > 0 /\ peer[w] # "open"
    OBVIOUS
  <2>1. PICK v \in Workers : Announces(v)
    <3>1. \/ recorded' = recorded
          \/ \E v \in Workers : Announces(v)
      <4>1. CASE UNCHANGED vars \/ WriterLocks \/ WriterUnlocks
        BY <4>1 DEF vars, sendVars, WriterLocks, WriterUnlocks
      <4>2. ASSUME NEW v \in Workers, Takes(v) \/ Leaves(v) \/ Resets(v) \/ Locks(v)
            PROVE  recorded' = recorded
        BY <4>2 DEF Takes, Leaves, Resets, Locks, sendVars
      <4>3. ASSUME NEW v \in Workers, WorkerStep(v)
            PROVE  recorded' = recorded
        BY <4>3 DEF WorkerStep, Begins, Receives, ReadEnds, Refuses, BuildsPath, Types,
               OpensDir, OpenDirFails, Lists, SendsMenu, EmptyMenu, SendsError, Finishes,
               OpensFile, OpenFails, Stats, Maps, LoadFails, Unlocks, Creates, Joins,
               Ends, ProcessEnds, sendVars
      <4>4. ASSUME NEW v \in Workers, Fails(v)
            PROVE  recorded' = recorded
        BY <4>4 DEF Fails, ReadFails, Exits, LockFails, LoadExits, AnnounceFails,
               Ends, ProcessEnds, sendVars
      <4>5. ASSUME NEW v \in Workers, SenderStep(v)
            PROVE  recorded' = recorded \/ Announces(v)
        BY <4>5 DEF SenderStep, Sends, SendFails, ShutsDown, Waits, sendVars
      <4> QED
        BY <4>1, <4>2, <4>3, <4>4, <4>5 DEF Next
    <3> QED
      BY <3>1
  <2>2. w = v /\ spc[v] = "log" /\ sent[v] = len[v]
    BY <2>1 DEF Announces, SenderGoes
  <2>3. Sending(v)
    BY DEF RequestInv
  <2> QED
    BY <2>2, <2>3 DEF Sending
<1> QED
  BY <1>1, RequestInductive, PTL DEF Spec, OnlyWholeRecorded
-----------------------------------------------------------------------------
(* The text in the buffer.                                                 *)

\* While a worker reads, no line ends in what it has; the line it has read has left
\* room for its \r\n.
Text(w) ==
    /\ Len(buf[w]) <= PathMax
    /\ pc[w] \in {"start", "read"} => Len(buf[w]) <= Room /\ LineEnds(buf[w]) = {}
    /\ pc[w] = "path" => Len(buf[w]) + 2 <= Room

TextInv ==
    /\ buf \in [Workers -> Seq(STRING)] /\ inbox \in [Workers -> Seq(STRING)]
    /\ \A w \in Workers : Text(w)

\* The buffer and homedir share MAX_REQUEST_LEN bytes (children.c:244-248).
LEMMA Sizes ==
    /\ MaxRequest \in Nat /\ PathMax \in Nat /\ Room \in Nat /\ Len(Home) \in Nat
    /\ Home \in Seq(STRING) /\ Room + Len(Home) <= PathMax /\ 0 < Room /\ Room <= PathMax
<1>1. /\ MaxRequest \in Nat /\ PathMax \in Nat /\ Len(Home) \in 1 .. MaxRequest - 1
      /\ MaxRequest <= PathMax /\ Home \in Seq(STRING)
  BY RequestAssumption DEF RequestAssumption
<1> HIDE RequestAssumption
<1> QED
  BY <1>1 DEF Room

LEMMA EmptyText == <<>> \in Seq(STRING) /\ Len(<<>>) = 0 /\ LineEnds(<<>>) = {}
<1>1. <<>> \in Seq(STRING) /\ Len(<<>>) = 0
  BY EmptySeq
<1>2. 1 .. 0 = {}
  OBVIOUS
<1> QED
  BY <1>1, <1>2 DEF LineEnds

\* A worker moves on and leaves its buffer alone.
LEMMA TextStays ==
    ASSUME Control, TextInv, NEW w \in Workers, NEW to, pc' = [pc EXCEPT ![w] = to],
           to \notin {"start", "path"}, to = "read" => pc[w] \in {"start", "read"},
           UNCHANGED <<inbox, buf>>
    PROVE  TextInv'
<1>1. pc'[w] = to /\ \A v \in Workers \ {w} : pc'[v] = pc[v]
  BY DEF Control
<1>2. \A v \in Workers : Text(v)'
  BY <1>1 DEF TextInv, Text
<1> QED
  BY <1>2 DEF TextInv

\* The end of some workers empties their buffers.
LEMMA TextEnds ==
    ASSUME Control, TextInv, NEW dead, Forgets(dead),
           \A v \in Workers : pc'[v] = IF v \in dead THEN "gone" ELSE pc[v]
    PROVE  TextInv'
<1>1. /\ inbox' = [v \in Workers |-> IF v \in dead THEN <<>> ELSE inbox[v]]
      /\ buf' = [v \in Workers |-> IF v \in dead THEN <<>> ELSE buf[v]]
  BY DEF Forgets
<1>2. buf' \in [Workers -> Seq(STRING)] /\ inbox' \in [Workers -> Seq(STRING)]
  BY <1>1, EmptyText DEF TextInv
<1>3. ASSUME NEW v \in Workers PROVE Text(v)'
  <2>1. CASE v \in dead
    <3>1. buf'[v] = <<>> /\ pc'[v] = "gone"
      BY <1>1, <2>1
    <3> QED
      BY <3>1, EmptyText, Sizes DEF Text
  <2>2. CASE v \notin dead
    BY <1>1, <2>2 DEF TextInv, Text
  <2> QED
    BY <2>1, <2>2
<1> QED
  BY <1>2, <1>3 DEF TextInv

\* What a recv() that brings k bytes makes of the buffer (children.c:56-69).
LEMMA ReceiveText ==
    ASSUME TextInv, NEW w \in Workers, Receives(w)
    PROVE  /\ inbox' \in [Workers -> Seq(STRING)] /\ buf' \in [Workers -> Seq(STRING)]
           /\ \A v \in Workers \ {w} : buf'[v] = buf[v]
           /\ \/ pc' = pc /\ Len(buf'[w]) <= Room /\ LineEnds(buf'[w]) = {}
              \/ /\ pc' = [pc EXCEPT ![w] = "path"] /\ Len(buf'[w]) + 2 <= Room
                 /\ buf'[w] = FirstLine(buf[w] \o inbox[w])
<1> DEFINE b == buf[w]
           i == inbox[w]
<1>1. /\ b \in Seq(STRING) /\ i \in Seq(STRING) /\ LineEnds(b) = {}
      /\ Len(b) \in Nat /\ Len(i) \in Nat
  BY LenProperties DEF TextInv, Text, Receives
<1>2. PICK k \in 1 .. Len(i) :
        LET all == b \o SubSeq(i, 1, k)
            ends == Scanned(all, Len(b))
        IN  /\ Len(all) <= Room
            /\ IF ends = {}
               THEN /\ buf' = [buf EXCEPT ![w] = all]
                    /\ inbox' = [inbox EXCEPT ![w] = SubSeq(@, k + 1, Len(@))]
                    /\ pc' = pc
               ELSE /\ \E n \in ends : /\ \A j \in ends : n <= j
                                       /\ buf' = [buf EXCEPT ![w] = LineUpTo(all, n)]
                    /\ inbox' = [inbox EXCEPT ![w] = <<>>]
                    /\ pc' = [pc EXCEPT ![w] = "path"]
  BY DEF Receives
<1> DEFINE all == b \o SubSeq(i, 1, k)
           ends == Scanned(all, Len(b))
<1>3. all \in Seq(STRING) /\ Len(all) \in Nat /\ Len(all) <= Room
  BY <1>1, <1>2, Prefix, LenProperties
<1>4. /\ ends = LineEnds(all)
      /\ \A n \in ends : (\A j \in ends : n <= j) =>
            /\ LineUpTo(all, n) = FirstLine(b \o i)
            /\ LineUpTo(all, n) \in Seq(STRING) /\ Len(LineUpTo(all, n)) = n - 2
  BY <1>1, CutAnywhere
<1>5. ends \subseteq 1 .. Len(all)
  BY <1>4 DEF LineEnds
<1>6. SubSeq(i, k + 1, Len(i)) \in Seq(STRING)
  <2>1. \A n \in k + 1 .. Len(i) : i[n] \in STRING
    BY <1>1, ElementOfSeq
  <2> QED
    BY <1>1, <2>1, SubSeqProperties
<1>7. CASE ends = {}
  <2>1. /\ buf' = [buf EXCEPT ![w] = all] /\ pc' = pc
        /\ inbox' = [inbox EXCEPT ![w] = SubSeq(i, k + 1, Len(i))]
    BY <1>2, <1>7
  <2> HIDE DEF all, ends, b, i
  <2>2. buf'[w] = all /\ LineEnds(all) = {}
    BY <1>4, <1>7, <2>1 DEF TextInv
  <2> QED
    BY <1>3, <1>6, <2>1, <2>2 DEF TextInv
<1>8. CASE ends # {}
  <2>1. PICK n \in ends : /\ \A j \in ends : n <= j
                          /\ buf' = [buf EXCEPT ![w] = LineUpTo(all, n)]
    BY <1>2, <1>8
  <2>2. inbox' = [inbox EXCEPT ![w] = <<>>] /\ pc' = [pc EXCEPT ![w] = "path"]
    BY <1>2, <1>8
  <2> DEFINE line == LineUpTo(all, n)
  <2>3. line = FirstLine(b \o i) /\ line \in Seq(STRING) /\ Len(line) = n - 2
    BY <1>4, <2>1
  <2>4. n \in 1 .. Len(all)
    BY <1>5
  <2> HIDE DEF line, all, ends
  <2>5. Len(line) + 2 <= Room
    BY <1>3, <2>3, <2>4, Sizes
  <2>6. buf' = [buf EXCEPT ![w] = line]
    BY <2>1 DEF line
  <2> QED
    BY <2>2, <2>3, <2>5, <2>6, EmptyText DEF TextInv
<1> QED
  BY <1>7, <1>8

LEMMA TextKept ==
    ASSUME RequestInv, TextInv, [Next]_vars
    PROVE  TextInv'
<1>0. Control
  BY DEF RequestInv
<1>1. CASE \/ UNCHANGED vars \/ WriterLocks \/ WriterUnlocks
           \/ \E w \in Workers : Takes(w) \/ Leaves(w) \/ Resets(w) \/ SenderStep(w)
                                   \/ AnnounceFails(w) \/ Lists(w)
  <2>1. UNCHANGED <<pc, inbox, buf>>
    BY <1>1 DEF vars, textVars, WriterLocks, WriterUnlocks, Takes, Leaves, Resets,
           SenderStep, Sends, SendFails, ShutsDown, Waits, Announces, AnnounceFails, Lists
  <2> QED
    BY <2>1 DEF TextInv, Text
<1>2. ASSUME NEW w \in Workers,
             \/ Begins(w) \/ OpensDir(w) \/ OpenDirFails(w) \/ SendsMenu(w) \/ SendsError(w)
             \/ OpensFile(w) \/ OpenFails(w) \/ Locks(w) \/ LockFails(w) \/ Stats(w)
             \/ Maps(w) \/ LoadFails(w) \/ Unlocks(w) \/ Creates(w) \/ Joins(w)
      PROVE  TextInv'
  <2>1. PICK from, to : /\ Goes(w, from, to) /\ to \notin {"start", "path"}
                        /\ to = "read" => from = "start"
    BY <1>2 DEF Begins, OpensDir, OpenDirFails, SendsMenu, SendsError, OpensFile, OpenFails,
           Locks, LockFails, Stats, Maps, LoadFails, Unlocks, Creates, Joins
  <2>2. UNCHANGED <<inbox, buf>>
    BY <1>2 DEF Begins, OpensDir, OpenDirFails, SendsMenu, SendsError, OpensFile, OpenFails,
           Locks, LockFails, Stats, Maps, LoadFails, Unlocks, Creates, Joins, textVars
  <2> QED
    BY <1>0, <2>1, <2>2, TextStays DEF Goes
<1>3. ASSUME NEW w \in Workers,
             ReadEnds(w) \/ ReadFails(w) \/ Refuses(w) \/ Finishes(w)
      PROVE  TextInv'
  <2>1. PICK rs : Ends(w, rs)
    BY <1>3 DEF ReadEnds, ReadFails, Refuses, Finishes
  <2>2. Forgets({w}) /\ pc' = [pc EXCEPT ![w] = "gone"]
    BY <2>1 DEF Ends
  <2>3. \A v \in Workers : pc'[v] = IF v \in {w} THEN "gone" ELSE pc[v]
    BY <1>0, <2>2 DEF Control
  <2> QED
    BY <1>0, <2>2, <2>3, TextEnds
<1>4. ASSUME NEW w \in Workers, Exits(w) \/ EmptyMenu(w) \/ LoadExits(w)
      PROVE  TextInv'
  <2>1. ProcessEnds(w)
    BY <1>4 DEF Exits, EmptyMenu, LoadExits
  <2>2. PICK dead : /\ Forgets(dead)
                    /\ pc' = [v \in Workers |-> IF v \in dead THEN "gone" ELSE pc[v]]
    BY <2>1 DEF ProcessEnds
  <2> QED
    BY <1>0, <2>2, TextEnds
<1>5. ASSUME NEW w \in Workers, Receives(w) PROVE TextInv'
  <2>1. pc[w] = "read"
    BY <1>5 DEF Receives
  <2>2. /\ inbox' \in [Workers -> Seq(STRING)] /\ buf' \in [Workers -> Seq(STRING)]
        /\ \A v \in Workers \ {w} : buf'[v] = buf[v]
        /\ \/ pc' = pc /\ Len(buf'[w]) <= Room /\ LineEnds(buf'[w]) = {}
           \/ pc' = [pc EXCEPT ![w] = "path"] /\ Len(buf'[w]) + 2 <= Room
    BY <1>5, ReceiveText
  <2>3. Len(buf'[w]) \in Nat
    BY <2>2, LenProperties
  <2>4. Text(w)'
    BY <1>0, <2>1, <2>2, <2>3, Sizes DEF Text, Control
  <2>5. \A v \in Workers \ {w} : Text(v)'
    BY <1>0, <2>2 DEF TextInv, Text, Control
  <2> QED
    BY <2>2, <2>4, <2>5 DEF TextInv
<1>6. ASSUME NEW w \in Workers, BuildsPath(w) PROVE TextInv'
  <2>1. /\ pc[w] = "path" /\ pc' = [pc EXCEPT ![w] = "type"] /\ inbox' = inbox
        /\ buf' = [buf EXCEPT ![w] = Home \o buf[w]]
    BY <1>6 DEF BuildsPath, Goes
  <2>2. buf[w] \in Seq(STRING) /\ Len(buf[w]) + 2 <= Room /\ Len(buf[w]) \in Nat
    BY <2>1, LenProperties DEF TextInv, Text
  <2> DEFINE path == Home \o buf[w]
  <2>3. path \in Seq(STRING) /\ Len(path) = Len(Home) + Len(buf[w])
    BY <2>2, Sizes, ConcatProperties
  <2>4. Len(path) <= PathMax
    BY <2>2, <2>3, Sizes
  <2> HIDE DEF path
  <2>5. buf' = [buf EXCEPT ![w] = path]
    BY <2>1 DEF path
  <2>6. Text(w)'
    BY <1>0, <2>1, <2>4, <2>5 DEF Text, Control, TextInv
  <2>7. \A v \in Workers \ {w} : Text(v)'
    BY <1>0, <2>1, <2>5 DEF TextInv, Text, Control
  <2> QED
    BY <2>1, <2>3, <2>5, <2>6, <2>7 DEF TextInv
<1>7. ASSUME NEW w \in Workers, Types(w) PROVE TextInv'
  <2>1. PICK char : Goes(w, "type", AnswerTo(char))
    BY <1>7 DEF Types
  <2>2. buf' = [buf EXCEPT ![w] = <<>>] /\ inbox' = inbox
    BY <1>7 DEF Types
  <2>3. pc' = [pc EXCEPT ![w] = AnswerTo(char)] /\ AnswerTo(char) \in {"menu", "error", "open"}
    BY <2>1 DEF Goes, AnswerTo
  <2> DEFINE none == <<>>
  <2>4. none \in Seq(STRING) /\ Len(none) <= PathMax
    BY EmptyText, Sizes
  <2>5. buf' = [buf EXCEPT ![w] = none]
    BY <2>2
  <2> HIDE DEF none
  <2>6. Text(w)'
    BY <1>0, <2>3, <2>4, <2>5 DEF Text, Control, TextInv
  <2>7. \A v \in Workers \ {w} : Text(v)'
    BY <1>0, <2>3, <2>5 DEF TextInv, Text, Control
  <2> QED
    BY <2>2, <2>4, <2>5, <2>6, <2>7 DEF TextInv
<1> QED
  BY <1>1, <1>2, <1>3, <1>4, <1>5, <1>6, <1>7 DEF Next, WorkerStep, Fails

LEMMA TextHolds == Spec => []TextInv
<1>1. Init => TextInv
  <2> SUFFICES ASSUME Init PROVE TextInv
    OBVIOUS
  <2>1. buf = [w \in Workers |-> <<>>] /\ \A w \in Workers : inbox[w] \in Requests[w]
    BY DEF Init
  <2>2. inbox \in [Workers -> UNION {Requests[w] : w \in Workers}]
    BY DEF Init
  <2>3. inbox \in [Workers -> Seq(STRING)]
    BY <2>1, <2>2, RequestAssumption DEF RequestAssumption
  <2>4. \A w \in Workers : buf[w] = <<>> /\ pc[w] = "start"
    BY <2>1 DEF Init
  <2>5. \A w \in Workers : Text(w)
    BY <2>4, EmptyText, Sizes DEF Text
  <2> QED
    BY <2>1, <2>3, <2>5, EmptyText DEF TextInv
<1>2. RequestInv /\ TextInv /\ [Next]_vars => TextInv'
  BY TextKept
<1> QED
  BY <1>1, <1>2, RequestInductive, PTL DEF Spec

\* The line and homedir fit in path_file, with its end (children.c:244-285).
THEOREM PathsFit == Spec => []PathFits
<1>1. TextInv => PathFits
  <2> SUFFICES ASSUME TextInv, NEW w \in Workers, pc[w] = "path"
               PROVE  Len(Home) + Len(buf[w]) < PathMax
    BY DEF PathFits
  <2>1. Len(buf[w]) \in Nat /\ Len(buf[w]) + 2 <= Room
    BY LenProperties DEF TextInv, Text
  <2> QED
    BY <2>1, Sizes
<1> QED
  BY <1>1, TextHolds, PTL

\* However recv() cuts it, the request is the first line of what the client sends
\* (children.c:58-67).
THEOREM LinesAreRead == Spec => ReadsTheLine
<1> DEFINE A == \A w \in Workers : (pc[w] = "read" /\ pc'[w] = "path")
                                     => buf'[w] = FirstLine(buf[w] \o inbox[w])
<1>1. RequestInv /\ TextInv /\ [Next]_vars => [A]_vars
  <2> SUFFICES ASSUME RequestInv, TextInv, Next,
                      NEW w \in Workers, pc[w] = "read", pc'[w] = "path"
               PROVE  buf'[w] = FirstLine(buf[w] \o inbox[w])
    OBVIOUS
  <2>0. Control
    BY DEF RequestInv
  <2>1. PICK v \in Workers : Receives(v)
    <3>1. CASE WriterLocks \/ WriterUnlocks
      BY <3>1 DEF WriterLocks, WriterUnlocks
    <3>2. ASSUME NEW v \in Workers, Takes(v) \/ Leaves(v) \/ Resets(v) \/ SenderStep(v)
                                      \/ AnnounceFails(v) \/ Lists(v)
          PROVE  FALSE
      BY <3>2 DEF Takes, Leaves, Resets, SenderStep, Sends, SendFails, ShutsDown, Waits,
             Announces, AnnounceFails, Lists
    <3>3. ASSUME NEW v \in Workers, NEW from, NEW to, Goes(v, from, to), to # "path"
          PROVE  FALSE
      BY <2>0, <3>3 DEF Goes, Control
    <3>4. \A char : AnswerTo(char) # "path"
      BY DEF AnswerTo
    <3>5. ASSUME NEW v \in Workers,
                 \/ Begins(v) \/ BuildsPath(v) \/ Types(v)
                 \/ OpensDir(v) \/ OpenDirFails(v) \/ SendsMenu(v) \/ SendsError(v)
                 \/ OpensFile(v) \/ OpenFails(v) \/ Locks(v) \/ LockFails(v) \/ Stats(v)
                 \/ Maps(v) \/ LoadFails(v) \/ Unlocks(v) \/ Creates(v) \/ Joins(v)
          PROVE  FALSE
      BY <3>3, <3>4, <3>5 DEF Begins, BuildsPath, Types, OpensDir, OpenDirFails, SendsMenu,
             SendsError, OpensFile, OpenFails, Locks, LockFails, Stats, Maps, LoadFails,
             Unlocks, Creates, Joins
    <3>6. ASSUME NEW v \in Workers,
                 \/ ReadEnds(v) \/ ReadFails(v) \/ Refuses(v) \/ Finishes(v)
                 \/ Exits(v) \/ EmptyMenu(v) \/ LoadExits(v)
          PROVE  FALSE
      BY <2>0, <3>6 DEF ReadEnds, ReadFails, Refuses, Finishes, Exits, EmptyMenu, LoadExits,
             Ends, ProcessEnds, Control
    <3> QED
      BY <3>1, <3>2, <3>5, <3>6 DEF Next, WorkerStep, Fails
  <2>2. v = w
    <3>1. pc' = pc \/ pc' = [pc EXCEPT ![v] = "path"]
      BY <2>1 DEF Receives
    <3> QED
      BY <2>0, <3>1 DEF Control
  <2>3. pc' # pc
    OBVIOUS
  <2> QED
    BY <2>1, <2>2, <2>3, ReceiveText
<1> QED
  BY <1>1, RequestInductive, TextHolds, PTL DEF Spec, ReadsTheLine

\* file gets the very path the client asked for, through sanitize_path and the shell
\* of popen() (gopher.c:479-488).
THEOREM ShellSeesThePath == Spec => []ShellSeesPath
<1>1. TextInv => ShellSeesPath
  <2> SUFFICES ASSUME TextInv, NEW w \in Workers
               PROVE  ShellWord(Argument(buf[w])) = buf[w]
    BY DEF ShellSeesPath
  <2>1. buf[w] \in Seq(STRING) /\ STRING \subseteq Chars
    BY DEF TextInv, Chars
  <2>2. buf[w] \in Seq(Chars)
    BY <2>1, SeqMonotonic
  <2> QED
    BY <2>2, ShellReadsPath
<1> QED
  BY <1>1, TextHolds, PTL

\* No general row of type_path hides a special one from a file (gopher.c:511-541).
THEOREM SpecialTypes == Spec => []TypeIsMostSpecific
<1>1. TypeIsMostSpecific
  <2>1. Mimes \subseteq [major : STRING, minor : STRING]
    BY RequestAssumption DEF RequestAssumption
  <2> QED
    BY <2>1, SpecialRowsFirst DEF TypeIsMostSpecific, HiddenType
<1> QED
  BY <1>1, PTL
-----------------------------------------------------------------------------
(* The types and the counters.                                             *)

\* Nothing is sent before the sender thread runs, and no more than was mapped.
Counted(w) ==
    /\ taken[w] <= sent[w] /\ sent[w] <= len[w]
    /\ pc[w] \notin {"join", "finish"} => sent[w] = 0

CountInv ==
    /\ mode \in Modes /\ up \in BOOLEAN
    /\ len \in [Workers -> Lengths \cup {0}] /\ listed \in [Workers -> 0 .. MaxEntries]
    /\ sent \in [Workers -> Nat] /\ taken \in [Workers -> Nat]
    /\ \A w \in Workers : Counted(w)
    /\ flen \in Lengths /\ recorded \subseteq Workers

LEMMA Bounds == Lengths \subseteq Nat /\ Lengths \cup {0} \subseteq Nat /\ MaxEntries \in Nat
BY RequestAssumption DEF RequestAssumption

\* A step that counts nothing, of a worker that does not begin to send.
LEMMA CountStays ==
    ASSUME Control, CountInv,
           UNCHANGED <<mode, up, len, listed, sent, taken, flen, recorded>>,
           \A v \in Workers : pc[v] \in {"join", "finish"} => pc'[v] \in {"join", "finish"}
    PROVE  CountInv'
<1>1. \A v \in Workers : Counted(v)'
  BY DEF CountInv, Counted
<1> QED
  BY <1>1 DEF CountInv

\* The counts of a connection end with it.
LEMMA CountEnds ==
    ASSUME Control, CountInv, NEW dead, Forgets(dead), up' \in BOOLEAN,
           UNCHANGED <<mode, flen, recorded>>,
           \A v \in Workers : pc'[v] = IF v \in dead THEN "gone" ELSE pc[v]
    PROVE  CountInv'
<1>1. /\ taken' = [v \in Workers |-> IF v \in dead THEN 0 ELSE taken[v]]
      /\ sent' = [v \in Workers |-> IF v \in dead THEN 0 ELSE sent[v]]
      /\ len' = [v \in Workers |-> IF v \in dead THEN 0 ELSE len[v]]
      /\ listed' = [v \in Workers |-> IF v \in dead THEN 0 ELSE listed[v]]
  BY DEF Forgets
<1>2. /\ len' \in [Workers -> Lengths \cup {0}] /\ listed' \in [Workers -> 0 .. MaxEntries]
      /\ sent' \in [Workers -> Nat] /\ taken' \in [Workers -> Nat]
  BY <1>1, Bounds DEF CountInv
<1>3. ASSUME NEW v \in Workers PROVE Counted(v)'
  <2>1. CASE v \in dead
    BY <1>1, <2>1 DEF Counted
  <2>2. CASE v \notin dead
    BY <1>1, <2>2 DEF CountInv, Counted
  <2> QED
    BY <2>1, <2>2
<1> QED
  BY <1>2, <1>3 DEF CountInv

LEMMA CountKept ==
    ASSUME RequestInv, CountInv, [Next]_vars
    PROVE  CountInv'
<1>0. Control
  BY DEF RequestInv
<1>1. CASE UNCHANGED vars \/ WriterLocks
  BY <1>0, <1>1, CountStays DEF vars, fileVars, sendVars, WriterLocks
<1>2. ASSUME NEW w \in Workers,
             \/ Leaves(w) \/ Resets(w) \/ SendFails(w) \/ ShutsDown(w) \/ Waits(w)
             \/ AnnounceFails(w)
      PROVE  CountInv'
  BY <1>0, <1>2, CountStays DEF Leaves, Resets, SendFails, ShutsDown, Waits, AnnounceFails,
     fileVars, sendVars
<1>3. ASSUME NEW w \in Workers, NEW from, NEW to, Goes(w, from, to),
             from \in {"join", "finish"} => to = "finish",
             UNCHANGED <<mode, up, len, listed, sent, taken, flen, recorded>>
      PROVE  CountInv'
  <2>1. \A v \in Workers : pc[v] \in {"join", "finish"} => pc'[v] \in {"join", "finish"}
    BY <1>0, <1>3 DEF Goes, Control
  <2> QED
    BY <1>0, <1>3, <2>1, CountStays
<1>4. ASSUME NEW w \in Workers,
             \/ Begins(w) \/ BuildsPath(w) \/ Types(w) \/ OpensDir(w) \/ OpenDirFails(w)
             \/ SendsError(w) \/ OpensFile(w) \/ OpenFails(w) \/ Locks(w) \/ LockFails(w)
             \/ Maps(w) \/ LoadFails(w) \/ Unlocks(w) \/ Creates(w) \/ Joins(w)
      PROVE  CountInv'
  <2>1. UNCHANGED <<mode, up, len, listed, sent, taken, flen, recorded>>
    BY <1>4 DEF Begins, BuildsPath, Types, OpensDir, OpenDirFails, SendsError, OpensFile,
           OpenFails, Locks, LockFails, Maps, LoadFails, Unlocks, Creates, Joins,
           fileVars, sendVars
  <2>2. PICK from, to : Goes(w, from, to) /\ (from \in {"join", "finish"} => to = "finish")
    BY <1>4 DEF Begins, BuildsPath, Types, OpensDir, OpenDirFails, SendsError, OpensFile,
           OpenFails, Locks, LockFails, Maps, LoadFails, Unlocks, Creates, Joins
  <2> QED
    BY <1>3, <2>1, <2>2
<1>5. ASSUME NEW w \in Workers, Receives(w) PROVE CountInv'
  <2>1. UNCHANGED <<mode, up, len, listed, sent, taken, flen, recorded>>
        /\ pc[w] = "read" /\ (pc' = pc \/ pc' = [pc EXCEPT ![w] = "path"])
    BY <1>5 DEF Receives, fileVars, sendVars
  <2> QED
    BY <1>0, <2>1, CountStays DEF Control
<1>6. ASSUME NEW w \in Workers,
             ReadEnds(w) \/ ReadFails(w) \/ Refuses(w) \/ Finishes(w)
      PROVE  CountInv'
  <2>1. PICK rs : Ends(w, rs)
    BY <1>6 DEF ReadEnds, ReadFails, Refuses, Finishes
  <2>2. Forgets({w}) /\ pc' = [pc EXCEPT ![w] = "gone"] /\ UNCHANGED <<mode, up, flen, recorded>>
    BY <2>1 DEF Ends, fileVars
  <2>3. \A v \in Workers : pc'[v] = IF v \in {w} THEN "gone" ELSE pc[v]
    BY <1>0, <2>2 DEF Control
  <2>4. up' \in BOOLEAN
    BY <2>2 DEF CountInv
  <2> QED
    BY <1>0, <2>2, <2>3, <2>4, CountEnds
<1>7. ASSUME NEW w \in Workers, Exits(w) \/ EmptyMenu(w) \/ LoadExits(w)
      PROVE  CountInv'
  <2>1. ProcessEnds(w)
    BY <1>7 DEF Exits, EmptyMenu, LoadExits
  <2>2. PICK dead : /\ Forgets(dead)
                    /\ pc' = [v \in Workers |-> IF v \in dead THEN "gone" ELSE pc[v]]
    BY <2>1 DEF ProcessEnds
  <2>3. UNCHANGED <<mode, flen, recorded>>
    BY <2>1 DEF ProcessEnds
  <2>4. up' = (mode = "p" /\ up)
    BY <2>1 DEF ProcessEnds
  <2>5. up' \in BOOLEAN
    BY <2>4 DEF CountInv
  <2> QED
    BY <1>0, <2>2, <2>3, <2>5, CountEnds
<1>8. ASSUME NEW w \in Workers, Lists(w) PROVE CountInv'
  <2>1. /\ listed' = [listed EXCEPT ![w] = @ + 1] /\ listed[w] < MaxEntries
        /\ UNCHANGED <<mode, up, pc, len, sent, taken, flen, recorded>>
    BY <1>8 DEF Lists, fileVars, sendVars
  <2>2. listed' \in [Workers -> 0 .. MaxEntries]
    BY <2>1, Bounds DEF CountInv
  <2> QED
    BY <2>1, <2>2 DEF CountInv, Counted
<1>9. ASSUME NEW w \in Workers, SendsMenu(w) PROVE CountInv'
  <2>1. /\ listed' = [listed EXCEPT ![w] = 0]
        /\ pc[w] = "entries" /\ pc' = [pc EXCEPT ![w] = "finish"]
        /\ UNCHANGED <<mode, up, len, sent, taken, flen, recorded>>
    BY <1>9 DEF SendsMenu, Goes, fileVars, sendVars
  <2>2. listed' \in [Workers -> 0 .. MaxEntries]
    BY <2>1, Bounds DEF CountInv
  <2>3. \A v \in Workers : Counted(v)'
    BY <1>0, <2>1 DEF CountInv, Counted, Control
  <2> QED
    BY <2>1, <2>2, <2>3 DEF CountInv
<1>10. ASSUME NEW w \in Workers, Stats(w) PROVE CountInv'
  <2>1. /\ len' = [len EXCEPT ![w] = flen]
        /\ pc[w] = "stat" /\ pc' = [pc EXCEPT ![w] = "map"]
        /\ UNCHANGED <<mode, up, listed, sent, taken, flen, recorded>>
    BY <1>10 DEF Stats, Goes, fileVars
  <2>2. len' \in [Workers -> Lengths \cup {0}]
    BY <2>1 DEF CountInv
  <2>3. flen \in Nat /\ sent[w] = 0 /\ taken[w] = 0
    BY <2>1, Bounds DEF CountInv, Counted
  <2>4. \A v \in Workers : Counted(v)'
    BY <1>0, <2>1, <2>3 DEF CountInv, Counted, Control
  <2> QED
    BY <2>1, <2>2, <2>4 DEF CountInv
<1>11. ASSUME NEW w \in Workers, Sends(w) PROVE CountInv'
  <2>1. PICK k \in 1 .. len[w] - sent[w] : sent' = [sent EXCEPT ![w] = sent[w] + k]
    BY <1>11 DEF Sends
  <2>2. spc[w] = "send" /\ UNCHANGED <<mode, up, pc, len, listed, taken, flen, recorded>>
    BY <1>11 DEF Sends, fileVars
  <2>3. pc[w] = "join"
    BY <2>2 DEF RequestInv, Sending
  <2>4. len[w] \in Nat /\ sent[w] \in Nat /\ taken[w] \in Nat /\ taken[w] <= sent[w]
    BY Bounds DEF CountInv, Counted
  <2>5. sent[w] + k \in Nat /\ sent[w] + k <= len[w] /\ taken[w] <= sent[w] + k
    BY <2>4
  <2>6. sent' \in [Workers -> Nat]
    BY <2>1, <2>5 DEF CountInv
  <2>7. \A v \in Workers : Counted(v)'
    BY <2>1, <2>2, <2>3, <2>5 DEF CountInv, Counted
  <2> QED
    BY <2>2, <2>6, <2>7 DEF CountInv
<1>12. ASSUME NEW w \in Workers, Announces(w) PROVE CountInv'
  <2>1. /\ recorded' = recorded \cup {w}
        /\ UNCHANGED <<mode, up, pc, len, listed, sent, taken, flen>>
    BY <1>12 DEF Announces, fileVars
  <2> QED
    BY <2>1 DEF CountInv, Counted
<1>13. ASSUME NEW w \in Workers, Takes(w) PROVE CountInv'
  <2>1. /\ taken' = [taken EXCEPT ![w] = @ + 1] /\ taken[w] < sent[w]
        /\ UNCHANGED <<mode, up, pc, len, listed, sent, flen, recorded>>
    BY <1>13 DEF Takes, fileVars, sendVars
  <2>2. taken' \in [Workers -> Nat]
    BY <2>1 DEF CountInv
  <2>3. \A v \in Workers : Counted(v)'
    BY <2>1 DEF CountInv, Counted
  <2> QED
    BY <2>1, <2>2, <2>3 DEF CountInv
<1>14. CASE WriterUnlocks
  <2>1. flen' \in Lengths /\ UNCHANGED <<mode, up, pc, len, listed, sent, taken, recorded>>
    BY <1>14 DEF WriterUnlocks, sendVars
  <2> QED
    BY <2>1 DEF CountInv, Counted
<1> QED
  BY <1>1, <1>2, <1>4, <1>5, <1>6, <1>7, <1>8, <1>9, <1>10, <1>11, <1>12, <1>13, <1>14
     DEF Next, WorkerStep, SenderStep, Fails

LEMMA CountHolds == Spec => []CountInv
<1>1. Init => CountInv
  BY Bounds DEF Init, CountInv, Counted
<1>2. RequestInv /\ CountInv /\ [Next]_vars => CountInv'
  BY CountKept
<1> QED
  BY <1>1, <1>2, RequestInductive, PTL DEF Spec

\* Every variable has its type; no path is longer than PATH_MAX, and no sender sends
\* more than was mapped (gopher.c:235-259).
THEOREM TypeCorrect == Spec => []TypeOK
<1>1. RequestInv /\ TextInv /\ CountInv => TypeOK
  <2> SUFFICES ASSUME RequestInv, TextInv, CountInv PROVE TypeOK
    OBVIOUS
  <2>1. /\ pc \in [Workers -> WorkerPc] /\ spc \in [Workers -> SenderPc]
        /\ peer \in [Workers -> {"open", "half", "closed", "reset"}]
        /\ held \in [Workers -> SUBSET Resources] /\ lock \in Workers \cup {Writer, Nobody}
    BY DEF RequestInv, Control
  <2>2. \A w \in Workers : Len(buf[w]) <= PathMax
    BY DEF TextInv, Text
  <2>3. ASSUME NEW w \in Workers PROVE sent[w] \in 0 .. len[w] /\ taken[w] \in 0 .. sent[w]
    BY Bounds DEF CountInv, Counted
  <2>4. /\ mode \in Modes /\ up \in BOOLEAN /\ flen \in Lengths /\ recorded \subseteq Workers
        /\ len \in [Workers -> Lengths \cup {0}] /\ listed \in [Workers -> 0 .. MaxEntries]
    BY DEF CountInv
  <2> QED
    BY <2>1, <2>2, <2>3, <2>4 DEF TypeOK
<1> QED
  BY <1>1, RequestInductive, TextHolds, CountHolds, PTL
=============================================================================
