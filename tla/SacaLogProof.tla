---------------------------- MODULE SacaLogProof ----------------------------
(***************************************************************************)
(* The transfer log for every set of senders, every pipe capacity, both    *)
(* modes: proofs about SacaLog.                                            *)
(***************************************************************************)
EXTENDS SacaLog, SequenceTheorems, TLAPS

\* The type invariant is preserved by every step: the only counter that could
\* leave its range is cont, which LoggerWritesLine decrements only at "text",
\* where Balance puts it above zero.
LEMMA TypeStep == LogInv /\ [Next]_vars => TypeOK'
<1> SUFFICES ASSUME LogInv, [Next]_vars PROVE TypeOK'
  OBVIOUS
<1> USE LogAssumption DEF LogInv, TypeOK, Message, Line, SenderPc, LoggerPc
<1>1. ASSUME NEW s \in Senders, SenderFinishes(s) PROVE TypeOK'
  BY <1>1 DEF SenderFinishes, SenderMoves
<1>2. ASSUME NEW s \in Senders, SenderLocks(s) PROVE TypeOK'
  BY <1>2 DEF SenderLocks, SenderMoves
<1>3. ASSUME NEW s \in Senders, SenderLockFails(s) PROVE TypeOK'
  BY <1>3 DEF SenderLockFails, SenderMoves
<1>4. ASSUME NEW s \in Senders, SenderWrites(s) PROVE TypeOK'
  <2>1. spc[s] \in {"len", "text"}
    BY <1>4 DEF SenderWrites, SenderMoves
  <2>2. [kind |-> spc[s], rec |-> s] \in Message
    BY <2>1
  <2>3. pipe' \in Seq(Message)
    BY <1>4, <2>2, AppendProperties DEF SenderWrites
  <2> QED
    BY <1>4, <2>3 DEF SenderWrites, SenderMoves
<1>5. ASSUME NEW s \in Senders, SenderHitsBrokenPipe(s) PROVE TypeOK'
  BY <1>5 DEF SenderHitsBrokenPipe, ProcessDies, ServerDies
<1>6. ASSUME NEW s \in Senders, SenderWriteFails(s) PROVE TypeOK'
  BY <1>6 DEF SenderWriteFails, SenderMoves
<1>7. ASSUME NEW s \in Senders, SenderSignals(s) PROVE TypeOK'
  BY <1>7 DEF SenderSignals, SenderMoves
<1>8. ASSUME NEW s \in Senders, SenderUnlocks(s) PROVE TypeOK'
  BY <1>8 DEF SenderUnlocks, SenderMoves
<1>9. ASSUME NEW s \in Senders, ChildKilled(s) PROVE TypeOK'
  BY <1>9 DEF ChildKilled
<1>10. CASE LoggerStarts
  BY <1>10 DEF LoggerStarts, LoggerMoves
<1>11. CASE LoggerLocks
  BY <1>11 DEF LoggerLocks, LoggerMoves
<1>12. CASE LoggerWaits
  BY <1>12 DEF LoggerWaits, LoggerMoves
<1>13. CASE LoggerWakesSpuriously
  BY <1>13 DEF LoggerWakesSpuriously, LoggerMoves
<1>14. CASE LoggerReadsLength
  <2>1. Head(pipe) \in Message /\ Tail(pipe) \in Seq(Message)
    BY <1>14, HeadTailProperties DEF LoggerReadsLength
  <2> QED
    BY <1>14, <2>1 DEF LoggerReadsLength, LoggerMoves
<1>15. CASE LoggerWritesLine
  <2>1. Head(pipe) \in Message /\ Tail(pipe) \in Seq(Message)
    BY <1>15, HeadTailProperties DEF LoggerWritesLine
  <2>2. mutexValid /\ mutex = Logger /\ lpc = "text"
    BY <1>15 DEF LoggerWritesLine, LoggerMoves, Exclusion
  <2>3. InLoop /\ ~Stuck
    BY <2>2 DEF InLoop, Stuck
  <2>4. lenRead \in Message
    BY <2>2, <2>3 DEF Expectation, NoMessage
  <2>5. log' \in Seq(Line)
    BY <1>15, <2>1, <2>4, AppendProperties DEF LoggerWritesLine
  <2>6. cont - 1 \in Nat
    BY <2>2, <2>3, LenProperties DEF Balance
  <2> QED
    BY <1>15, <2>1, <2>5, <2>6 DEF LoggerWritesLine, LoggerMoves
<1>16. CASE LoggerDrained
  BY <1>16 DEF LoggerDrained, LoggerMoves
<1>17. CASE LoggerFails
  BY <1>17 DEF LoggerFails, LoggerMoves
<1>18. CASE LoggerExits
  BY <1>18 DEF LoggerExits, LoggerExitUnlocks, LoggerExitDestroys,
               LoggerExitCloses, LoggerMoves
<1>19. CASE LoggerTerminated
  BY <1>19 DEF LoggerTerminated
<1>20. CASE ServerStep
  BY <1>20 DEF ServerStep, CloseAllKillsLogger, CloseAllClosesPipe,
               CloseAllExits, ServerFails, ServerMoves, ServerDies
<1>21. CASE UNCHANGED vars
  BY <1>21 DEF vars
<1> QED
  BY <1>1, <1>2, <1>3, <1>4, <1>5, <1>6, <1>7, <1>8, <1>9, <1>10, <1>11,
     <1>12, <1>13, <1>14, <1>15, <1>16, <1>17, <1>18, <1>19, <1>20, <1>21
     DEF Next, SenderStep, LoggerStep

\* No step lets two parties into the section: the mutex is taken only when it
\* is free, given back only by its owner, and destroyed only when free.
LEMMA ExclusionStep == LogInv /\ [Next]_vars => Exclusion'
<1> SUFFICES ASSUME LogInv, [Next]_vars PROVE Exclusion'
  OBVIOUS
<1> USE LogAssumption DEF LogInv, TypeOK, Exclusion, InSection, LoggerPc, SenderPc
<1>1. ASSUME NEW s \in Senders, SenderFinishes(s) PROVE Exclusion'
  BY <1>1 DEF SenderFinishes, SenderMoves
<1>2. ASSUME NEW s \in Senders, SenderLocks(s) PROVE Exclusion'
  BY <1>2 DEF SenderLocks, SenderMoves
<1>3. ASSUME NEW s \in Senders, SenderLockFails(s) PROVE Exclusion'
  BY <1>3 DEF SenderLockFails, SenderMoves
<1>4. ASSUME NEW s \in Senders, SenderWrites(s) PROVE Exclusion'
  BY <1>4 DEF SenderWrites, SenderMoves
<1>5. ASSUME NEW s \in Senders, SenderHitsBrokenPipe(s) PROVE Exclusion'
  BY <1>5 DEF SenderHitsBrokenPipe, ProcessDies, ServerDies
<1>6. ASSUME NEW s \in Senders, SenderWriteFails(s) PROVE Exclusion'
  BY <1>6 DEF SenderWriteFails, SenderMoves
<1>7. ASSUME NEW s \in Senders, SenderSignals(s) PROVE Exclusion'
  BY <1>7 DEF SenderSignals, SenderMoves
<1>8. ASSUME NEW s \in Senders, SenderUnlocks(s) PROVE Exclusion'
  BY <1>8 DEF SenderUnlocks, SenderMoves
<1>9. ASSUME NEW s \in Senders, ChildKilled(s) PROVE Exclusion'
  BY <1>9 DEF ChildKilled
<1>10. CASE LoggerStarts
  BY <1>10 DEF LoggerStarts, LoggerMoves
<1>11. CASE LoggerLocks
  BY <1>11 DEF LoggerLocks, LoggerMoves
<1>12. CASE LoggerWaits
  BY <1>12 DEF LoggerWaits, LoggerMoves
<1>13. CASE LoggerWakesSpuriously
  BY <1>13 DEF LoggerWakesSpuriously, LoggerMoves
<1>14. CASE LoggerReadsLength
  BY <1>14 DEF LoggerReadsLength, LoggerMoves
<1>15. CASE LoggerWritesLine
  BY <1>15 DEF LoggerWritesLine, LoggerMoves
<1>16. CASE LoggerDrained
  BY <1>16 DEF LoggerDrained, LoggerMoves
<1>17. CASE LoggerFails
  BY <1>17 DEF LoggerFails, LoggerMoves
<1>18. CASE LoggerExits
  BY <1>18 DEF LoggerExits, LoggerExitUnlocks, LoggerExitDestroys,
               LoggerExitCloses, LoggerMoves
<1>19. CASE LoggerTerminated
  BY <1>19 DEF LoggerTerminated
<1>20. CASE ServerStep
  BY <1>20 DEF ServerStep, CloseAllKillsLogger, CloseAllClosesPipe,
               CloseAllExits, ServerFails, ServerMoves, ServerDies
<1>21. CASE UNCHANGED vars
  BY <1>21 DEF vars
<1> QED
  BY <1>1, <1>2, <1>3, <1>4, <1>5, <1>6, <1>7, <1>8, <1>9, <1>10, <1>11,
     <1>12, <1>13, <1>14, <1>15, <1>16, <1>17, <1>18, <1>19, <1>20, <1>21
     DEF Next, SenderStep, LoggerStep

\* The wake-up discipline survives every step: the log process goes to sleep
\* only from "wait", which it reaches with cont = 0, and the mutex passes on
\* from a sender only after its signal.
LEMMA AwakeningStep == LogInv /\ [Next]_vars => Awakening'
<1> SUFFICES ASSUME LogInv, [Next]_vars, LoggerFirst PROVE Awakening'
  BY DEF LogInv, Awakening
<1> USE LogAssumption DEF LogInv, TypeOK, Awakening, OwnerAt, LoggerPc, SenderPc
<1>1. ASSUME NEW s \in Senders, SenderFinishes(s) PROVE Awakening'
  BY <1>1 DEF SenderFinishes, SenderMoves
<1>2. ASSUME NEW s \in Senders, SenderLocks(s) PROVE Awakening'
  <2>1. lpc \notin {"wait"} \/ ~mutexValid
    BY <1>2 DEF SenderLocks, Exclusion
  <2> QED
    BY <1>2, <2>1 DEF SenderLocks, SenderMoves, Exclusion
<1>3. ASSUME NEW s \in Senders, SenderLockFails(s) PROVE Awakening'
  BY <1>3 DEF SenderLockFails, SenderMoves, Exclusion
<1>4. ASSUME NEW s \in Senders, SenderWrites(s) PROVE Awakening'
  BY <1>4 DEF SenderWrites, SenderMoves
<1>5. ASSUME NEW s \in Senders, SenderHitsBrokenPipe(s) PROVE Awakening'
  BY <1>5 DEF SenderHitsBrokenPipe, ProcessDies, ServerDies
<1>6. ASSUME NEW s \in Senders, SenderWriteFails(s) PROVE Awakening'
  BY <1>6 DEF SenderWriteFails, SenderMoves
<1>7. ASSUME NEW s \in Senders, SenderSignals(s) PROVE Awakening'
  BY <1>7 DEF SenderSignals, SenderMoves
<1>8. ASSUME NEW s \in Senders, SenderUnlocks(s) PROVE Awakening'
  <2>1. lpc = "parked" => mutexValid /\ mutex = s
    BY <1>8 DEF SenderUnlocks, SenderMoves, Exclusion, InSection
  <2> QED
    BY <1>8, <2>1 DEF SenderUnlocks, SenderMoves
<1>9. ASSUME NEW s \in Senders, ChildKilled(s) PROVE Awakening'
  BY <1>9 DEF ChildKilled
<1>10. CASE LoggerStarts
  BY <1>10 DEF LoggerStarts, LoggerMoves
<1>11. CASE LoggerLocks
  BY <1>11 DEF LoggerLocks, LoggerMoves
<1>12. CASE LoggerWaits
  BY <1>12 DEF LoggerWaits, LoggerMoves
<1>13. CASE LoggerWakesSpuriously
  BY <1>13 DEF LoggerWakesSpuriously, LoggerMoves
<1>14. CASE LoggerReadsLength
  BY <1>14 DEF LoggerReadsLength, LoggerMoves
<1>15. CASE LoggerWritesLine
  BY <1>15 DEF LoggerWritesLine, LoggerMoves
<1>16. CASE LoggerDrained
  BY <1>16 DEF LoggerDrained, LoggerMoves
<1>17. CASE LoggerFails
  BY <1>17 DEF LoggerFails, LoggerMoves
<1>18. CASE LoggerExits
  BY <1>18 DEF LoggerExits, LoggerExitUnlocks, LoggerExitDestroys,
               LoggerExitCloses, LoggerMoves
<1>19. CASE LoggerTerminated
  BY <1>19 DEF LoggerTerminated
<1>20. CASE ServerStep
  BY <1>20 DEF ServerStep, CloseAllKillsLogger, CloseAllClosesPipe,
               CloseAllExits, ServerFails, ServerMoves, ServerDies
<1>21. CASE UNCHANGED vars
  BY <1>21 DEF vars
<1> QED
  BY <1>1, <1>2, <1>3, <1>4, <1>5, <1>6, <1>7, <1>8, <1>9, <1>10, <1>11,
     <1>12, <1>13, <1>14, <1>15, <1>16, <1>17, <1>18, <1>19, <1>20, <1>21
     DEF Next, SenderStep, LoggerStep

\* What LogInv says about the pipe.
Sound ==
    /\ ~Stuck => Framing
    /\ InLoop /\ ~Stuck => Balance /\ Expectation

\* A step that leaves the pipe, cont and lenRead alone, and does not move the
\* reader or the writer between the two messages of a record, keeps Sound.
LEMMA PipeUntouched ==
    ASSUME Sound, UNCHANGED <<pipe, cont, lenRead>>,
           ~Stuck' =>
              /\ ~Stuck
              /\ OwnerAt("text")' <=> OwnerAt("text")
              /\ OwnerAt("text") => mutex' = mutex,
           InLoop' /\ ~Stuck' =>
              /\ InLoop
              /\ lpc' = "text" <=> lpc = "text"
              /\ OwnerAt("len")' <=> OwnerAt("len")
    PROVE  Sound'
<1>1. ASSUME ~Stuck' PROVE Framing'
  <2>1. Framing /\ FirstText' = FirstText
    BY <1>1 DEF Sound, FirstText
  <2> QED
    BY <1>1, <2>1 DEF Framing
<1>2. ASSUME InLoop', ~Stuck' PROVE Balance' /\ Expectation'
  <2>1. Balance /\ Expectation
    BY <1>2 DEF Sound
  <2>2. Balance'
    BY <1>2, <2>1 DEF Balance
  <2>3. Expectation'
    BY <1>2, <2>1 DEF Expectation
  <2> QED
    BY <2>2, <2>3
<1> QED
  BY <1>1, <1>2 DEF Sound

\* Lengths and texts take turns with odd and even positions.
LEMMA Parity ==
    ASSUME NEW n \in Nat, NEW k \in {1, 2}
    PROVE  (n + 1 + k) % 2 = 0 <=> (n + k) % 2 # 0
OBVIOUS

\* Every write() of a sender appends the message the framing asks for, also when
\* the log process is no longer there to read it.
LEMMA WriteKeepsPipe ==
    ASSUME LogInv, NEW s \in Senders, SenderWrites(s)
    PROVE  /\ Sound'
           /\ mutex = s
           /\ Framing
           /\ FirstText' = FirstText
<1> USE LogAssumption DEF LogInv, TypeOK
<1> DEFINE m == [kind |-> spc[s], rec |-> s]
           n == Len(pipe)
<1>1. spc[s] \in {"len", "text"} /\ mutex = s
  BY DEF SenderWrites, SenderMoves, Exclusion, InSection
<1>2. ~Stuck /\ Framing
  BY <1>1 DEF Stuck
<1>3. /\ pipe' = Append(pipe, m) /\ m \in Message
      /\ UNCHANGED <<mutex, cont, lpc, lenRead>>
      /\ n \in Nat
      /\ spc' = [spc EXCEPT ![s] = IF spc[s] = "len" THEN "text" ELSE "signal"]
  BY <1>1, LenProperties DEF SenderWrites, SenderMoves, Message
<1>4. /\ Len(pipe') = n + 1 /\ pipe' # <<>>
      /\ \A i \in 1..n : pipe'[i] = pipe[i]
      /\ pipe'[n + 1] = m
  BY <1>3, AppendProperties
<1>5. OwnerAt("len") <=> spc[s] = "len"
  BY <1>1 DEF OwnerAt
<1>6. OwnerAt("text") <=> spc[s] = "text"
  BY <1>1 DEF OwnerAt
<1>7. /\ ~OwnerAt("len")' /\ ~Stuck'
      /\ OwnerAt("text")' <=> spc[s] = "len"
  BY <1>1, <1>3 DEF OwnerAt, Stuck
<1>8. spc[s] = "text" => n > 0 /\ pipe[n] = [kind |-> "len", rec |-> s]
  BY <1>1, <1>2, <1>6 DEF Framing
<1>9. spc[s] = "len" => n = 0 \/ pipe[n].kind = "text"
  BY <1>1, <1>2, <1>3, <1>6 DEF Framing
<1>10. FirstText' = FirstText /\ FirstText \in {1, 2} /\ (n = 0 => FirstText = 2)
  <2>1. CASE n = 0
    <3>1. pipe = <<>> /\ pipe'[1] = m /\ m.kind = "len"
      BY <2>1, <1>1, <1>4, <1>8, EmptySeq
    <3> QED
      BY <3>1 DEF FirstText
  <2>2. CASE n > 0
    <3>1. pipe'[1] = pipe[1] /\ pipe # <<>> /\ pipe' # <<>>
      BY <2>2, <1>3, <1>4, EmptySeq
    <3> QED
      BY <2>2, <3>1 DEF FirstText
  <2> QED
    BY <2>1, <2>2, <1>3
<1>11. Framing'
  <2>1. ASSUME NEW i \in 1..n
        PROVE  IF (i + FirstText) % 2 = 0
               THEN /\ pipe'[i].kind = "text"
                    /\ i > 1 => pipe'[i - 1] = [kind |-> "len", rec |-> pipe'[i].rec]
               ELSE pipe'[i].kind = "len"
    <3>1. pipe'[i] = pipe[i] /\ (i > 1 => pipe'[i - 1] = pipe[i - 1])
      BY <1>3, <1>4
    <3> QED
      BY <1>2, <3>1 DEF Framing
  <2>2. IF (n + 1 + FirstText) % 2 = 0
        THEN /\ pipe'[n + 1].kind = "text"
             /\ n + 1 > 1 => pipe'[n] = [kind |-> "len", rec |-> pipe'[n + 1].rec]
        ELSE pipe'[n + 1].kind = "len"
    <3>1. CASE spc[s] = "len"
      <4>1. pipe'[n + 1].kind = "len"
        BY <3>1, <1>4
      <4>2. n > 0 => (n + FirstText) % 2 = 0
        <5> SUFFICES ASSUME n > 0 PROVE (n + FirstText) % 2 = 0
          OBVIOUS
        <5>1. n \in 1..Len(pipe) /\ pipe[n].kind = "text"
          BY <3>1, <1>3, <1>9
        <5> QED
          BY <1>2, <5>1 DEF Framing
      <4>3. (n + 1 + FirstText) % 2 # 0
        BY <4>2, <1>3, <1>10, Parity
      <4> QED
        BY <4>1, <4>3
    <3>2. CASE spc[s] = "text"
      <4>1. /\ pipe'[n + 1].kind = "text"
            /\ pipe'[n] = [kind |-> "len", rec |-> pipe'[n + 1].rec]
        BY <3>2, <1>3, <1>4, <1>8
      <4>2. (n + FirstText) % 2 # 0
        BY <3>2, <1>2, <1>3, <1>8 DEF Framing
      <4>3. (n + 1 + FirstText) % 2 = 0
        BY <4>2, <1>3, <1>10, Parity
      <4> QED
        BY <4>1, <4>3
    <3> QED
      BY <1>1, <3>1, <3>2
  <2>3. \A i \in 1..Len(pipe') :
          IF (i + FirstText') % 2 = 0
          THEN /\ pipe'[i].kind = "text"
               /\ i > 1 => pipe'[i - 1] = [kind |-> "len", rec |-> pipe'[i].rec]
          ELSE pipe'[i].kind = "len"
    <3> SUFFICES ASSUME NEW i \in 1..(n + 1)
                 PROVE  IF (i + FirstText) % 2 = 0
                        THEN /\ pipe'[i].kind = "text"
                             /\ i > 1 => pipe'[i - 1] = [kind |-> "len", rec |-> pipe'[i].rec]
                        ELSE pipe'[i].kind = "len"
      BY <1>4, <1>10
    <3>1. CASE i = n + 1
      BY <3>1, <2>2, <1>3
    <3>2. CASE i # n + 1
      BY <3>2, <2>1, <1>3
    <3> QED
      BY <3>1, <3>2
  <2>4. IF OwnerAt("text")'
        THEN Len(pipe') > 0 /\ pipe'[Len(pipe')] = [kind |-> "len", rec |-> mutex']
        ELSE Len(pipe') > 0 => pipe'[Len(pipe')].kind = "text"
    BY <1>1, <1>3, <1>4, <1>7
  <2> QED
    BY <2>3, <2>4 DEF Framing
<1>12. ASSUME InLoop' PROVE Balance' /\ Expectation'
  <2>1. Balance /\ Expectation /\ lpc # "text"
    BY <1>1, <1>2, <1>3, <1>12 DEF InLoop, Exclusion
  <2>2. Balance'
    BY <2>1, <1>1, <1>3, <1>4, <1>5, <1>6, <1>7 DEF Balance
  <2>3. Expectation'
    BY <2>1, <1>1, <1>3, <1>4, <1>8 DEF Expectation
  <2> QED
    BY <2>2, <2>3
<1> QED
  BY <1>1, <1>2, <1>10, <1>11, <1>12 DEF Sound

\* Taking a length leaves its text at the front; taking the text leaves a
\* length there or an empty pipe.
LEMMA ReadKeepsPipe ==
    ASSUME LogInv, LoggerReadsLength \/ LoggerWritesLine
    PROVE  /\ Sound'
           /\ LoggerReadsLength => FirstText = 2 /\ FirstText' = 1
           /\ LoggerWritesLine => LinesWhole' /\ FirstText = 1 /\ FirstText' = 2
<1> USE LogAssumption DEF LogInv, TypeOK
<1>1. lpc \in {"drain", "text"} /\ mutexValid /\ mutex = Logger
  BY DEF LoggerReadsLength, LoggerWritesLine, LoggerMoves, Exclusion
<1>2. InLoop /\ ~Stuck /\ Balance /\ Framing /\ Expectation
  BY <1>1 DEF InLoop, Stuck
<1> DEFINE n == Len(pipe)
<1>3. /\ pipe # <<>> /\ pipe' = Tail(pipe)
      /\ UNCHANGED <<mutex, spc>>
      /\ n \in Nat /\ n > 0
  BY LenProperties, EmptySeq DEF LoggerReadsLength, LoggerWritesLine
<1>4. /\ pipe' \in Seq(Message) /\ Len(pipe') = n - 1
      /\ \A i \in 1..(n - 1) : pipe'[i] = pipe[i + 1]
      /\ Head(pipe) = pipe[1]
  BY <1>3, HeadTailProperties
<1>5. ~OwnerAt("len") /\ ~OwnerAt("text") /\ ~OwnerAt("len")' /\ ~OwnerAt("text")'
  BY <1>1, <1>3 DEF OwnerAt
<1>6. ASSUME FirstText' = 3 - FirstText, FirstText \in {1, 2}
      PROVE  Framing'
  <2>1. ASSUME NEW i \in 1..Len(pipe')
        PROVE  IF (i + FirstText') % 2 = 0
               THEN /\ pipe'[i].kind = "text"
                    /\ i > 1 => pipe'[i - 1] = [kind |-> "len", rec |-> pipe'[i].rec]
               ELSE pipe'[i].kind = "len"
    <3>1. /\ i + 1 \in 1..n /\ pipe'[i] = pipe[i + 1]
          /\ i > 1 => pipe'[i - 1] = pipe[i]
      BY <1>3, <1>4
    <3>2. (i + FirstText') % 2 = 0 <=> (i + 1 + FirstText) % 2 = 0
      BY <1>6, <1>3, <1>4
    <3>3. IF (i + 1 + FirstText) % 2 = 0
          THEN pipe[i + 1].kind = "text"
               /\ (i + 1 > 1 => pipe[i + 1 - 1] = [kind |-> "len", rec |-> pipe[i + 1].rec])
          ELSE pipe[i + 1].kind = "len"
      BY <1>2, <3>1 DEF Framing
    <3>4. i + 1 > 1 /\ i + 1 - 1 = i
      BY <1>3, <1>4
    <3> QED
      BY <3>1, <3>2, <3>3, <3>4
  <2>2. Len(pipe') > 0 => pipe'[Len(pipe')].kind = "text"
    <3> SUFFICES ASSUME n - 1 > 0 PROVE pipe'[n - 1].kind = "text"
      BY <1>4
    <3>1. pipe'[n - 1] = pipe[n]
      BY <1>3, <1>4
    <3> QED
      BY <1>2, <1>3, <1>5, <3>1 DEF Framing
  <2> QED
    BY <2>1, <2>2, <1>5 DEF Framing
<1>7. CASE LoggerReadsLength
  <2>1. lpc = "drain" /\ lpc' = "text" /\ lenRead' = pipe[1] /\ cont' = cont
    BY <1>4, <1>7 DEF LoggerReadsLength, LoggerMoves
  <2>2. pipe[1].kind = "len" /\ n >= 2 /\ n = 2 * cont
    BY <1>2, <1>3, <1>5, <2>1 DEF Expectation, Balance
  <2>3. FirstText = 2
    BY <2>2 DEF FirstText
  <2>4. pipe[2].kind = "text" /\ pipe[1] = [kind |-> "len", rec |-> pipe[2].rec]
    <3>1. 2 \in 1..n /\ (2 + FirstText) % 2 = 0 /\ 2 > 1 /\ 2 - 1 = 1
      BY <1>3, <2>2, <2>3
    <3> QED
      BY <1>2, <3>1 DEF Framing
  <2>5. pipe'[1] = pipe[2] /\ Len(pipe') > 0 /\ pipe' # <<>>
    <3>1. 1 \in 1..(n - 1) /\ Len(pipe') > 0
      BY <1>3, <1>4, <2>2
    <3>2. pipe'[1] = pipe[1 + 1]
      BY <1>4, <3>1
    <3>3. pipe' # <<>>
      BY <3>1, EmptySeq
    <3> QED
      BY <3>1, <3>2, <3>3
  <2>6. FirstText' = 1
    BY <2>4, <2>5 DEF FirstText
  <2>7. Framing'
    BY <1>6, <2>3, <2>6
  <2>8. Balance'
    BY <1>4, <1>5, <2>1, <2>2 DEF Balance
  <2>9. pipe[2] \in Message
    BY <2>2, ElementOfSeq
  <2>10. Expectation'
    BY <2>1, <2>4, <2>5, <2>9 DEF Expectation, Message
  <2>11. ~LoggerWritesLine
    BY <2>1 DEF LoggerWritesLine, LoggerMoves
  <2> QED
    BY <2>3, <2>6, <2>7, <2>8, <2>10, <2>11 DEF Sound
<1>8. CASE LoggerWritesLine
  <2>1. /\ lpc = "text" /\ lpc' = "drain" /\ cont' = cont - 1
        /\ log' = Append(log, [len |-> lenRead, text |-> pipe[1]])
    BY <1>4, <1>8 DEF LoggerWritesLine, LoggerMoves
  <2>2. /\ lenRead.kind = "len" /\ pipe[1] = [kind |-> "text", rec |-> lenRead.rec]
        /\ n + 1 = 2 * cont
    BY <1>2, <1>3, <1>5, <2>1 DEF Expectation, Balance
  <2>3. FirstText = 1
    BY <2>2, <1>3 DEF FirstText
  <2>4. LinesWhole'
    <3> DEFINE l == [len |-> lenRead, text |-> pipe[1]]
    <3>1. lenRead \in Message
      BY <2>2 DEF NoMessage
    <3>2. l \in Line
      BY <1>3, <2>2, <3>1 DEF Line, Message
    <3>3. /\ Len(log') = Len(log) + 1
          /\ \A i \in 1..Len(log) : log'[i] = log[i]
          /\ log'[Len(log) + 1] = l
      BY <2>1, <3>2, AppendProperties
    <3>4. l.len.kind = "len" /\ l.text.kind = "text" /\ l.len.rec = l.text.rec
      BY <2>2
    <3> QED
      BY <3>3, <3>4, LenProperties DEF LinesWhole
  <2>5. n > 1 => pipe'[1].kind = "len"
    <3> SUFFICES ASSUME n > 1 PROVE pipe[2].kind = "len"
      BY <1>3, <1>4
    <3>1. 2 \in 1..n /\ (2 + FirstText) % 2 # 0
      BY <1>3, <2>3
    <3> QED
      BY <1>2, <3>1 DEF Framing
  <2>6. FirstText' = 2
    <3>1. n = 1 => pipe' = <<>>
      BY <1>4, EmptySeq
    <3> QED
      BY <2>5, <3>1, <1>3 DEF FirstText
  <2>7. Framing'
    BY <1>6, <2>3, <2>6
  <2>8. Balance'
    <3>1. cont \in Nat /\ n - 1 = 2 * (cont - 1)
      BY <1>3, <2>2
    <3>2. Len(pipe') = 2 * cont' /\ lpc' # "text"
      BY <1>4, <2>1, <3>1
    <3>3. cont' \in Int /\ Len(pipe') \in Int
      BY <1>3, <1>4, <2>1, <3>1
    <3> QED
      BY <1>5, <3>2, <3>3 DEF Balance
  <2>9. Expectation'
    BY <1>3, <1>4, <2>1, <2>5 DEF Expectation
  <2>10. ~LoggerReadsLength
    BY <2>1 DEF LoggerReadsLength, LoggerMoves
  <2> QED
    BY <2>3, <2>4, <2>6, <2>7, <2>8, <2>9, <2>10 DEF Sound
<1> QED
  BY <1>7, <1>8

\* The pipe stays sound, and the file whole, through every step.
LEMMA PipeStep == LogInv /\ [Next]_vars => Sound' /\ LinesWhole'
<1> SUFFICES ASSUME LogInv, [Next]_vars PROVE Sound' /\ LinesWhole'
  OBVIOUS
<1>0. Sound /\ (InLoop => mutexValid) /\ TypeOK /\ Exclusion /\ LinesWhole
  BY DEF LogInv, Sound, InLoop, Exclusion
<1>a. ASSUME log' = log PROVE LinesWhole'
  BY <1>0, <1>a DEF LinesWhole
<1> USE LogAssumption DEF TypeOK, Exclusion, InSection, InLoop, Stuck, OwnerAt
<1>1. ASSUME NEW s \in Senders, SenderFinishes(s) PROVE Sound' /\ LinesWhole'
  BY <1>0, <1>1, <1>a, PipeUntouched DEF SenderFinishes, SenderMoves
<1>2. ASSUME NEW s \in Senders, SenderLocks(s) PROVE Sound' /\ LinesWhole'
  <2> SUFFICES Framing' /\ (InLoop' => Balance' /\ Expectation')
    BY <1>2, <1>a DEF Sound, SenderLocks
  <2>1. /\ mutex = Nobody /\ mutex' = s /\ spc' = [spc EXCEPT ![s] = "len"]
        /\ cont' = cont + 1 /\ UNCHANGED <<pipe, lpc, lenRead>>
    BY <1>2 DEF SenderLocks, SenderMoves
  <2>2. Framing /\ FirstText' = FirstText
    BY <1>0, <2>1 DEF Sound, FirstText
  <2>3. Framing'
    BY <1>0, <2>1, <2>2 DEF Framing
  <2>4. ASSUME InLoop' PROVE Balance' /\ Expectation'
    <3>1. Balance /\ Expectation /\ lpc # "text"
      BY <1>0, <2>1, <2>4 DEF Sound
    <3>2. Balance'
      BY <1>0, <2>1, <3>1 DEF Balance
    <3>3. Expectation'
      BY <1>0, <2>1, <3>1 DEF Expectation
    <3> QED
      BY <3>2, <3>3
  <2> QED
    BY <2>3, <2>4
<1>3. ASSUME NEW s \in Senders, SenderLockFails(s) PROVE Sound' /\ LinesWhole'
  BY <1>0, <1>3, <1>a, PipeUntouched DEF SenderLockFails, SenderMoves
<1>4. ASSUME NEW s \in Senders, SenderWrites(s) PROVE Sound' /\ LinesWhole'
  BY <1>4, <1>a, WriteKeepsPipe DEF SenderWrites
<1>5. ASSUME NEW s \in Senders, SenderHitsBrokenPipe(s) PROVE Sound' /\ LinesWhole'
  BY <1>0, <1>5, <1>a, PipeUntouched DEF SenderHitsBrokenPipe, ProcessDies, ServerDies
<1>6. ASSUME NEW s \in Senders, SenderWriteFails(s) PROVE Sound' /\ LinesWhole'
  BY <1>0, <1>6, <1>a, PipeUntouched DEF SenderWriteFails, SenderMoves
<1>7. ASSUME NEW s \in Senders, SenderSignals(s) PROVE Sound' /\ LinesWhole'
  BY <1>0, <1>7, <1>a, PipeUntouched DEF SenderSignals, SenderMoves
<1>8. ASSUME NEW s \in Senders, SenderUnlocks(s) PROVE Sound' /\ LinesWhole'
  BY <1>0, <1>8, <1>a, PipeUntouched DEF SenderUnlocks, SenderMoves
<1>9. ASSUME NEW s \in Senders, ChildKilled(s) PROVE Sound' /\ LinesWhole'
  BY <1>0, <1>9, <1>a, PipeUntouched DEF ChildKilled
<1>10. CASE LoggerStarts
  BY <1>0, <1>10, <1>a, PipeUntouched DEF LoggerStarts, LoggerMoves
<1>11. CASE LoggerLocks
  BY <1>0, <1>11, <1>a, PipeUntouched DEF LoggerLocks, LoggerMoves
<1>12. CASE LoggerWaits
  BY <1>0, <1>12, <1>a, PipeUntouched DEF LoggerWaits, LoggerMoves
<1>13. CASE LoggerWakesSpuriously
  BY <1>0, <1>13, <1>a, PipeUntouched DEF LoggerWakesSpuriously, LoggerMoves
<1>14. CASE LoggerReadsLength
  BY <1>14, <1>a, ReadKeepsPipe DEF LoggerReadsLength
<1>15. CASE LoggerWritesLine
  BY <1>15, ReadKeepsPipe
<1>16. CASE LoggerDrained
  BY <1>0, <1>16, <1>a, PipeUntouched DEF LoggerDrained, LoggerMoves
<1>17. CASE LoggerFails
  BY <1>0, <1>17, <1>a, PipeUntouched DEF LoggerFails, LoggerMoves
<1>18. CASE LoggerExits
  BY <1>0, <1>18, <1>a, PipeUntouched
     DEF LoggerExits, LoggerExitUnlocks, LoggerExitDestroys, LoggerExitCloses, LoggerMoves
<1>19. CASE LoggerTerminated
  BY <1>0, <1>19, <1>a, PipeUntouched DEF LoggerTerminated
<1>20. CASE ServerStep
  BY <1>0, <1>20, <1>a, PipeUntouched
     DEF ServerStep, CloseAllKillsLogger, CloseAllClosesPipe, CloseAllExits, ServerFails
<1>21. CASE UNCHANGED vars
  BY <1>0, <1>21, <1>a, PipeUntouched DEF vars
<1> QED
  BY <1>1, <1>2, <1>3, <1>4, <1>5, <1>6, <1>7, <1>8, <1>9, <1>10, <1>11,
     <1>12, <1>13, <1>14, <1>15, <1>16, <1>17, <1>18, <1>19, <1>20, <1>21
     DEF Next, SenderStep, LoggerStep

\* A sender only moves on from where it has announced its record.
LEMMA AnnouncedForGood ==
    ASSUME LogInv, [Next]_vars, NEW s \in Senders, Announced(s)
    PROVE  Announced(s)'
<1> USE LogAssumption DEF LogInv, TypeOK, Announced, PastText, SenderMoves
<1>1. CASE spc' = spc
  BY <1>1
<1>2. ASSUME NEW t \in Senders, SenderFinishes(t) \/ SenderStep(t) \/ ChildKilled(t)
      PROVE  Announced(s)'
  BY <1>2 DEF SenderFinishes, SenderStep, SenderLocks, SenderLockFails, SenderWrites,
              SenderHitsBrokenPipe, ProcessDies, SenderWriteFails, SenderSignals,
              SenderUnlocks, ChildKilled
<1>3. \/ spc' = spc
      \/ \E t \in Senders : SenderFinishes(t) \/ SenderStep(t) \/ ChildKilled(t)
  BY DEF vars, Next, LoggerStep, LoggerStarts, LoggerLocks, LoggerWaits,
         LoggerWakesSpuriously, LoggerReadsLength, LoggerWritesLine, LoggerDrained,
         LoggerFails, LoggerExits, LoggerExitUnlocks, LoggerExitDestroys,
         LoggerExitCloses, LoggerTerminated, ServerStep, CloseAllKillsLogger,
         CloseAllClosesPipe, CloseAllExits, ServerFails
<1> QED
  BY <1>1, <1>2, <1>3

\* What a step does to the pipe and the file: it writes one message, takes one
\* from the front, or leaves both alone.
LEMMA PipeMoves ==
    ASSUME [Next]_vars
    PROVE  \/ UNCHANGED <<pipe, log>>
           \/ \E s \in Senders : SenderWrites(s)
           \/ LoggerReadsLength
           \/ LoggerWritesLine
BY DEF vars, Next, SenderStep, SenderFinishes, SenderLocks, SenderLockFails,
       SenderHitsBrokenPipe, SenderWriteFails, SenderSignals, SenderUnlocks,
       ChildKilled, LoggerStep, LoggerStarts, LoggerLocks, LoggerWaits,
       LoggerWakesSpuriously, LoggerDrained, LoggerFails, LoggerExits,
       LoggerExitUnlocks, LoggerExitDestroys, LoggerExitCloses, LoggerTerminated,
       ServerStep, CloseAllKillsLogger, CloseAllClosesPipe, CloseAllExits, ServerFails

\* A record is announced by the second write() of its sender, and by nothing else.
LEMMA OneEachStep == LogInv /\ [Next]_vars => OneEach'
<1> SUFFICES ASSUME LogInv, [Next]_vars PROVE OneEach'
  OBVIOUS
<1>0. TypeOK /\ OneEach
  BY DEF LogInv
<1>1. \A s \in Senders : Announced(s) => Announced(s)'
  BY AnnouncedForGood
<1>2. /\ Len(log) \in Nat /\ \A i \in 1..Len(log) : log[i] \in Line
      /\ Len(pipe) \in Nat /\ \A i \in 1..Len(pipe) : pipe[i] \in Message
  BY <1>0, LenProperties, ElementOfSeq DEF TypeOK
<1>3. /\ \A i \in 1..Len(log) : spc'[log[i].text.rec] \in PastText
      /\ \A i \in 1..Len(pipe) : pipe[i].kind = "text" => spc'[pipe[i].rec] \in PastText
  BY <1>0, <1>1, <1>2 DEF OneEach, Announced, Line, Message
<1>4. CASE UNCHANGED <<pipe, log>>
  BY <1>3, <1>4 DEF OneEach, Announced
<1>5. ASSUME NEW s \in Senders, SenderWrites(s) PROVE OneEach'
  <2> DEFINE m == [kind |-> spc[s], rec |-> s]
  <2>1. /\ spc[s] \in {"len", "text"} /\ m \in Message
        /\ pipe' = Append(pipe, m) /\ log' = log
        /\ m.kind = "text" => spc'[s] \in PastText
    BY <1>0, <1>5 DEF SenderWrites, SenderMoves, Message, PastText, TypeOK
  <2>2. /\ Len(pipe') = Len(pipe) + 1 /\ pipe'[Len(pipe) + 1] = m
        /\ \A i \in 1..Len(pipe) : pipe'[i] = pipe[i]
    BY <1>0, <2>1, AppendProperties DEF TypeOK
  <2>3. \A i \in 1..Len(pipe') : pipe'[i].kind = "text" => spc'[pipe'[i].rec] \in PastText
    BY <1>2, <1>3, <2>1, <2>2
  <2> QED
    BY <1>3, <2>1, <2>3 DEF OneEach, Announced
<1>6. ASSUME LoggerReadsLength \/ LoggerWritesLine PROVE OneEach'
  <2>1. pipe # <<>> /\ pipe' = Tail(pipe)
    BY <1>6 DEF LoggerReadsLength, LoggerWritesLine
  <2>2. /\ Len(pipe') = Len(pipe) - 1 /\ Len(pipe) > 0
        /\ \A i \in 1..(Len(pipe) - 1) : pipe'[i] = pipe[i + 1]
        /\ Head(pipe) = pipe[1]
    BY <1>0, <2>1, HeadTailProperties, EmptySeq DEF TypeOK
  <2>3. \A i \in 1..Len(pipe') : pipe'[i].kind = "text" => spc'[pipe'[i].rec] \in PastText
    <3> SUFFICES ASSUME NEW i \in 1..(Len(pipe) - 1)
                 PROVE  pipe'[i].kind = "text" => spc'[pipe'[i].rec] \in PastText
      BY <2>2
    <3>1. i + 1 \in 1..Len(pipe) /\ pipe'[i] = pipe[i + 1]
      BY <1>2, <2>2
    <3> QED
      BY <1>3, <3>1
  <2>4. \A i \in 1..Len(log') : spc'[log'[i].text.rec] \in PastText
    <3>1. CASE log' = log
      BY <1>3, <3>1
    <3>2. CASE LoggerWritesLine
      <4>1. /\ lpc = "text" /\ mutexValid /\ mutex = Logger
            /\ log' = Append(log, [len |-> lenRead, text |-> pipe[1]])
        BY <2>2, <3>2 DEF LoggerWritesLine, LoggerMoves, LogInv, Exclusion
      <4>2. Expectation
        BY <4>1, LogAssumption DEF LogInv, InLoop, Stuck
      <4>3. pipe[1].kind = "text" /\ pipe[1] \in Message /\ spc'[pipe[1].rec] \in PastText
        BY <1>2, <1>3, <2>2, <4>1, <4>2 DEF Expectation
      <4>4. lenRead \in Message
        BY <1>0, <4>1, <4>2 DEF Expectation, TypeOK, NoMessage
      <4>5. [len |-> lenRead, text |-> pipe[1]] \in Line
        BY <4>3, <4>4 DEF Line
      <4>6. /\ Len(log') = Len(log) + 1
            /\ log'[Len(log) + 1] = [len |-> lenRead, text |-> pipe[1]]
            /\ \A i \in 1..Len(log) : log'[i] = log[i]
        BY <1>0, <4>1, <4>5, AppendProperties DEF TypeOK
      <4> QED
        BY <1>2, <1>3, <4>3, <4>6
    <3> QED
      BY <1>6, <3>1, <3>2 DEF LoggerReadsLength
  <2> QED
    BY <2>3, <2>4 DEF OneEach, Announced
<1> QED
  BY <1>4, <1>5, <1>6, PipeMoves

\* LogInv is an invariant of the log pipe under every failure of Spec.
THEOREM Inductive == Spec => []LogInv
<1>1. Init => LogInv
  <2> SUFFICES ASSUME Init PROVE LogInv
    OBVIOUS
  <2> USE LogAssumption DEF Init
  <2>1. TypeOK
    <3>1. pipe \in Seq(Message) /\ log \in Seq(Line)
      BY EmptySeq
    <3> QED
      BY <3>1 DEF TypeOK, SenderPc, LoggerPc
  <2>2. Exclusion
    BY DEF Exclusion, InSection
  <2>3. Balance /\ Framing /\ Expectation
    BY DEF Balance, Framing, Expectation, OwnerAt
  <2>4. LinesWhole
    BY DEF LinesWhole
  <2>5. Awakening
    BY DEF Awakening, OwnerAt
  <2> QED
    BY <2>1, <2>2, <2>3, <2>4, <2>5 DEF LogInv, OneEach
<1>2. LogInv /\ [Next]_vars => LogInv'
  BY TypeStep, ExclusionStep, AwakeningStep, PipeStep, OneEachStep DEF LogInv, Sound
<1> QED
  BY <1>1, <1>2, PTL DEF Spec

\* The type invariant, for every set of senders and every pipe.
THEOREM TypeCorrect == Spec => []TypeOK
BY Inductive, PTL DEF LogInv

\* No line of sacagawea.log mixes two records, whoever dies or blocks.
THEOREM LinesAreWhole == Spec => []LinesWhole
BY Inductive, PTL DEF LogInv

\* The log process never blocks in read() with the mutex held.
THEOREM ReaderIsFed == Spec => []ReaderNeverStarves
<1>1. LogInv => ReaderNeverStarves
  <2> SUFFICES ASSUME LogInv, lpc \in {"drain", "text"} PROVE ReaderNeverStarves
    BY DEF ReaderNeverStarves
  <2> USE LogAssumption DEF LogInv, TypeOK
  <2>1. mutex = Logger
    BY DEF Exclusion
  <2>2. Balance
    BY <2>1 DEF InLoop, Stuck
  <2>3. Len(pipe) \in Nat /\ ~OwnerAt("len") /\ ~OwnerAt("text")
    BY <2>1, LenProperties DEF OwnerAt
  <2> QED
    BY <2>2, <2>3 DEF Balance, ReaderNeverStarves
<1> QED
  BY <1>1, Inductive, PTL

\* After its first sleep the log process never sleeps on a record whose
\* signal has been spent.
THEOREM NoWakeupLost == Spec => []NoLostWakeup
<1>1. LogInv => NoLostWakeup
  BY DEF LogInv, Awakening, NoLostWakeup
<1> QED
  BY <1>1, Inductive, PTL

\* The mutex is destroyed only when no sender is between lock and unlock.
THEOREM DestroyIsSafe == Spec => NeverDestroyedUnderSender
<1> DEFINE A == mutexValid /\ ~mutexValid' =>
                  \A s \in Senders : spc[s] \notin {"len", "text", "signal", "unlock"}
<1>1. LogInv /\ [Next]_vars => [A]_vars
  <2> SUFFICES ASSUME LogInv, Next, mutexValid, ~mutexValid',
                      NEW s \in Senders
               PROVE  spc[s] \notin {"len", "text", "signal", "unlock"}
    OBVIOUS
  <2>1. LoggerExitDestroys
    BY DEF Next, SenderStep, SenderFinishes, SenderLocks, SenderLockFails,
           SenderWrites, SenderHitsBrokenPipe, SenderWriteFails, SenderSignals,
           SenderUnlocks, ChildKilled, LoggerStep, LoggerStarts, LoggerLocks,
           LoggerWaits, LoggerWakesSpuriously, LoggerReadsLength,
           LoggerWritesLine, LoggerDrained, LoggerFails, LoggerExits,
           LoggerExitUnlocks, LoggerExitCloses, LoggerTerminated, ServerStep,
           CloseAllKillsLogger, CloseAllClosesPipe, CloseAllExits, ServerFails
  <2>2. mutex = Nobody
    BY <2>1, LogAssumption DEF LoggerExitDestroys
  <2> QED
    BY <2>2, LogAssumption DEF LogInv, Exclusion, InSection
<1> QED
  BY <1>1, Inductive, PTL DEF Spec, NeverDestroyedUnderSender
-----------------------------------------------------------------------------
(* The refinement: under the mapping of Channel every step of SacaLog is a *)
(* step of LogChannel, or changes nothing of it.                           *)

\* How many texts there are among n messages of which the k-th is the first, and
\* where they are.
LEMMA Counting ==
    ASSUME NEW n \in Nat, NEW k \in {1, 2}
    PROVE  /\ (n + 2 - k) \div 2 \in Nat
           /\ \A i \in 1..((n + 2 - k) \div 2) : 2 * i + k - 2 \in 1..n
           /\ (n + k) % 2 = 0 => (n + 1 + 2 - k) \div 2 = (n + 2 - k) \div 2
           /\ (n + k) % 2 # 0 =>
                /\ (n + 1 + 2 - k) \div 2 = (n + 2 - k) \div 2 + 1
                /\ 2 * ((n + 2 - k) \div 2 + 1) + k - 2 = n + 1
OBVIOUS

\* A function on 1..n is a sequence of length n.
LEMMA FunctionIsSeq ==
    ASSUME NEW S, NEW n \in Nat, NEW f \in [1..n -> S]
    PROVE  f \in Seq(S) /\ Len(f) = n
<1>1. f \in Seq(S)
  BY SeqDef
<1>2. DOMAIN f = 1..n /\ DOMAIN f = 1..Len(f) /\ Len(f) \in Nat
  BY <1>1, LenProperties
<1> QED
  BY <1>1, <1>2

\* A concatenation, point by point, in terms of the lengths of its parts.
LEMMA ConcatPoints ==
    ASSUME NEW S, NEW a \in Seq(S), NEW b \in Seq(S), NEW m, NEW n,
           Len(a) = m, Len(b) = n
    PROVE  /\ Len(a \o b) = m + n
           /\ \A i \in 1..(m + n) : (a \o b)[i] = IF i <= m THEN a[i] ELSE b[i - m]
BY ConcatProperties

\* A sequence is its first element in front of the others.
LEMMA FirstInFront ==
    ASSUME NEW S, NEW a \in Seq(S), NEW b \in Seq(S), NEW r \in S, NEW m \in Nat,
           Len(a) = m + 1, Len(b) = m,
           a[1] = r, \A i \in 1..m : a[i + 1] = b[i]
    PROVE  a = <<r>> \o b
<1>1. <<r>> \in Seq(S) /\ Len(<<r>>) = 1 /\ <<r>>[1] = r
  OBVIOUS
<1>2. /\ <<r>> \o b \in Seq(S) /\ Len(<<r>> \o b) = 1 + m
      /\ \A i \in 1..(1 + m) : (<<r>> \o b)[i] = IF i <= 1 THEN <<r>>[i] ELSE b[i - 1]
  BY <1>1, ConcatProperties
<1>3. ASSUME NEW i \in 1..(m + 1) PROVE a[i] = (<<r>> \o b)[i]
  <2>1. CASE i = 1
    BY <1>1, <1>2, <2>1
  <2>2. CASE i > 1
    <3>1. i - 1 \in 1..m /\ (i - 1) + 1 = i /\ i \in 1..(1 + m) /\ ~(i <= 1)
      BY <2>2
    <3>2. a[i] = b[i - 1]
      BY <3>1
    <3> QED
      BY <1>2, <3>1, <3>2
  <2> QED
    BY <2>1, <2>2
<1> QED
  BY <1>2, <1>3, SeqEqual

\* The records of a file l, and those of a pipe p whose k-th message is its first
\* text, are sequences of senders.
LEMMA RecordsOf ==
    ASSUME NEW l \in Seq(Line), NEW p \in Seq(Message), NEW k \in {1, 2}
    PROVE  LET n == (Len(p) + 2 - k) \div 2
               logged == [i \in 1..Len(l) |-> l[i].text.rec]
               piped == [i \in 1..n |-> p[2 * i + k - 2].rec]
           IN  /\ logged \in Seq(Senders) /\ Len(logged) = Len(l)
               /\ n \in Nat
               /\ \A i \in 1..n : 2 * i + k - 2 \in 1..Len(p)
               /\ piped \in Seq(Senders) /\ Len(piped) = n
<1> DEFINE n == (Len(p) + 2 - k) \div 2
           logged == [i \in 1..Len(l) |-> l[i].text.rec]
           piped == [i \in 1..n |-> p[2 * i + k - 2].rec]
<1>1. /\ Len(l) \in Nat /\ \A i \in 1..Len(l) : l[i] \in Line
      /\ Len(p) \in Nat /\ \A i \in 1..Len(p) : p[i] \in Message
  BY LenProperties, ElementOfSeq
<1>2. logged \in [1..Len(l) -> Senders]
  BY <1>1 DEF Line, Message
<1>3. n \in Nat /\ \A i \in 1..n : 2 * i + k - 2 \in 1..Len(p)
  BY <1>1, Counting
<1> HIDE DEF n
<1>4. piped \in [1..n -> Senders]
  BY <1>1, <1>3 DEF Message
<1> HIDE DEF logged, piped
<1>5. logged \in Seq(Senders) /\ Len(logged) = Len(l) /\ piped \in Seq(Senders) /\ Len(piped) = n
  BY <1>1, <1>2, <1>3, <1>4, FunctionIsSeq
<1> QED
  BY <1>3, <1>5 DEF n, logged, piped

LEMMA RecordTypes ==
    ASSUME TypeOK
    PROVE  /\ LoggedRecords \in Seq(Senders) /\ Len(LoggedRecords) = Len(log)
           /\ FirstText \in {1, 2}
           /\ TextCount \in Nat
           /\ \A i \in 1..TextCount : 2 * i + FirstText - 2 \in 1..Len(pipe)
           /\ PipedRecords \in Seq(Senders) /\ Len(PipedRecords) = TextCount
<1>1. log \in Seq(Line) /\ pipe \in Seq(Message) /\ FirstText \in {1, 2}
  BY DEF TypeOK, FirstText
<1> QED
  BY <1>1, RecordsOf DEF LoggedRecords, TextCount, PipedRecords

\* The same of the next state.
LEMMA RecordTypesNext ==
    ASSUME TypeOK'
    PROVE  /\ LoggedRecords' \in Seq(Senders) /\ Len(LoggedRecords') = Len(log')
           /\ TextCount' \in Nat
           /\ \A i \in 1..TextCount' : 2 * i + FirstText' - 2 \in 1..Len(pipe')
           /\ PipedRecords' \in Seq(Senders) /\ Len(PipedRecords') = TextCount'
<1>1. log' \in Seq(Line) /\ pipe' \in Seq(Message) /\ FirstText' \in {1, 2}
  BY DEF TypeOK, FirstText
<1> QED
  BY <1>1, RecordsOf DEF LoggedRecords, TextCount, PipedRecords

\* The first write() of a sender announces nothing, the second one its record.
LEMMA WriteRefines ==
    ASSUME LogInv, TypeOK', NEW s \in Senders, SenderWrites(s)
    PROVE  Channel!Announce(s) \/ UNCHANGED Channel!vars
<1> DEFINE m == [kind |-> spc[s], rec |-> s]
           n == Len(pipe)
<1>1. TypeOK /\ OneEach
  BY DEF LogInv
<1>2. /\ spc[s] \in {"len", "text"} /\ m \in Message
      /\ pipe' = Append(pipe, m) /\ log' = log /\ n \in Nat
  BY <1>1, LenProperties DEF SenderWrites, SenderMoves, Message, TypeOK
<1>3. /\ Len(pipe') = n + 1 /\ pipe'[n + 1] = m
      /\ \A i \in 1..n : pipe'[i] = pipe[i]
  BY <1>1, <1>2, AppendProperties DEF TypeOK
<1>4. mutex = s /\ Framing /\ FirstText' = FirstText
  BY WriteKeepsPipe
<1>5. LoggedRecords' = LoggedRecords
  BY <1>2 DEF LoggedRecords
<1>6. /\ FirstText \in {1, 2} /\ TextCount \in Nat
      /\ \A i \in 1..TextCount : 2 * i + FirstText - 2 \in 1..n
      /\ LoggedRecords \in Seq(Senders) /\ Len(LoggedRecords) = Len(log)
      /\ PipedRecords \in Seq(Senders) /\ Len(PipedRecords) = TextCount
      /\ PipedRecords' \in Seq(Senders) /\ Len(PipedRecords') = TextCount'
  BY <1>1, RecordTypes, RecordTypesNext
<1>7. \A i \in 1..TextCount : pipe'[2 * i + FirstText' - 2].rec = pipe[2 * i + FirstText - 2].rec
  BY <1>3, <1>4, <1>6
<1>8. OwnerAt("text") <=> spc[s] = "text"
  BY <1>4 DEF OwnerAt
<1>9. CASE spc[s] = "len"
  <2>1. n > 0 => (n + FirstText) % 2 = 0
    <3> SUFFICES ASSUME n > 0 PROVE (n + FirstText) % 2 = 0
      OBVIOUS
    <3>1. n \in 1..n /\ pipe[n].kind = "text"
      BY <1>2, <1>4, <1>8, <1>9 DEF Framing
    <3> QED
      BY <1>4, <3>1 DEF Framing
  <2>2. n = 0 => FirstText = 2
    BY <1>1, EmptySeq DEF FirstText, TypeOK
  <2>3. (n + FirstText) % 2 = 0
    BY <2>1, <2>2, <1>2
  <2>4. TextCount' = TextCount
    BY <1>2, <1>3, <1>4, <1>6, <2>3, Counting DEF TextCount
  <2>5. PipedRecords' = PipedRecords
    BY <1>7, <2>4 DEF PipedRecords
  <2> QED
    BY <1>5, <2>5 DEF Channel!vars
<1>10. CASE spc[s] = "text"
  <2>1. n > 0 /\ pipe[n].kind = "len"
    BY <1>4, <1>8, <1>10 DEF Framing
  <2>2. (n + FirstText) % 2 # 0
    <3>1. n \in 1..n
      BY <1>2, <2>1
    <3> QED
      BY <1>4, <2>1, <3>1 DEF Framing
  <2>3. TextCount' = TextCount + 1 /\ 2 * (TextCount + 1) + FirstText - 2 = n + 1
    BY <1>2, <1>3, <1>4, <1>6, <2>2, Counting DEF TextCount
  <2>4. /\ PipedRecords'[TextCount + 1] = s
        /\ \A i \in 1..TextCount : PipedRecords'[i] = PipedRecords[i]
    BY <1>3, <1>4, <1>6, <1>7, <2>3 DEF PipedRecords
  <2>5. PipedRecords' = Append(PipedRecords, s)
    <3>1. /\ Append(PipedRecords, s) \in Seq(Senders)
          /\ Len(Append(PipedRecords, s)) = TextCount + 1
          /\ \A i \in 1..TextCount : Append(PipedRecords, s)[i] = PipedRecords[i]
          /\ Append(PipedRecords, s)[TextCount + 1] = s
      BY <1>6, AppendProperties
    <3>2. \A i \in 1..(TextCount + 1) : PipedRecords'[i] = Append(PipedRecords, s)[i]
      BY <1>6, <2>4, <3>1
    <3> QED
      BY <1>6, <2>3, <3>1, <3>2, SeqEqual
  <2>6. LoggedRecords' \o PipedRecords' = Append(LoggedRecords \o PipedRecords, s)
    <3>1. /\ PipedRecords' = PipedRecords \o <<s>> /\ <<s>> \in Seq(Senders)
          /\ LoggedRecords \o PipedRecords \in Seq(Senders)
      BY <1>6, <2>5, AppendIsConcat, ConcatProperties
    <3>2. LoggedRecords \o (PipedRecords \o <<s>>) = (LoggedRecords \o PipedRecords) \o <<s>>
      BY <1>6, <3>1, ConcatAssociative
    <3> QED
      BY <1>5, <3>1, <3>2, AppendIsConcat
  <2>7. ASSUME NEW i \in 1..Len(LoggedRecords \o PipedRecords)
        PROVE  (LoggedRecords \o PipedRecords)[i] # s
    <3>1. ~Announced(s)
      BY <1>10 DEF Announced, PastText
    <3>2. \A j \in 1..Len(log) : LoggedRecords[j] # s
      BY <1>1, <3>1 DEF LoggedRecords, OneEach
    <3>3. \A j \in 1..TextCount : PipedRecords[j] # s
      <4> SUFFICES ASSUME NEW j \in 1..TextCount
                   PROVE  pipe[2 * j + FirstText - 2].rec # s
        BY DEF PipedRecords
      <4>1. /\ 2 * j + FirstText - 2 \in 1..n
            /\ (2 * j + FirstText - 2 + FirstText) % 2 = 0
        BY <1>6
      <4>2. pipe[2 * j + FirstText - 2].kind = "text"
        BY <1>4, <4>1 DEF Framing
      <4> QED
        BY <1>1, <3>1, <4>1, <4>2 DEF OneEach
    <3>4. /\ Len(LoggedRecords \o PipedRecords) = Len(log) + TextCount
          /\ \A j \in 1..(Len(log) + TextCount) : (LoggedRecords \o PipedRecords)[j] =
                IF j <= Len(log) THEN LoggedRecords[j] ELSE PipedRecords[j - Len(log)]
      BY <1>6, ConcatPoints
    <3>5. Len(log) \in Nat
      BY <1>1, LenProperties DEF TypeOK
    <3> QED
      BY <1>6, <3>2, <3>3, <3>4, <3>5
  <2> QED
    BY <1>5, <2>6, <2>7 DEF Channel!Announce
<1> QED
  BY <1>2, <1>9, <1>10

\* Taking a length changes nothing that the channel promises.
LEMMA LengthRefines ==
    ASSUME LogInv, LoggerReadsLength
    PROVE  UNCHANGED Channel!vars
<1> DEFINE n == Len(pipe)
<1>1. TypeOK
  BY DEF LogInv
<1>2. FirstText = 2 /\ FirstText' = 1
  BY ReadKeepsPipe
<1>3. /\ Len(pipe') = n - 1 /\ n \in Nat /\ n > 0 /\ log' = log
      /\ \A i \in 1..(n - 1) : pipe'[i] = pipe[i + 1]
  BY <1>1, HeadTailProperties, LenProperties, EmptySeq DEF LoggerReadsLength, TypeOK
<1>4. TextCount = n \div 2 /\ TextCount' = n \div 2
  BY <1>2, <1>3 DEF TextCount
<1>5. \A i \in 1..(n \div 2) : 2 * i \in 1..n
  BY <1>3
<1>6. \A i \in 1..(n \div 2) : pipe'[2 * i + FirstText' - 2] = pipe[2 * i + FirstText - 2]
  <2> SUFFICES ASSUME NEW i \in 1..(n \div 2) PROVE pipe'[2 * i - 1] = pipe[2 * i]
    BY <1>2
  <2>1. 2 * i - 1 \in 1..(n - 1) /\ 2 * i - 1 + 1 = 2 * i
    BY <1>3, <1>5
  <2> QED
    BY <1>3, <2>1
<1>7. PipedRecords' = PipedRecords
  BY <1>4, <1>6 DEF PipedRecords
<1> QED
  BY <1>3, <1>7 DEF Channel!vars, LoggedRecords

\* Writing a line delivers the first record of those that are on the way.
LEMMA LineRefines ==
    ASSUME LogInv, TypeOK', LoggerWritesLine
    PROVE  Channel!Deliver
<1> DEFINE n == Len(pipe)
           r == pipe[1].rec
<1>1. TypeOK
  BY DEF LogInv
<1>2. FirstText = 1 /\ FirstText' = 2
  BY ReadKeepsPipe
<1>3. /\ Len(pipe') = n - 1 /\ n \in Nat /\ n > 0 /\ Head(pipe) = pipe[1]
      /\ \A i \in 1..(n - 1) : pipe'[i] = pipe[i + 1]
  BY <1>1, HeadTailProperties, LenProperties, EmptySeq DEF LoggerWritesLine, TypeOK
<1>4. pipe[1] \in Message /\ r \in Senders
  <2>1. 1 \in 1..Len(pipe) /\ pipe \in Seq(Message)
    BY <1>1, <1>3 DEF TypeOK
  <2>2. pipe[1] \in Message
    BY <2>1, ElementOfSeq
  <2> QED
    BY <2>2 DEF Message
<1>5. /\ LoggedRecords \in Seq(Senders) /\ Len(LoggedRecords) = Len(log)
      /\ LoggedRecords' \in Seq(Senders) /\ Len(LoggedRecords') = Len(log')
      /\ TextCount \in Nat /\ TextCount' \in Nat
      /\ PipedRecords \in Seq(Senders) /\ Len(PipedRecords) = TextCount
      /\ PipedRecords' \in Seq(Senders) /\ Len(PipedRecords') = TextCount'
  BY <1>1, RecordTypes, RecordTypesNext
<1>6. PICK m \in Nat : TextCount = m + 1 /\ TextCount' = m
  <2>1. TextCount = (n + 1) \div 2 /\ TextCount' = (n - 1) \div 2
    BY <1>2, <1>3 DEF TextCount
  <2>2. (n - 1) \div 2 \in Nat /\ (n + 1) \div 2 = (n - 1) \div 2 + 1
    BY <1>3
  <2> QED
    BY <2>1, <2>2
<1>7. PipedRecords[1] = r /\ PipedRecords = <<r>> \o PipedRecords'
  <2>1. PipedRecords = [i \in 1..(m + 1) |-> pipe[2 * i - 1].rec]
    BY <1>2, <1>6 DEF PipedRecords
  <2>2. PipedRecords' = [i \in 1..m |-> pipe'[2 * i].rec]
    BY <1>2, <1>6 DEF PipedRecords
  <2>3. PipedRecords[1] = r
    <3>1. 1 \in 1..(m + 1) /\ 2 * 1 - 1 = 1
      OBVIOUS
    <3> QED
      BY <2>1, <3>1
  <2>4. \A i \in 1..m : 2 * i \in 1..(n - 1)
    BY <1>2, <1>3, <1>6, RecordTypesNext
  <2>5. ASSUME NEW i \in 1..m PROVE PipedRecords[i + 1] = PipedRecords'[i]
    <3>1. i + 1 \in 1..(m + 1) /\ 2 * (i + 1) - 1 = 2 * i + 1
      OBVIOUS
    <3>2. pipe'[2 * i] = pipe[2 * i + 1]
      BY <1>3, <2>4
    <3> QED
      BY <2>1, <2>2, <3>1, <3>2
  <2> QED
    BY <1>4, <1>5, <1>6, <2>3, <2>5, FirstInFront
<1>8. LoggedRecords' = Append(LoggedRecords, r)
  <2>1. /\ log' = Append(log, [len |-> lenRead, text |-> pipe[1]])
        /\ lpc = "text" /\ mutexValid /\ mutex = Logger
    BY <1>3 DEF LoggerWritesLine, LoggerMoves, LogInv, Exclusion
  <2>2. lenRead \in Message
    BY <1>1, <2>1, LogAssumption DEF LogInv, InLoop, Stuck, Expectation, TypeOK, NoMessage
  <2>3. [len |-> lenRead, text |-> pipe[1]] \in Line
    BY <1>4, <2>2 DEF Line
  <2>4. /\ Len(log') = Len(log) + 1 /\ Len(log) \in Nat
        /\ log'[Len(log) + 1].text = pipe[1]
        /\ \A i \in 1..Len(log) : log'[i] = log[i]
    BY <1>1, <2>1, <2>3, AppendProperties, LenProperties DEF TypeOK
  <2>5. /\ LoggedRecords'[Len(log) + 1] = r
        /\ \A i \in 1..Len(log) : LoggedRecords'[i] = LoggedRecords[i]
    BY <2>4 DEF LoggedRecords
  <2>6. /\ Append(LoggedRecords, r) \in Seq(Senders)
        /\ Len(Append(LoggedRecords, r)) = Len(log) + 1
        /\ \A i \in 1..Len(log) : Append(LoggedRecords, r)[i] = LoggedRecords[i]
        /\ Append(LoggedRecords, r)[Len(log) + 1] = r
    BY <1>4, <1>5, AppendProperties
  <2>7. \A i \in 1..(Len(log) + 1) : LoggedRecords'[i] = Append(LoggedRecords, r)[i]
    BY <2>4, <2>5, <2>6
  <2> QED
    BY <1>5, <2>4, <2>6, <2>7, SeqEqual
<1>9. LoggedRecords' \o PipedRecords' = LoggedRecords \o PipedRecords
  <2>1. LoggedRecords' = LoggedRecords \o <<r>> /\ <<r>> \in Seq(Senders)
    BY <1>4, <1>5, <1>8, AppendIsConcat
  <2>2. (LoggedRecords \o <<r>>) \o PipedRecords' = LoggedRecords \o (<<r>> \o PipedRecords')
    BY <1>5, <2>1, ConcatAssociative
  <2> QED
    BY <1>7, <2>1, <2>2
<1>10. /\ Len(LoggedRecords) < Len(LoggedRecords \o PipedRecords)
       /\ (LoggedRecords \o PipedRecords)[Len(LoggedRecords) + 1] = r
  <2>1. Len(log) \in Nat
    BY <1>1, LenProperties DEF TypeOK
  <2>2. /\ Len(LoggedRecords \o PipedRecords) = Len(log) + (m + 1)
        /\ \A i \in 1..(Len(log) + (m + 1)) : (LoggedRecords \o PipedRecords)[i] =
              IF i <= Len(log) THEN LoggedRecords[i] ELSE PipedRecords[i - Len(log)]
    BY <1>5, <1>6, ConcatPoints
  <2>3. Len(log) + 1 \in 1..(Len(log) + (m + 1)) /\ ~(Len(log) + 1 <= Len(log))
        /\ Len(log) + 1 - Len(log) = 1
    BY <2>1
  <2>4. (LoggedRecords \o PipedRecords)[Len(log) + 1] = PipedRecords[1]
    BY <2>2, <2>3
  <2> QED
    BY <1>5, <1>7, <2>1, <2>2, <2>4
<1> QED
  BY <1>8, <1>9, <1>10 DEF Channel!Deliver

\* Whatever fails or is killed, sacagawea.log is a prefix of what the senders
\* announced, in their order (log.c:63-91, gopher.c:399-440).
THEOREM RefinesChannel == Spec => ChannelSpec
<1>1. Init => Channel!Init
  <2> SUFFICES ASSUME Init PROVE LoggedRecords \o PipedRecords = <<>> /\ LoggedRecords = <<>>
    BY DEF Channel!Init
  <2>1. TextCount = 0
    BY DEF Init, TextCount, FirstText
  <2>2. LoggedRecords = <<>> /\ PipedRecords = <<>>
    BY <2>1 DEF Init, LoggedRecords, PipedRecords
  <2> QED
    BY <2>2, EmptySeq, ConcatEmptySeq
<1>2. LogInv /\ LogInv' /\ [Next]_vars => [Channel!Next]_(Channel!vars)
  <2> SUFFICES ASSUME LogInv, TypeOK', [Next]_vars
               PROVE  Channel!Next \/ UNCHANGED Channel!vars
    BY DEF LogInv
  <2>1. CASE UNCHANGED <<pipe, log>>
    BY <2>1 DEF Channel!vars, LoggedRecords, PipedRecords, TextCount, FirstText
  <2>2. ASSUME NEW s \in Senders, SenderWrites(s)
        PROVE  Channel!Next \/ UNCHANGED Channel!vars
    BY <2>2, WriteRefines DEF Channel!Next
  <2>3. CASE LoggerReadsLength
    BY <2>3, LengthRefines
  <2>4. CASE LoggerWritesLine
    BY <2>4, LineRefines DEF Channel!Next
  <2> QED
    BY <2>1, <2>2, <2>3, <2>4, PipeMoves
<1> QED
  BY <1>1, <1>2, Inductive, PTL DEF Spec, ChannelSpec, Channel!Spec
=============================================================================
