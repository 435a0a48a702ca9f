---------------------------- MODULE SacaConfProof ----------------------------
(***************************************************************************)
(* The settings for all files and options: proofs about SacaConf.          *)
(***************************************************************************)
EXTENDS SacaConf, SequenceTheorems, TLAPS

\* settings is the struct settings_t and nothing else.
IsSettings(r) ==
    r = [port |-> r.port, mode |-> r.mode, home |-> r.home, host |-> r.host]

\* What holds between the flag, the port and the socket while the file is read:
\* as long as no line has changed the port, it is the one the socket has.
ConfInv ==
    /\ IsSettings(settings)
    /\ pc = "running" => bound = settings.port % 65536
    /\ pc = "reloading" =>
         /\ bound = before % 65536
         /\ ~changed => settings.port = before

\* ConfInv holds at start-up and through every step.
THEOREM ConfInductive == Spec => []ConfInv
<1>1. Init => ConfInv
  BY DEF Init, ConfInv, IsSettings
<1>2. ConfInv /\ [Next]_vars => ConfInv'
  <2> SUFFICES ASSUME ConfInv, [Next]_vars PROVE ConfInv'
    OBVIOUS
  <2> USE DEF ConfInv, IsSettings
  <2>1. CASE StartUp
    <3>1. settings' = settings /\ changed' = FALSE /\ pc' \in {"starting", "dead"}
      BY <2>1 DEF StartUp, Opens
    <3> QED
      BY <3>1
  <2>2. CASE Sighup
    <3>1. /\ settings' = settings /\ changed' = FALSE /\ bound' = bound
          /\ before' = settings.port /\ pc' \in {"reloading", "dead"}
          /\ bound = settings.port % 65536
      BY <2>2 DEF Sighup, Opens
    <3>2. bound' = before' % 65536 /\ settings'.port = before'
      BY <3>1
    <3>3. IsSettings(settings')
      BY <3>1
    <3> QED
      BY <3>1, <3>2, <3>3
  <2>3. CASE ReadLine
    <3>1. pc' = pc /\ bound' = bound /\ before' = before /\ pc # "running"
      BY <2>3 DEF ReadLine
    <3>2. IsSettings(settings')
      BY <2>3 DEF ReadLine, SettingsAfter
    <3>3. ASSUME pc = "reloading", ~changed' PROVE settings'.port = before
      <4>1. ~changed /\ ~PortChanges(Head(rest), settings.port)
        BY <2>3, <3>3 DEF ReadLine
      <4>2. settings' = [settings EXCEPT !.port = settings.port]
        BY <2>3, <3>3, <4>1 DEF ReadLine, SettingsAfter, PortAfter
      <4> QED
        BY <3>3, <4>1, <4>2
    <3> QED
      BY <3>1, <3>2, <3>3
  <2>4. CASE FatalLine
    BY <2>4 DEF FatalLine
  <2>5. CASE EndOfFile
    BY <2>5 DEF EndOfFile
  <2>6. CASE OptionP
    BY <2>6 DEF OptionP
  <2>7. CASE OptionMode
    BY <2>7 DEF OptionMode
  <2>8. CASE OptionUnknown
    BY <2>8 DEF OptionUnknown
  <2>9. CASE OptionsEnd
    BY <2>9 DEF OptionsEnd, Binds
  <2>10. CASE Switch
    BY <2>10 DEF Switch, Binds
  <2>11. CASE UNCHANGED vars
    BY <2>11 DEF vars
  <2> QED
    BY <2>1, <2>2, <2>3, <2>4, <2>5, <2>6, <2>7, <2>8, <2>9, <2>10, <2>11 DEF Next
<1> QED
  BY <1>1, <1>2, PTL DEF Spec

\* read_and_check_conf never misses a change: a running server is bound to the
\* port of its settings, whatever the files and the options were.
THEOREM SocketFollows == Spec => []SocketFollowsSettings
<1>1. ConfInv => SocketFollowsSettings
  BY DEF ConfInv, SocketFollowsSettings
<1> QED
  BY <1>1, ConfInductive, PTL

\* No reload touches a setting other than the port.
THEOREM RestKept == Spec => ReloadKeepsTheRest
<1> DEFINE A == (pc \in {"running", "reloading", "switch"}) =>
                  settings' = [settings EXCEPT !.port = settings'.port]
<1>1. ConfInv /\ [Next]_vars => [A]_vars
  <2> SUFFICES ASSUME ConfInv, Next, pc \in {"running", "reloading", "switch"}
               PROVE  settings' = [settings EXCEPT !.port = settings'.port]
    OBVIOUS
  <2> USE DEF ConfInv, IsSettings
  <2>1. CASE settings' = settings
    BY <2>1
  <2>2. CASE ReadLine
    BY <2>2 DEF ReadLine, SettingsAfter
  <2>3. settings' = settings \/ ReadLine
    BY DEF Next, StartUp, Sighup, Opens, FatalLine, EndOfFile, OptionP,
           OptionMode, OptionUnknown, OptionsEnd, Binds, Switch
  <2> QED
    BY <2>1, <2>2, <2>3
<1> QED
  BY <1>1, ConfInductive, PTL DEF Spec, ReloadKeepsTheRest
-----------------------------------------------------------------------------
(* The types, and what part of the file has been read.                     *)

Ports == OptionPorts \cup PortNumbers
HostNames == {Name} \cup {l.host : l \in {k \in Lines : "host" \in DOMAIN k}}

SettingsType == [port : Ports, mode : {"t", "p"}, home : Dirs \cup {Cwd}, host : HostNames]

\* left is what has not been read of all.
FileOK(all, left) ==
    /\ all \in Files \cup {<<>>}
    /\ all \in Seq(Lines) /\ left \in Seq(Lines)
    /\ Len(left) <= Len(all)

ConfTypes ==
    /\ pc \in {"begin", "starting", "options", "running", "reloading", "switch", "dead"}
    /\ changed \in BOOLEAN
    /\ FileOK(opened, rest)
    /\ settings \in SettingsType

LEMMA PortsHas == OptionPorts \subseteq Ports /\ PortNumbers \subseteq Ports
BY DEF Ports

\* A line of the file, in front of those not read yet.
LEMMA FirstLine ==
    ASSUME NEW left \in Seq(Lines), left # <<>>
    PROVE  /\ Head(left) \in Lines /\ IsLine(Head(left)) /\ Head(left) = left[1]
           /\ Tail(left) \in Seq(Lines) /\ Len(left) \in Nat /\ Len(left) > 0
           /\ Len(Tail(left)) = Len(left) - 1
           /\ \A j \in 1..(Len(left) - 1) : Tail(left)[j] = left[j + 1]
<1>1. Len(left) \in Nat /\ Len(left) # 0
  BY EmptySeq, LenProperties
<1>2. Head(left) \in Lines /\ Tail(left) \in Seq(Lines)
  BY HeadTailProperties
<1>3. Len(Tail(left)) = Len(left) - 1 /\ \A j \in 1..Len(Tail(left)) : Tail(left)[j] = left[j + 1]
  BY HeadTailProperties
<1>4. Head(left) = left[1]
  OBVIOUS
<1>5. IsLine(Head(left))
  BY <1>2, ConfAssumption DEF ConfAssumption
<1> QED
  BY <1>1, <1>2, <1>3, <1>4, <1>5

LEMMA ConfTypesHold == Spec => []ConfTypes
<1>1. Init => ConfTypes
  <2> SUFFICES ASSUME Init PROVE ConfTypes
    OBVIOUS
  <2>1. settings \in SettingsType
    BY ConfAssumption DEF Init, SettingsType, Ports, HostNames, ConfAssumption
  <2>2. <<>> \in Seq(Lines) /\ Len(<<>>) = 0
    OBVIOUS
  <2>3. FileOK(opened, rest)
    BY <2>2 DEF Init, FileOK
  <2> QED
    BY <2>1, <2>3 DEF Init, ConfTypes
<1>2. ConfTypes /\ [Next]_vars => ConfTypes'
  <2> SUFFICES ASSUME ConfTypes, [Next]_vars PROVE ConfTypes'
    OBVIOUS
  <2>1. CASE StartUp \/ Sighup
    <3>1. PICK to \in {"starting", "reloading"} : Opens(to)
      BY <2>1 DEF StartUp, Sighup
    <3>2. /\ settings' = settings /\ changed' = FALSE /\ pc' \in {"starting", "reloading", "dead"}
          /\ \/ opened' \in Files /\ rest' = opened'
             \/ UNCHANGED <<opened, rest>>
      BY <3>1 DEF Opens
    <3>3. ASSUME NEW f \in Files PROVE FileOK(f, f)
      <4>1. f \in Seq(Lines)
        BY ConfAssumption DEF ConfAssumption
      <4>2. Len(f) \in Nat
        BY <4>1, LenProperties
      <4> QED
        BY <4>1, <4>2 DEF FileOK
    <3>4. FileOK(opened', rest')
      BY <3>2, <3>3 DEF ConfTypes
    <3> QED
      BY <3>2, <3>4 DEF ConfTypes
  <2>2. CASE ReadLine
    <3> DEFINE l == Head(rest)
    <3>1. /\ rest # <<>> /\ ~EndsProgram(l) /\ settings' = SettingsAfter(l)
          /\ changed' = IF PortChanges(l, settings.port) THEN TRUE ELSE changed
          /\ rest' = Tail(rest) /\ UNCHANGED <<pc, opened>>
      BY <2>2 DEF ReadLine
    <3>2. l \in Lines /\ IsLine(l) /\ FileOK(opened', rest')
      <4>1. rest \in Seq(Lines) /\ opened \in Seq(Lines) /\ Len(rest) <= Len(opened)
        BY DEF ConfTypes, FileOK
      <4>2. l \in Lines /\ IsLine(l) /\ Tail(rest) \in Seq(Lines) /\ Len(rest) \in Nat
            /\ Len(Tail(rest)) = Len(rest) - 1
        BY <3>1, <4>1, FirstLine
      <4>3. Len(opened) \in Nat
        BY <4>1, LenProperties
      <4>4. Len(Tail(rest)) <= Len(opened)
        BY <4>1, <4>2, <4>3
      <4> QED
        BY <3>1, <4>1, <4>2, <4>4 DEF ConfTypes, FileOK
    <3> HIDE DEF l
    <3>3. settings \in SettingsType /\ l \in Lines
      BY <3>1, <3>2 DEF ConfTypes
    <3>4. "home" \in DOMAIN l /\ pc = "starting" => l.home \in Dirs
      BY <3>1 DEF EndsProgram
    <3>5. "mode" \in DOMAIN l => l.mode \in {"t", "p"}
      BY <3>2 DEF IsLine
    <3>6. settings' \in SettingsType
      <4>1. PortAfter(l, settings.port) \in Ports
        <5>1. settings.port \in Ports
          BY <3>3 DEF SettingsType
        <5>2. PortChanges(l, settings.port) => FiveDigits[l.port] \in Ports
          BY PortsHas DEF PortChanges, AcceptablePort, IsPortNumber
        <5>3. PortAfter(l, settings.port) \in {FiveDigits[l.port], settings.port}
              /\ (~PortChanges(l, settings.port) => PortAfter(l, settings.port) = settings.port)
          BY DEF PortAfter
        <5> QED
          BY <5>1, <5>2, <5>3
      <4>2. "host" \in DOMAIN l => l.host \in HostNames
        BY <3>3 DEF HostNames
      <4>3. CASE settings' = [settings EXCEPT !.mode = l.mode] /\ "mode" \in DOMAIN l
        BY <4>3, <3>3, <3>5 DEF SettingsType
      <4>4. CASE settings' = [settings EXCEPT !.home = l.home] /\ l.home \in Dirs
        BY <4>4, <3>3 DEF SettingsType
      <4>5. CASE settings' = [settings EXCEPT !.host = l.host] /\ "host" \in DOMAIN l
        BY <4>5, <3>3, <4>2 DEF SettingsType
      <4>6. CASE settings' = [settings EXCEPT !.port = PortAfter(l, settings.port)]
        <5> DEFINE n == PortAfter(l, settings.port)
        <5>1. n \in Ports /\ settings' = [settings EXCEPT !.port = n]
          BY <4>1, <4>6
        <5> HIDE DEF n
        <5> QED
          BY <5>1, <3>3 DEF SettingsType
      <4> QED
        BY <3>1, <3>4, <4>3, <4>4, <4>5, <4>6 DEF SettingsAfter
    <3>7. changed' \in BOOLEAN
      BY <3>1 DEF ConfTypes
    <3> QED
      BY <3>1, <3>2, <3>6, <3>7 DEF ConfTypes
  <2>3. CASE OptionP \/ OptionMode
    <3>1. UNCHANGED <<pc, rest, changed, opened>>
      BY <2>3 DEF OptionP, OptionMode
    <3>2. settings' \in SettingsType
      <4>1. settings \in SettingsType
        BY DEF ConfTypes
      <4>2. CASE OptionP
        <5>1. PICK n \in OptionPorts : settings' = [settings EXCEPT !.port = n]
          BY <4>2 DEF OptionP
        <5>2. n \in Ports
          BY PortsHas
        <5> QED
          BY <4>1, <5>1, <5>2 DEF SettingsType
      <4>3. CASE OptionMode
        <5>1. PICK m \in {"t", "p"} : settings' = [settings EXCEPT !.mode = m]
          BY <4>3 DEF OptionMode
        <5> QED
          BY <4>1, <5>1 DEF SettingsType
      <4> QED
        BY <2>3, <4>2, <4>3
    <3> QED
      BY <3>1, <3>2 DEF ConfTypes
  <2>4. CASE FatalLine \/ EndOfFile \/ OptionUnknown \/ OptionsEnd \/ Switch \/ UNCHANGED vars
    <3>1. /\ UNCHANGED <<rest, settings, changed, opened>>
          /\ pc' \in {pc, "dead", "options", "switch", "running"}
      BY <2>4 DEF FatalLine, EndOfFile, OptionUnknown, OptionsEnd, Switch, vars
    <3> QED
      BY <3>1 DEF ConfTypes
  <2> QED
    BY <2>1, <2>2, <2>3, <2>4 DEF Next
<1> QED
  BY <1>1, <1>2, PTL DEF Spec

\* A port comes from -P, or fits in 16 bits (config.c:98-107); the home directory
\* is one that could be opened.
THEOREM TypeCorrect == Spec => []TypeOK
<1>1. ConfTypes => TypeOK
  <2> SUFFICES ASSUME ConfTypes PROVE TypeOK
    OBVIOUS
  <2>1. opened \in Files \cup {<<>>} /\ Len(rest) <= Len(opened)
    BY DEF ConfTypes, FileOK
  <2>2. /\ settings.port \in OptionPorts \cup PortNumbers
        /\ settings.mode \in {"t", "p"} /\ settings.home \in Dirs \cup {Cwd}
    <3>1. settings.port \in Ports
      BY DEF ConfTypes, SettingsType
    <3>2. settings.mode \in {"t", "p"} /\ settings.home \in Dirs \cup {Cwd}
      BY DEF ConfTypes, SettingsType
    <3> QED
      BY <3>1, <3>2 DEF Ports
  <2>3. /\ pc \in {"begin", "starting", "options", "running", "reloading", "switch", "dead"}
        /\ changed \in BOOLEAN
    BY DEF ConfTypes
  <2> QED
    BY <2>1, <2>2, <2>3 DEF TypeOK
<1> QED
  BY <1>1, ConfTypesHold, PTL
-----------------------------------------------------------------------------
(* The file as a whole against the file line by line.                      *)

\* The acceptable port lines among the first n.
Upto(lines, n) == {i \in PortLinesOf(lines) : i <= n}

ChangesUpto(lines, n, port) ==
    \E i \in Upto(lines, n) : FiveDigits[lines[i].port] # port

\* now is the port after n lines.
DecidesUpto(lines, n, port, now) ==
    \/ Upto(lines, n) = {} /\ now = port
    \/ \E i \in Upto(lines, n) :
          /\ \A j \in Upto(lines, n) : j <= i
          /\ now = FiveDigits[lines[i].port]

LinesRead == Len(opened) - Len(rest)

\* While the file is read: rest is what follows the lines read, and the port and
\* the flag are what those lines say by themselves.
ReadInv ==
    pc \in {"starting", "reloading", "switch"} =>
        /\ \A j \in 1..Len(rest) : rest[j] = opened[LinesRead + j]
        /\ changed <=> ChangesUpto(opened, LinesRead, before)
        /\ DecidesUpto(opened, LinesRead, before, settings.port)

\* Nothing is read at first.
LEMMA UptoNone ==
    ASSUME NEW lines \in Seq(Lines), NEW port
    PROVE  DecidesUpto(lines, 0, port, port) /\ ~ChangesUpto(lines, 0, port)
<1>1. Upto(lines, 0) = {}
  BY LenProperties DEF Upto, PortLinesOf
<1> QED
  BY <1>1 DEF DecidesUpto, ChangesUpto

LEMMA UptoNext ==
    ASSUME NEW lines \in Seq(Lines), NEW n \in Nat, n < Len(lines)
    PROVE  Upto(lines, n + 1) = IF AcceptablePort(lines[n + 1])
                                THEN Upto(lines, n) \cup {n + 1} ELSE Upto(lines, n)
<1>1. Len(lines) \in Nat
  BY LenProperties
<1>2. ASSUME NEW i \in 1..Len(lines) PROVE i <= n + 1 <=> i <= n \/ i = n + 1
  BY <1>1
<1> QED
  BY <1>1, <1>2 DEF Upto, PortLinesOf

\* One line more: compared with the port the lines above it have left, it has the
\* effect that the file so far has as a whole.
LEMMA UptoLine ==
    ASSUME NEW lines \in Seq(Lines), NEW n \in Nat, n < Len(lines),
           NEW port, NEW now, DecidesUpto(lines, n, port, now)
    PROVE  /\ DecidesUpto(lines, n + 1, port, PortAfter(lines[n + 1], now))
           /\ ChangesUpto(lines, n + 1, port) <=>
                \/ ChangesUpto(lines, n, port)
                \/ PortChanges(lines[n + 1], now)
<1> DEFINE l == lines[n + 1]
           d == FiveDigits[l.port]
<1>1. CASE ~AcceptablePort(l)
  <2>1. Upto(lines, n + 1) = Upto(lines, n)
    BY <1>1, UptoNext
  <2>2. ~PortChanges(l, now) /\ PortAfter(l, now) = now
    BY <1>1 DEF PortChanges, PortAfter
  <2> QED
    BY <2>1, <2>2 DEF DecidesUpto, ChangesUpto
<1>2. CASE AcceptablePort(l)
  <2>1. Upto(lines, n + 1) = Upto(lines, n) \cup {n + 1}
    BY <1>2, UptoNext
  <2>2. \A j \in Upto(lines, n) : j \in Nat /\ j <= n
    BY LenProperties DEF Upto, PortLinesOf
  <2>3. PortAfter(l, now) = d /\ (PortChanges(l, now) <=> d # now)
    BY <1>2 DEF PortAfter, PortChanges
  <2>4. DecidesUpto(lines, n + 1, port, d)
    <3>1. n + 1 \in Upto(lines, n + 1) /\ \A j \in Upto(lines, n + 1) : j <= n + 1
      BY <2>1, <2>2
    <3> QED
      BY <3>1 DEF DecidesUpto
  <2>5. ChangesUpto(lines, n + 1, port) <=> ChangesUpto(lines, n, port) \/ d # port
    BY <2>1 DEF ChangesUpto
  <2>6. ChangesUpto(lines, n, port) \/ now = port
    BY DEF DecidesUpto, ChangesUpto
  <2>7. ChangesUpto(lines, n + 1, port) <=> ChangesUpto(lines, n, port) \/ d # now
    BY <2>5, <2>6
  <2> QED
    BY <2>3, <2>4, <2>7
<1> QED
  BY <1>1, <1>2

\* All lines read, it is the file that decides.
LEMMA UptoAll ==
    ASSUME NEW lines \in Seq(Lines), NEW port, NEW now,
           DecidesUpto(lines, Len(lines), port, now)
    PROVE  /\ now = FilePort(lines, port)
           /\ ChangesUpto(lines, Len(lines), port) <=> FileChanges(lines, port)
<1>1. Upto(lines, Len(lines)) = PortLinesOf(lines)
  BY LenProperties DEF Upto, PortLinesOf
<1>2. \A i \in PortLinesOf(lines) : i \in Nat
  BY LenProperties DEF PortLinesOf
<1>3. now = FilePort(lines, port)
  <2>1. CASE PortLinesOf(lines) = {}
    BY <1>1, <2>1 DEF DecidesUpto, FilePort
  <2>2. CASE PortLinesOf(lines) # {}
    <3>1. PICK i \in PortLinesOf(lines) :
             IsLastOf(lines, i) /\ now = FiveDigits[lines[i].port]
      BY <1>1, <2>2 DEF DecidesUpto, IsLastOf
    <3> DEFINE k == CHOOSE m \in PortLinesOf(lines) : IsLastOf(lines, m)
    <3>2. k \in PortLinesOf(lines) /\ IsLastOf(lines, k)
      BY <3>1
    <3>3. FilePort(lines, port) = FiveDigits[lines[k].port]
      BY <3>1 DEF FilePort
    <3> HIDE DEF k
    <3>4. k = i
      BY <1>2, <3>1, <3>2 DEF IsLastOf
    <3> QED
      BY <3>1, <3>3, <3>4
  <2> QED
    BY <2>1, <2>2
<1>4. ChangesUpto(lines, Len(lines), port) <=> FileChanges(lines, port)
  BY <1>1 DEF ChangesUpto, FileChanges
<1> QED
  BY <1>3, <1>4

LEMMA ReadInvHolds == Spec => []ReadInv
<1>1. Init => ReadInv
  BY DEF Init, ReadInv
<1>2. ConfTypes /\ ReadInv /\ [Next]_vars => ReadInv'
  <2> SUFFICES ASSUME ConfTypes, ReadInv, [Next]_vars PROVE ReadInv'
    OBVIOUS
  <2>0. /\ opened \in Seq(Lines) /\ rest \in Seq(Lines) /\ Len(opened) \in Nat
        /\ Len(rest) \in Nat /\ Len(rest) <= Len(opened)
    BY LenProperties DEF ConfTypes, FileOK
  <2>1. CASE StartUp \/ Sighup
    <3>1. PICK to \in {"starting", "reloading"} : Opens(to)
      BY <2>1 DEF StartUp, Sighup
    <3>2. CASE pc' = "dead"
      BY <3>2 DEF ReadInv
    <3>3. CASE pc' # "dead"
      <4>1. /\ opened' \in Files /\ rest' = opened' /\ changed' = FALSE
            /\ before' = settings.port /\ settings' = settings
        BY <3>1, <3>3 DEF Opens
      <4>2. opened' \in Seq(Lines) /\ Len(opened') \in Nat
        BY <4>1, LenProperties, ConfAssumption DEF ConfAssumption
      <4>3. LinesRead' = 0
        BY <4>1, <4>2 DEF LinesRead
      <4>4. \A j \in 1..Len(rest') : rest'[j] = opened'[LinesRead' + j]
        BY <4>1, <4>2, <4>3
      <4>5. /\ DecidesUpto(opened', LinesRead', before', settings'.port)
            /\ ~ChangesUpto(opened', LinesRead', before')
        BY <4>1, <4>2, <4>3, UptoNone
      <4> QED
        BY <4>1, <4>4, <4>5 DEF ReadInv
    <3> QED
      BY <3>2, <3>3
  <2>2. CASE ReadLine
    <3> DEFINE l == Head(rest)
               n == LinesRead
    <3>1. /\ rest # <<>> /\ settings' = SettingsAfter(l)
          /\ changed' = IF PortChanges(l, settings.port) THEN TRUE ELSE changed
          /\ rest' = Tail(rest) /\ UNCHANGED <<pc, before, opened>>
          /\ pc \in {"starting", "reloading"}
      BY <2>2 DEF ReadLine
    <3>2. /\ IsLine(l) /\ l = rest[1] /\ Len(rest) > 0
          /\ Len(rest') = Len(rest) - 1
          /\ \A j \in 1..(Len(rest) - 1) : rest'[j] = rest[j + 1]
      BY <2>0, <3>1, FirstLine
    <3>3. n \in Nat /\ n < Len(opened) /\ LinesRead' = n + 1 /\ Len(rest') \in Nat
      BY <2>0, <3>1, <3>2 DEF LinesRead
    <3>4. /\ \A j \in 1..Len(rest) : rest[j] = opened[n + j]
          /\ changed <=> ChangesUpto(opened, n, before)
          /\ DecidesUpto(opened, n, before, settings.port)
      BY <3>1 DEF ReadInv
    <3> HIDE DEF n
    <3>5. l = opened[n + 1]
      BY <2>0, <3>2, <3>4
    <3>6. \A j \in 1..Len(rest') : rest'[j] = opened'[(n + 1) + j]
      <4> SUFFICES ASSUME NEW j \in 1..Len(rest') PROVE rest'[j] = opened'[(n + 1) + j]
        OBVIOUS
      <4>1. j \in 1..(Len(rest) - 1) /\ j + 1 \in 1..Len(rest) /\ n + (j + 1) = (n + 1) + j
        BY <2>0, <3>2, <3>3
      <4> QED
        BY <3>1, <3>2, <3>4, <4>1
    <3>7. settings'.port = PortAfter(l, settings.port)
      BY <3>1, <3>2 DEF SettingsAfter, IsLine, PortAfter, PortChanges, AcceptablePort,
                        IsPort, ConfTypes, SettingsType
    <3>8. /\ DecidesUpto(opened, n + 1, before, settings'.port)
          /\ ChangesUpto(opened, n + 1, before) <=>
               ChangesUpto(opened, n, before) \/ PortChanges(l, settings.port)
      BY <2>0, <3>3, <3>4, <3>5, <3>7, UptoLine
    <3>9. changed' <=> ChangesUpto(opened, n + 1, before)
      BY <3>1, <3>4, <3>8
    <3> QED
      BY <3>1, <3>3, <3>6, <3>8, <3>9 DEF ReadInv
  <2>3. CASE EndOfFile \/ FatalLine \/ UNCHANGED vars
    <3>1. /\ UNCHANGED <<rest, settings, changed, before, opened>>
          /\ pc' \in {"starting", "reloading", "switch"} =>
               pc \in {"starting", "reloading", "switch"}
      BY <2>3 DEF EndOfFile, FatalLine, vars
    <3> QED
      BY <3>1 DEF ReadInv, LinesRead
  <2>4. CASE OptionP \/ OptionMode \/ OptionUnknown \/ OptionsEnd \/ Switch
    <3>1. pc' \in {"options", "dead", "running"}
      BY <2>4 DEF OptionP, OptionMode, OptionUnknown, OptionsEnd, Switch
    <3> QED
      BY <3>1 DEF ReadInv
  <2> QED
    BY <2>1, <2>2, <2>3, <2>4 DEF Next
<1> QED
  BY <1>1, <1>2, ConfTypesHold, PTL DEF Spec

\* read_and_check_conf, which compares each line with the port the lines above it
\* have left (config.c:226-260), sets the port of the last acceptable port line and
\* reports a change when some port line differs from the old port, for files of any
\* length.
THEOREM FileHasItsSay == Spec => []FileDecides
<1>1. ConfTypes /\ ReadInv => FileDecides
  <2> SUFFICES ASSUME ConfTypes, ReadInv, pc \in {"starting", "reloading", "switch"},
                      rest = <<>>
               PROVE  settings.port = FilePort(opened, before)
                      /\ changed = FileChanges(opened, before)
    BY DEF FileDecides
  <2>1. opened \in Seq(Lines) /\ Len(opened) \in Nat /\ changed \in BOOLEAN
    BY LenProperties DEF ConfTypes, FileOK
  <2>2. LinesRead = Len(opened)
    BY <2>1 DEF LinesRead
  <2>3. /\ changed <=> ChangesUpto(opened, Len(opened), before)
        /\ DecidesUpto(opened, Len(opened), before, settings.port)
    BY <2>2 DEF ReadInv
  <2>4. /\ settings.port = FilePort(opened, before)
        /\ changed <=> FileChanges(opened, before)
    BY <2>1, <2>3, UptoAll
  <2> QED
    BY <2>1, <2>4 DEF FileChanges
<1> QED
  BY <1>1, ConfTypesHold, ReadInvHolds, PTL
=============================================================================
