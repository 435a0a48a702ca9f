--------------------------- MODULE RequestTextProof ---------------------------
(***************************************************************************)
(* The text of a request, for every text: proofs about RequestText.        *)
(***************************************************************************)
EXTENDS RequestText, SequenceTheorems, WellFoundedInduction, TLAPS

-----------------------------------------------------------------------------
(* The request line.                                                       *)

\* The bytes that a recv() adds continue those that are there, as the stream does.
LEMMA Prefix ==
    ASSUME NEW C, NEW buf \in Seq(C), NEW inbox \in Seq(C), NEW k \in 1 .. Len(inbox)
    PROVE  LET all == buf \o SubSeq(inbox, 1, k)
               stream == buf \o inbox
           IN  /\ all \in Seq(C) /\ Len(all) = Len(buf) + k
               /\ stream \in Seq(C) /\ Len(stream) = Len(buf) + Len(inbox)
               /\ \A i \in 1 .. Len(buf) : all[i] = buf[i]
               /\ \A i \in 1 .. Len(all) : all[i] = stream[i]
<1> DEFINE part == SubSeq(inbox, 1, k)
           all == buf \o part
           stream == buf \o inbox
<1>0. Len(buf) \in Nat /\ Len(inbox) \in Nat /\ k \in Nat /\ k <= Len(inbox) /\ 1 <= k
  BY LenProperties
<1>1. \A i \in 1 .. k : inbox[i] \in C
  BY <1>0, ElementOfSeq
<1>2. part \in Seq(C) /\ Len(part) = k /\ \A i \in 1 .. k : part[i] = inbox[i]
  <2>1. /\ part \in Seq(C)
        /\ Len(part) = IF 1 <= k THEN k - 1 + 1 ELSE 0
        /\ \A i \in 1 .. k - 1 + 1 : part[i] = inbox[1 + i - 1]
    BY <1>0, <1>1, SubSeqProperties
  <2> HIDE DEF part
  <2>2. Len(part) = k
    BY <1>0, <2>1
  <2>3. ASSUME NEW i \in 1 .. k PROVE part[i] = inbox[i]
    <3>1. i \in 1 .. k - 1 + 1 /\ 1 + i - 1 = i
      BY <1>0
    <3> QED
      BY <2>1, <3>1
  <2> QED
    BY <2>1, <2>2, <2>3
<1> HIDE DEF part
<1>3. /\ all \in Seq(C) /\ Len(all) = Len(buf) + k
      /\ \A i \in 1 .. Len(buf) + k : all[i] = IF i <= Len(buf) THEN buf[i] ELSE part[i - Len(buf)]
  BY <1>2, ConcatProperties
<1>4. /\ stream \in Seq(C) /\ Len(stream) = Len(buf) + Len(inbox)
      /\ \A i \in 1 .. Len(buf) + Len(inbox) :
            stream[i] = IF i <= Len(buf) THEN buf[i] ELSE inbox[i - Len(buf)]
  BY ConcatProperties
<1> HIDE DEF all, stream
<1>5. \A i \in 1 .. Len(buf) : all[i] = buf[i]
  BY <1>0, <1>3
<1>6. ASSUME NEW i \in 1 .. Len(all) PROVE all[i] = stream[i]
  <2>1. i \in 1 .. Len(buf) + k /\ i \in 1 .. Len(buf) + Len(inbox)
    BY <1>0, <1>3
  <2>2. CASE i <= Len(buf)
    BY <1>3, <1>4, <2>1, <2>2
  <2>3. CASE ~(i <= Len(buf))
    <3>1. i - Len(buf) \in 1 .. k
      BY <1>0, <2>1, <2>3
    <3> QED
      BY <1>2, <1>3, <1>4, <2>1, <2>3, <3>1
  <2> QED
    BY <2>2, <2>3
<1> QED
  BY <1>3, <1>4, <1>5, <1>6 DEF all, stream, part

\* When no line ends in what was read before, the scan that goes on behind it finds
\* the ends of lines of all that is read, and the first of them is the stream's.
LEMMA CutAnywhere ==
    ASSUME NEW C, NEW buf \in Seq(C), NEW inbox \in Seq(C), NEW k \in 1 .. Len(inbox),
           LineEnds(buf) = {}
    PROVE  LET all == buf \o SubSeq(inbox, 1, k)
           IN  /\ Scanned(all, Len(buf)) = LineEnds(all)
               /\ \A i \in LineEnds(all) :
                     (\A j \in LineEnds(all) : i <= j) =>
                        /\ LineUpTo(all, i) = FirstLine(buf \o inbox)
                        /\ LineUpTo(all, i) \in Seq(C)
                        /\ Len(LineUpTo(all, i)) = i - 2
<1> DEFINE all == buf \o SubSeq(inbox, 1, k)
           stream == buf \o inbox
<1>0. /\ all \in Seq(C) /\ stream \in Seq(C) /\ Len(buf) \in Nat
      /\ Len(all) \in Nat /\ Len(stream) \in Nat
      /\ Len(buf) <= Len(all) /\ Len(all) <= Len(stream)
      /\ \A i \in 1 .. Len(buf) : all[i] = buf[i]
      /\ \A i \in 1 .. Len(all) : all[i] = stream[i]
  <2>1. Len(buf) \in Nat /\ Len(inbox) \in Nat /\ k \in Nat /\ k <= Len(inbox)
    BY LenProperties
  <2> QED
    BY <2>1, Prefix
<1> HIDE DEF all, stream
<1>1. \A i \in 1 .. Len(buf) : ~LineEndsAt(all, i)
  <2> SUFFICES ASSUME NEW i \in 1 .. Len(buf), LineEndsAt(all, i) PROVE FALSE
    OBVIOUS
  <2>1. i > 1 /\ i - 1 \in 1 .. Len(buf)
    BY <1>0 DEF LineEndsAt
  <2>2. LineEndsAt(buf, i)
    BY <1>0, <2>1 DEF LineEndsAt
  <2> QED
    BY <2>2 DEF LineEnds
<1>2. Scanned(all, Len(buf)) = LineEnds(all)
  BY <1>0, <1>1 DEF Scanned, LineEnds
<1>3. \A i \in 1 .. Len(all) : LineEndsAt(all, i) <=> LineEndsAt(stream, i)
  <2> SUFFICES ASSUME NEW i \in 1 .. Len(all), i > 1
               PROVE  all[i - 1] = stream[i - 1] /\ all[i] = stream[i]
    BY DEF LineEndsAt
  <2>1. i - 1 \in 1 .. Len(all)
    BY <1>0
  <2> QED
    BY <1>0, <2>1
<1>4. ASSUME NEW i \in LineEnds(all), \A j \in LineEnds(all) : i <= j
      PROVE  /\ LineUpTo(all, i) = FirstLine(stream)
             /\ LineUpTo(all, i) \in Seq(C) /\ Len(LineUpTo(all, i)) = i - 2
  <2>1. i \in 2 .. Len(all)
    BY <1>0 DEF LineEnds, LineEndsAt
  <2>2. i \in LineEnds(stream)
    BY <1>0, <1>3, <2>1 DEF LineEnds
  <2>3. \A j \in LineEnds(stream) : i <= j
    <3> SUFFICES ASSUME NEW j \in LineEnds(stream), j < i PROVE FALSE
      BY <2>1 DEF LineEnds
    <3>1. j \in 1 .. Len(all)
      BY <1>0, <2>1 DEF LineEnds
    <3>2. j \in LineEnds(all)
      BY <1>3, <3>1 DEF LineEnds
    <3> QED
      BY <1>4, <2>1, <3>1, <3>2
  <2>4. FirstLine(stream) = LineUpTo(stream, i)
    <3> DEFINE c == CHOOSE m \in LineEnds(stream) : \A j \in LineEnds(stream) : m <= j
    <3>1. c \in LineEnds(stream) /\ \A j \in LineEnds(stream) : c <= j
      BY <2>2, <2>3
    <3>2. FirstLine(stream) = LineUpTo(stream, c)
      BY <2>2 DEF FirstLine
    <3> HIDE DEF c
    <3>3. c = i
      BY <2>1, <2>2, <2>3, <3>1 DEF LineEnds
    <3> QED
      BY <3>2, <3>3
  <2>5. LineUpTo(all, i) = LineUpTo(stream, i) /\ LineUpTo(all, i) \in Seq(C)
        /\ Len(LineUpTo(all, i)) = i - 2
    <3> DEFINE s == SubSeq(all, 1, i - 2)
               t == SubSeq(stream, 1, i - 2)
    <3>1. i - 2 \in Int /\ (i - 2) - 1 + 1 = i - 2 /\ \A n \in 1 .. i - 2 : n \in 1 .. Len(all) /\ 1 + n - 1 = n
      BY <1>0, <2>1
    <3>2. \A n \in 1 .. i - 2 : all[n] \in C /\ stream[n] \in C /\ all[n] = stream[n]
      BY <1>0, <3>1, ElementOfSeq
    <3>3. /\ s \in Seq(C) /\ Len(s) = (IF 1 <= i - 2 THEN (i - 2) - 1 + 1 ELSE 0)
          /\ \A n \in 1 .. (i - 2) - 1 + 1 : s[n] = all[1 + n - 1]
      BY <3>1, <3>2, SubSeqProperties
    <3>4. /\ t \in Seq(C) /\ Len(t) = (IF 1 <= i - 2 THEN (i - 2) - 1 + 1 ELSE 0)
          /\ \A n \in 1 .. (i - 2) - 1 + 1 : t[n] = stream[1 + n - 1]
      BY <3>1, <3>2, SubSeqProperties
    <3> HIDE DEF s, t
    <3>5. Len(s) = i - 2 /\ Len(t) = i - 2
      BY <2>1, <3>3, <3>4
    <3>6. \A n \in 1 .. Len(s) : s[n] = t[n]
      BY <3>1, <3>2, <3>3, <3>4, <3>5
    <3>7. s = t
      BY <3>3, <3>4, <3>5, <3>6, SeqEqual
    <3> QED
      BY <3>3, <3>5, <3>7 DEF s, t, LineUpTo
  <2> QED
    BY <2>4, <2>5
<1> QED
  BY <1>2, <1>4 DEF all, stream

-----------------------------------------------------------------------------
(* Induction, with a set in the place of a predicate.                      *)

LEMMA SetInduction ==
    ASSUME NEW S, 0 \in S, \A n \in Nat : n \in S => n + 1 \in S
    PROVE  Nat \subseteq S
<1> DEFINE R == OpToRel(<, Nat)
           T == Nat \ S
<1>1. ASSUME T # {} PROVE FALSE
  <2>1. IsWellFoundedOn(R, Nat)
    BY NatLessThanWellFounded
  <2>2. T \subseteq Nat
    OBVIOUS
  <2> HIDE DEF R, T
  <2>3. PICK x \in T : \A y \in T : ~(<<y, x>> \in R)
    BY <1>1, <2>1, <2>2, WFMin
  <2> USE DEF T
  <2>4. x \in Nat /\ x # 0 /\ x - 1 \in Nat /\ (x - 1) + 1 = x
    BY <2>3
  <2>5. x - 1 \in T
    BY <2>3, <2>4
  <2>6. <<x - 1, x>> \in R
    BY <2>4 DEF R, OpToRel
  <2> QED
    BY <2>3, <2>5, <2>6
<1> QED
  BY <1>1

\* What is said of 0 and handed on up to n is true up to n.
LEMMA BoundedInduction ==
    ASSUME NEW n \in Nat, NEW S, 0 \in S, \A i \in 0 .. n - 1 : i \in S => i + 1 \in S
    PROVE  \A i \in 0 .. n : i \in S
<1> DEFINE T == {i \in Nat : i <= n => i \in S}
<1>1. 0 \in T
  OBVIOUS
<1>2. ASSUME NEW i \in Nat, i \in T PROVE i + 1 \in T
  BY <1>2
<1> HIDE DEF T
<1>3. Nat \subseteq T
  BY <1>1, <1>2, SetInduction
<1> QED
  BY <1>3 DEF T

\* f begins with q and goes on by step, up to n.
FollowsTo(n, f, q, step) ==
    f[0] = q /\ \A i \in 1 .. n : f[i] = step[<<i, f[i - 1]>>]

\* A function defined by steps from its value at 0 exists.
LEMMA StepsDefine ==
    ASSUME NEW Q, NEW q \in Q, NEW n \in Nat, NEW step \in [(1 .. n) \X Q -> Q]
    PROVE  \E f \in [0 .. n -> Q] : FollowsTo(n, f, q, step)
<1> DEFINE S == {m \in 0 .. n : \E f \in [0 .. m -> Q] : FollowsTo(m, f, q, step)}
<1>1. 0 \in S
  <2> DEFINE f == [i \in 0 .. 0 |-> q]
  <2>1. f \in [0 .. 0 -> Q] /\ FollowsTo(0, f, q, step) /\ 0 \in 0 .. n
    BY DEF FollowsTo
  <2> HIDE DEF f
  <2> QED
    BY <2>1
<1>2. ASSUME NEW m \in 0 .. n - 1, m \in S PROVE m + 1 \in S
  <2>0. PICK f \in [0 .. m -> Q] : FollowsTo(m, f, q, step)
    BY <1>2
  <2>1. f[0] = q /\ \A i \in 1 .. m : f[i] = step[<<i, f[i - 1]>>]
    BY <2>0 DEF FollowsTo
  <2> DEFINE new == step[<<m + 1, f[m]>>]
             g == [i \in 0 .. m + 1 |-> IF i = m + 1 THEN new ELSE f[i]]
  <2>2. new \in Q
    OBVIOUS
  <2>3. g \in [0 .. m + 1 -> Q]
    BY <2>2
  <2>4. g[0] = q
    BY <2>1
  <2>5. ASSUME NEW i \in 1 .. m + 1 PROVE g[i] = step[<<i, g[i - 1]>>]
    <3>1. CASE i = m + 1
      <4>1. g[i] = new /\ g[i - 1] = f[m]
        BY <3>1
      <4> QED
        BY <3>1, <4>1
    <3>2. CASE i # m + 1
      <4>1. i \in 1 .. m /\ i - 1 \in 0 .. m
        BY <3>2
      <4>2. g[i] = f[i] /\ g[i - 1] = f[i - 1]
        BY <4>1
      <4> QED
        BY <2>1, <4>1, <4>2
    <3> QED
      BY <3>1, <3>2
  <2> HIDE DEF g
  <2>6. FollowsTo(m + 1, g, q, step)
    BY <2>4, <2>5 DEF FollowsTo
  <2>7. m + 1 \in 0 .. n
    OBVIOUS
  <2> QED
    BY <2>3, <2>6, <2>7
<1> HIDE DEF S
<1>3. n \in S
  BY <1>1, <1>2, BoundedInduction
<1> QED
  BY <1>3 DEF S

-----------------------------------------------------------------------------
(* The command line of popen().                                            *)

\* The characters of a path and of its quoting.
Chars == STRING \cup {Quote, Backslash}

LEMMA Characters == Quote \in Chars /\ Backslash \in Chars
BY DEF Chars

LEMMA QuoteIsOther == Quote # Backslash
BY DEF Quote, Backslash

LEMMA EscapedIsText ==
    ASSUME NEW ch \in Chars
    PROVE  /\ Escaped(ch) \in Seq(Chars)
           /\ ch = Quote => /\ Len(Escaped(ch)) = 4
                            /\ Escaped(ch)[1] = Quote /\ Escaped(ch)[2] = Backslash
                            /\ Escaped(ch)[3] = Quote /\ Escaped(ch)[4] = Quote
           /\ ch # Quote => Len(Escaped(ch)) = 1 /\ Escaped(ch)[1] = ch
<1>1. CASE ch = Quote
  BY <1>1, Characters DEF Escaped
<1>2. CASE ch # Quote
  BY <1>2 DEF Escaped
<1> QED
  BY <1>1, <1>2

\* c is the copy that sanitize_path makes, after each character of path.
Copies(path, c) ==
    /\ c \in [0 .. Len(path) -> Seq(Chars)]
    /\ c[0] = <<>>
    /\ \A i \in 1 .. Len(path) : c[i] = c[i - 1] \o Escaped(path[i])

\* The recursion of sanitize_path ends, with the copy of the whole.
LEMMA SanitizedIsCopy ==
    ASSUME NEW path \in Seq(Chars)
    PROVE  \E c : Copies(path, c) /\ Sanitized(path) = c[Len(path)]
<1> DEFINE n == Len(path)
           Q == Seq(Chars)
           body(f, i) == IF i = 0 THEN <<>> ELSE f[i - 1] \o Escaped(path[i])
           step == [p \in (1 .. n) \X Q |-> p[2] \o Escaped(path[p[1]])]
           c == CHOOSE f : f = [i \in 0 .. n |-> body(f, i)]
<1>0. n \in Nat /\ <<>> \in Q
  BY LenProperties, EmptySeq
<1>1. \A i \in 1 .. n : path[i] \in Chars /\ Escaped(path[i]) \in Q
  BY ElementOfSeq, EscapedIsText
<1>2. \A i \in 1 .. n, s \in Q : s \o Escaped(path[i]) \in Q
  BY <1>1, ConcatProperties
<1>3. step \in [(1 .. n) \X Q -> Q]
  BY <1>2
<1>4. \A i \in 1 .. n, s \in Q : step[<<i, s>>] = s \o Escaped(path[i])
  OBVIOUS
<1> HIDE DEF n, Q, step
<1>5. PICK f \in [0 .. n -> Q] : FollowsTo(n, f, <<>>, step)
  BY <1>0, <1>3, StepsDefine
<1>6. f[0] = <<>> /\ \A i \in 1 .. n : f[i] = f[i - 1] \o Escaped(path[i])
  BY <1>0, <1>4, <1>5 DEF FollowsTo
<1>7. f = [i \in 0 .. n |-> body(f, i)]
  BY <1>0, <1>6
<1>8. c = [i \in 0 .. n |-> body(c, i)]
  BY <1>7
<1>9. Sanitized(path) = c[n]
  BY DEF Sanitized, n
<1> HIDE DEF c
<1>10. c[0] = <<>> /\ \A i \in 1 .. n : c[i] = c[i - 1] \o Escaped(path[i])
  BY <1>0, <1>8
<1>11. \A i \in 0 .. n : i \in {j \in 0 .. n : c[j] \in Q}
  <2> DEFINE S == {j \in 0 .. n : c[j] \in Q}
  <2>1. 0 \in S
    BY <1>0, <1>10
  <2>2. ASSUME NEW i \in 0 .. n - 1, i \in S PROVE i + 1 \in S
    <3>1. i + 1 \in 1 .. n /\ (i + 1) - 1 = i /\ i + 1 \in 0 .. n
      BY <1>0
    <3>2. c[i + 1] = c[i] \o Escaped(path[i + 1])
      BY <1>10, <3>1
    <3> QED
      BY <1>2, <2>2, <3>1, <3>2
  <2> HIDE DEF S
  <2>3. \A i \in 0 .. n : i \in S
    BY <1>0, <2>1, <2>2, BoundedInduction
  <2> QED
    BY <2>3 DEF S
<1>12. c \in [0 .. n -> Q]
  BY <1>8, <1>11
<1> QED
  BY <1>9, <1>10, <1>12 DEF Copies, n, Q

\* The copy only grows.
LEMMA CopyGrows ==
    ASSUME NEW path \in Seq(Chars), NEW c, Copies(path, c),
           NEW i \in 0 .. Len(path)
    PROVE  /\ Len(c[i]) \in Nat /\ Len(c[i]) <= Len(c[Len(path)])
           /\ \A j \in 1 .. Len(c[i]) : c[Len(path)][j] = c[i][j]
<1> DEFINE n == Len(path)
           S == {k \in 0 .. n - i :
                   /\ Len(c[i]) <= Len(c[i + k])
                   /\ \A j \in 1 .. Len(c[i]) : c[i + k][j] = c[i][j]}
<1>0. n \in Nat /\ i \in 0 .. n /\ n - i \in Nat
  BY LenProperties
<1>1. \A k \in 0 .. n : c[k] \in Seq(Chars) /\ Len(c[k]) \in Nat
  BY LenProperties DEF Copies
<1>2. 0 \in S
  <2>1. i + 0 = i
    BY <1>0
  <2> QED
    BY <1>0, <1>1, <2>1
<1>3. ASSUME NEW k \in 0 .. (n - i) - 1, k \in S PROVE k + 1 \in S
  <2>1. /\ i + k \in 0 .. n /\ i + (k + 1) \in 1 .. n /\ (i + (k + 1)) - 1 = i + k
        /\ k + 1 \in 0 .. n - i /\ i + (k + 1) \in 0 .. n
    BY <1>0
  <2> DEFINE s == c[i + k]
             e == Escaped(path[i + (k + 1)])
  <2>2. c[i + (k + 1)] = s \o e
    BY <2>1 DEF Copies
  <2>3. s \in Seq(Chars) /\ e \in Seq(Chars) /\ Len(s) \in Nat /\ Len(e) \in Nat
    BY <1>1, <2>1, ElementOfSeq, EscapedIsText, LenProperties
  <2>4. Len(c[i]) <= Len(s) /\ \A j \in 1 .. Len(c[i]) : s[j] = c[i][j]
    BY <1>3
  <2> HIDE DEF s, e
  <2>5. Len(s \o e) = Len(s) + Len(e) /\ \A j \in 1 .. Len(s) : (s \o e)[j] = s[j]
    BY <2>3, ConcatProperties
  <2>6. Len(c[i]) <= Len(s \o e) /\ \A j \in 1 .. Len(c[i]) : (s \o e)[j] = c[i][j]
    BY <1>0, <1>1, <2>3, <2>4, <2>5
  <2> QED
    BY <2>1, <2>2, <2>6
<1> HIDE DEF S
<1>4. n - i \in S
  BY <1>0, <1>2, <1>3, BoundedInduction
<1>5. i + (n - i) = n
  BY <1>0
<1> QED
  BY <1>0, <1>1, <1>4, <1>5 DEF S

\* What a shell does at a character, in each of its states.
LEMMA ShellSteps ==
    ASSUME NEW word \in Seq(Chars), NEW ch \in Chars
    PROVE  /\ ShellReads(ShellState(word, FALSE, FALSE), Quote) = ShellState(word, TRUE, FALSE)
           /\ ShellReads(ShellState(word, TRUE, FALSE), Quote) = ShellState(word, FALSE, FALSE)
           /\ ShellReads(ShellState(word, FALSE, FALSE), Backslash) = ShellState(word, FALSE, TRUE)
           /\ ShellReads(ShellState(word, FALSE, TRUE), ch) =
                ShellState(Append(word, ch), FALSE, FALSE)
           /\ ch # Quote => ShellReads(ShellState(word, TRUE, FALSE), ch) =
                              ShellState(Append(word, ch), TRUE, FALSE)
BY QuoteIsOther DEF ShellReads, ShellState

ShellStates == [word : Seq(Chars), in : BOOLEAN, esc : BOOLEAN]

LEMMA ShellGoesOn ==
    ASSUME NEW s \in ShellStates, NEW ch \in Chars
    PROVE  ShellReads(s, ch) \in ShellStates
<1>1. Append(s.word, ch) \in Seq(Chars)
  BY AppendProperties DEF ShellStates
<1>2. CASE s.in
  BY <1>1, <1>2 DEF ShellStates, ShellReads
<1>3. CASE ~s.in /\ s.esc
  BY <1>1, <1>3 DEF ShellStates, ShellReads
<1>4. CASE ~s.in /\ ~s.esc
  BY <1>1, <1>4 DEF ShellStates, ShellReads
<1> QED
  BY <1>2, <1>3, <1>4

\* r is the state of a shell after each character of arg.
Runs(arg, r) ==
    /\ r[0] = ShellState(<<>>, FALSE, FALSE)
    /\ \A i \in 1 .. Len(arg) : r[i] = ShellReads(r[i - 1], arg[i])

\* A shell comes to the end of every argument.
LEMMA ShellWordIsRun ==
    ASSUME NEW arg \in Seq(Chars)
    PROVE  \E r : /\ Runs(arg, r)
                  /\ ShellWord(arg) = IF r[Len(arg)].in \/ r[Len(arg)].esc THEN <<"open">>
                                      ELSE r[Len(arg)].word
<1> DEFINE n == Len(arg)
           first == ShellState(<<>>, FALSE, FALSE)
           body(f, i) == IF i = 0 THEN first ELSE ShellReads(f[i - 1], arg[i])
           step == [p \in (1 .. n) \X ShellStates |-> ShellReads(p[2], arg[p[1]])]
           r == CHOOSE f : f = [i \in 0 .. n |-> body(f, i)]
<1>0. n \in Nat /\ first \in ShellStates
  BY LenProperties, EmptySeq DEF ShellState, ShellStates
<1>1. \A i \in 1 .. n, s \in ShellStates : ShellReads(s, arg[i]) \in ShellStates
  BY ElementOfSeq, ShellGoesOn
<1>2. step \in [(1 .. n) \X ShellStates -> ShellStates]
  BY <1>1
<1>3. \A i \in 1 .. n, s \in ShellStates : step[<<i, s>>] = ShellReads(s, arg[i])
  OBVIOUS
<1>4. ShellWord(arg) = IF r[n].in \/ r[n].esc THEN <<"open">> ELSE r[n].word
  BY DEF ShellWord
<1> HIDE DEF n, step, first
<1>5. PICK f \in [0 .. n -> ShellStates] : FollowsTo(n, f, first, step)
  BY <1>0, <1>2, StepsDefine
<1>6. f[0] = first /\ \A i \in 1 .. n : f[i] = ShellReads(f[i - 1], arg[i])
  BY <1>0, <1>3, <1>5 DEF FollowsTo
<1>7. f = [i \in 0 .. n |-> body(f, i)]
  BY <1>0, <1>6
<1>8. r = [i \in 0 .. n |-> body(r, i)]
  BY <1>7
<1> HIDE DEF r
<1>9. r[0] = first /\ \A i \in 1 .. n : r[i] = ShellReads(r[i - 1], arg[i])
  BY <1>0, <1>8
<1> QED
  BY <1>4, <1>9 DEF Runs, n, first

\* The argument: a quote, the copy, a quote.
LEMMA ArgumentText ==
    ASSUME NEW copy \in Seq(Chars)
    PROVE  LET arg == <<Quote>> \o copy \o <<Quote>>
           IN  /\ arg \in Seq(Chars) /\ Len(arg) = Len(copy) + 2
               /\ arg[1] = Quote /\ arg[Len(copy) + 2] = Quote
               /\ \A j \in 1 .. Len(copy) : arg[j + 1] = copy[j]
<1> DEFINE q == <<Quote>>
           s == q \o copy
<1>0. q \in Seq(Chars) /\ Len(q) = 1 /\ q[1] = Quote /\ Len(copy) \in Nat
  BY Characters, LenProperties
<1> HIDE DEF q
<1>1. /\ s \in Seq(Chars) /\ Len(s) = 1 + Len(copy)
      /\ \A i \in 1 .. 1 + Len(copy) : s[i] = IF i <= 1 THEN q[i] ELSE copy[i - 1]
  <2>1. /\ s \in Seq(Chars) /\ Len(s) = Len(q) + Len(copy)
        /\ \A i \in 1 .. Len(q) + Len(copy) :
              s[i] = IF i <= Len(q) THEN q[i] ELSE copy[i - Len(q)]
    BY <1>0, ConcatProperties
  <2> HIDE DEF s
  <2> QED
    BY <1>0, <2>1
<1> HIDE DEF s
<1>2. /\ s \o q \in Seq(Chars) /\ Len(s \o q) = Len(s) + 1
      /\ \A i \in 1 .. Len(s) + 1 : (s \o q)[i] = IF i <= Len(s) THEN s[i] ELSE q[i - Len(s)]
  BY <1>0, <1>1, ConcatProperties
<1>3. Len(s \o q) = Len(copy) + 2 /\ (s \o q)[1] = Quote /\ (s \o q)[Len(copy) + 2] = Quote
  BY <1>0, <1>1, <1>2
<1>4. ASSUME NEW j \in 1 .. Len(copy) PROVE (s \o q)[j + 1] = copy[j]
  <2>1. j + 1 \in 1 .. 1 + Len(copy) /\ j + 1 \in 1 .. Len(s) + 1 /\ j + 1 <= Len(s)
        /\ ~(j + 1 <= 1) /\ (j + 1) - 1 = j
    BY <1>0, <1>1
  <2> QED
    BY <1>1, <1>2, <2>1
<1> QED
  BY <1>2, <1>3, <1>4 DEF s, q

\* The shell of popen() makes of the quoted path the path itself, whatever quotes and
\* backslashes it has (gopher.c:479-488, 547-576).
THEOREM ShellReadsPath ==
    ASSUME NEW path \in Seq(Chars)
    PROVE  ShellWord(Argument(path)) = path
<1> DEFINE n == Len(path)
           arg == Argument(path)
<1>1. PICK c : Copies(path, c) /\ Sanitized(path) = c[n]
  BY SanitizedIsCopy
<1> DEFINE copy == c[n]
           L == Len(copy)
<1>2. /\ n \in Nat /\ \A i \in 0 .. n : c[i] \in Seq(Chars) /\ Len(c[i]) \in Nat
      /\ copy \in Seq(Chars) /\ L \in Nat /\ c[0] = <<>> /\ Len(c[0]) = 0
  <2>1. n \in Nat
    BY LenProperties
  <2>2. \A i \in 0 .. n : c[i] \in Seq(Chars) /\ Len(c[i]) \in Nat
    BY <1>1, LenProperties DEF Copies
  <2>3. c[0] = <<>> /\ Len(c[0]) = 0
    BY <1>1, EmptySeq DEF Copies
  <2> QED
    BY <2>1, <2>2, <2>3
<1>3. arg = <<Quote>> \o copy \o <<Quote>>
  BY <1>1 DEF Argument
<1> HIDE DEF arg, copy
<1>4. /\ arg \in Seq(Chars) /\ Len(arg) = L + 2
      /\ arg[1] = Quote /\ arg[L + 2] = Quote
      /\ \A j \in 1 .. L : arg[j + 1] = copy[j]
  BY <1>2, <1>3, ArgumentText
<1>5. PICK r : /\ Runs(arg, r)
               /\ ShellWord(arg) = IF r[Len(arg)].in \/ r[Len(arg)].esc THEN <<"open">>
                                   ELSE r[Len(arg)].word
  BY <1>4, ShellWordIsRun
<1>6. /\ r[0] = ShellState(<<>>, FALSE, FALSE)
      /\ \A i \in 1 .. L + 2 : r[i] = ShellReads(r[i - 1], arg[i])
  BY <1>4, <1>5 DEF Runs
<1> HIDE DEF L
<1> DEFINE word(i) == SubSeq(path, 1, i)
           S == {i \in 0 .. n : r[Len(c[i]) + 1] = ShellState(word(i), TRUE, FALSE)}
<1>7. \A i \in 0 .. n : word(i) \in Seq(Chars)
  <2> TAKE i \in 0 .. n
  <2>1. \A j \in 1 .. i : path[j] \in Chars
    BY <1>2, ElementOfSeq
  <2> QED
    BY <1>2, <2>1, SubSeqProperties
<1>8. word(0) = <<>> /\ word(n) = path
  BY <1>2, SubSeqEmpty, SubSeqFull
<1>9. ASSUME NEW i \in 0 .. n - 1
      PROVE  word(i + 1) = Append(word(i), path[i + 1]) /\ path[i + 1] \in Chars
  <2>1. i + 1 \in 1 .. n /\ 1 \in 1 .. n /\ (i + 1) - 1 = i /\ i \in 0 .. n
    BY <1>2
  <2>2. path[i + 1] \in Chars
    BY <2>1, ElementOfSeq
  <2>3. word(i + 1) = word(i) \o <<path[i + 1]>>
    BY <2>1, SubSeqRecursiveSecond
  <2> QED
    BY <1>7, <2>1, <2>2, <2>3, AppendIsConcat
<1> HIDE DEF word, n
<1>10. 0 \in S
  <2>1. r[1] = ShellReads(r[0], Quote)
    <3>1. 1 \in 1 .. L + 2 /\ 1 - 1 = 0
      BY <1>2
    <3> QED
      BY <1>4, <1>6, <3>1
  <2>2. r[1] = ShellState(<<>>, TRUE, FALSE)
    <3>1. <<>> \in Seq(Chars)
      BY EmptySeq
    <3> QED
      BY <1>6, <2>1, <3>1, Characters, ShellSteps
  <2>3. 0 \in 0 .. n /\ Len(c[0]) + 1 = 1
    BY <1>2
  <2> QED
    BY <1>8, <2>2, <2>3
<1>11. ASSUME NEW i \in 0 .. n - 1, i \in S PROVE i + 1 \in S
  <2> DEFINE p == Len(c[i]) + 1
             w == word(i)
             ch == path[i + 1]
             e == Escaped(ch)
             a == c[i]
  <2>1. r[p] = ShellState(w, TRUE, FALSE) /\ w \in Seq(Chars) /\ ch \in Chars
        /\ Append(w, ch) \in Seq(Chars) /\ word(i + 1) = Append(w, ch)
    BY <1>7, <1>9, <1>11, AppendProperties
  <2>2. i + 1 \in 1 .. n /\ i + 1 \in 0 .. n /\ i \in 0 .. n /\ (i + 1) - 1 = i
    BY <1>2
  <2>3. c[i + 1] = a \o e /\ a \in Seq(Chars) /\ Len(a) \in Nat
    BY <1>1, <1>2, <2>2 DEF Copies, n
  <2>4. /\ e \in Seq(Chars)
        /\ ch = Quote => Len(e) = 4 /\ e[1] = Quote /\ e[2] = Backslash
                         /\ e[3] = Quote /\ e[4] = Quote
        /\ ch # Quote => Len(e) = 1 /\ e[1] = ch
    BY <2>1, EscapedIsText
  <2>5. Len(e) \in {1, 4}
    BY <2>4
  <2> DEFINE b == c[i + 1]
  <2> HIDE DEF a, e
  <2>6. /\ Len(b) = Len(a) + Len(e) /\ Len(b) <= L
        /\ \A k \in 1 .. Len(b) : copy[k] = b[k]
        /\ \A k \in 1 .. Len(a) + Len(e) :
              b[k] = IF k <= Len(a) THEN a[k] ELSE e[k - Len(a)]
    <3>0. b = a \o e
      BY <2>3
    <3> HIDE DEF b
    <3>1. /\ Len(b) = Len(a) + Len(e)
          /\ \A k \in 1 .. Len(a) + Len(e) :
                b[k] = IF k <= Len(a) THEN a[k] ELSE e[k - Len(a)]
      BY <2>3, <2>4, <3>0, ConcatProperties
    <3>2. /\ Len(b) <= L
          /\ \A k \in 1 .. Len(b) : copy[k] = b[k]
      BY <1>1, <2>2, CopyGrows DEF n, copy, L, b
    <3> QED
      BY <3>1, <3>2
  <2>7. ASSUME NEW j \in 1 .. Len(e)
        PROVE  r[p + j] = ShellReads(r[p + (j - 1)], e[j])
    <3> DEFINE m == Len(a)
               k == m + j
               d == Len(e)
    <3>0. p = m + 1 /\ m \in Nat
      BY <2>3 DEF a
    <3> HIDE DEF p, b
    <3>1. m \in Nat /\ d \in Nat /\ m + d <= L /\ j \in 1 .. d /\ Len(b) = m + d /\ p = m + 1
      BY <2>5, <2>6, <3>0
    <3>2. \A x \in 1 .. m + d : copy[x] = b[x]
      BY <2>6
    <3>3. \A x \in 1 .. m + d : b[x] = IF x <= m THEN a[x] ELSE e[x - m]
      BY <2>6
    <3> HIDE DEF m, d
    <3>4. k \in 1 .. L /\ k \in 1 .. m + d /\ ~(k <= m) /\ k - m = j
          /\ k + 1 = p + j /\ p + j \in 1 .. L + 2 /\ (p + j) - 1 = p + (j - 1)
      BY <1>2, <3>1
    <3> HIDE DEF k
    <3>5. copy[k] = e[j]
      BY <3>2, <3>3, <3>4
    <3>6. arg[p + j] = e[j]
      BY <1>4, <3>4, <3>5
    <3> QED
      BY <1>6, <3>4, <3>6
  <2> HIDE DEF p, w, ch, b
  <2>8. p \in Nat /\ p + (1 - 1) = p /\ p + (2 - 1) = p + 1 /\ p + (3 - 1) = p + 2
        /\ p + (4 - 1) = p + 3
    BY <2>3 DEF p, a
  <2>9. r[p + Len(e)] = ShellState(Append(w, ch), TRUE, FALSE)
    <3>1. CASE ch # Quote
      <4>0. Len(e) = 1 /\ e[1] = ch
        BY <2>4, <3>1
      <4>1. r[p + 1] = ShellReads(r[p], ch)
        BY <2>7, <2>8, <4>0
      <4>2. r[p + 1] = ShellState(Append(w, ch), TRUE, FALSE)
        BY <2>1, <3>1, <4>1, ShellSteps
      <4> QED
        BY <4>0, <4>2
    <3>2. CASE ch = Quote
      <4>0. Len(e) = 4 /\ e[1] = Quote /\ e[2] = Backslash /\ e[3] = Quote /\ e[4] = Quote
        BY <2>4, <3>2
      <4>1. r[p + 1] = ShellReads(r[p], Quote)
        BY <2>7, <2>8, <4>0
      <4>2. r[p + 2] = ShellReads(r[p + 1], Backslash)
        BY <2>7, <2>8, <4>0
      <4>3. r[p + 3] = ShellReads(r[p + 2], Quote)
        BY <2>7, <2>8, <4>0
      <4>4. r[p + 4] = ShellReads(r[p + 3], Quote)
        BY <2>7, <2>8, <4>0
      <4>5. r[p + 1] = ShellState(w, FALSE, FALSE)
        BY <2>1, <4>1, ShellSteps
      <4>6. r[p + 2] = ShellState(w, FALSE, TRUE)
        BY <2>1, <4>2, <4>5, ShellSteps
      <4>7. r[p + 3] = ShellState(Append(w, ch), FALSE, FALSE)
        BY <2>1, <3>2, <4>3, <4>6, ShellSteps
      <4>8. r[p + 4] = ShellState(Append(w, ch), TRUE, FALSE)
        BY <2>1, <4>4, <4>7, ShellSteps
      <4> QED
        BY <4>0, <4>8
    <3> QED
      BY <3>1, <3>2
  <2>10. p + Len(e) = Len(c[i + 1]) + 1
    BY <2>3, <2>5, <2>6 DEF p, a, b
  <2> QED
    BY <2>1, <2>2, <2>9, <2>10
<1> HIDE DEF S
<1>12. n \in S
  <2>1. n \in Nat
    BY <1>2
  <2>2. \A i \in 0 .. n : i \in S
    BY <1>10, <1>11, <2>1, BoundedInduction
  <2> QED
    BY <2>1, <2>2
<1>13. r[L + 1] = ShellState(path, TRUE, FALSE)
  BY <1>8, <1>12 DEF S, L, copy
<1>14. r[L + 2] = ShellState(path, FALSE, FALSE)
  <2>1. r[L + 2] = ShellReads(r[L + 1], Quote)
    <3>1. L + 2 \in 1 .. L + 2 /\ (L + 2) - 1 = L + 1
      BY <1>2
    <3> QED
      BY <1>4, <1>6, <3>1
  <2> QED
    BY <1>13, <2>1, Characters, ShellSteps
<1>15. ShellWord(arg) = path
  BY <1>4, <1>5, <1>14 DEF ShellState
<1> QED
  BY <1>15 DEF arg

-----------------------------------------------------------------------------
(* The type of a file.                                                     *)

HiddenType == [major |-> "application", minor |-> "mac"]

\* What strncmp() compares a type with, row by row.
LEMMA Rows ==
    ASSUME NEW m
    PROVE  /\ DOMAIN TypeRows = 1 .. 11
           /\ Matches(m, TypeRows[1]) <=> m.major = "inode" /\ m.minor = "directory"
           /\ Matches(m, TypeRows[2]) <=> m.major = "application" /\ m.minor = "gopher"
           /\ Matches(m, TypeRows[3]) <=> m.major = "multipart" /\ m.minor = "mixed"
           /\ Matches(m, TypeRows[4]) <=> m.major = "application"
           /\ Matches(m, TypeRows[5]) <=> m.major = "audio"
           /\ Matches(m, TypeRows[6]) <=> m.major = "text" /\ m.minor = "html"
           /\ Matches(m, TypeRows[7]) <=> m.major = "text"
           /\ Matches(m, TypeRows[8]) <=> m.major = "inode" /\ m.minor = "x-empty"
           /\ Matches(m, TypeRows[9]) <=> m.major = "image" /\ m.minor = "gif"
           /\ Matches(m, TypeRows[10]) <=> m.major = "image"
           /\ Matches(m, TypeRows[11]) <=> m.major = "application" /\ m.minor = "mac"
           /\ \A i \in {4, 5, 7, 10} : TypeRows[i].minor = ""
<1>0. DOMAIN TypeRows = 1 .. 11
  BY DEF TypeRows
<1>1. TypeRows[1].major = "inode" /\ TypeRows[1].minor = "directory"
  BY DEF TypeRows, Row
<1>2. TypeRows[2].major = "application" /\ TypeRows[2].minor = "gopher"
  BY DEF TypeRows, Row
<1>3. TypeRows[3].major = "multipart" /\ TypeRows[3].minor = "mixed"
  BY DEF TypeRows, Row
<1>4. TypeRows[4].major = "application" /\ TypeRows[4].minor = ""
  BY DEF TypeRows, Row
<1>5. TypeRows[5].major = "audio" /\ TypeRows[5].minor = ""
  BY DEF TypeRows, Row
<1>6. TypeRows[6].major = "text" /\ TypeRows[6].minor = "html"
  BY DEF TypeRows, Row
<1>7. TypeRows[7].major = "text" /\ TypeRows[7].minor = ""
  BY DEF TypeRows, Row
<1>8. TypeRows[8].major = "inode" /\ TypeRows[8].minor = "x-empty"
  BY DEF TypeRows, Row
<1>9. TypeRows[9].major = "image" /\ TypeRows[9].minor = "gif"
  BY DEF TypeRows, Row
<1>10. TypeRows[10].major = "image" /\ TypeRows[10].minor = ""
  BY DEF TypeRows, Row
<1>11. TypeRows[11].major = "application" /\ TypeRows[11].minor = "mac"
  BY DEF TypeRows, Row
<1>12. \A i \in {4, 5, 7, 10} : TypeRows[i].minor = ""
  BY <1>4, <1>5, <1>7, <1>10
<1> QED
  BY <1>0, <1>1, <1>2, <1>3, <1>4, <1>5, <1>6, <1>7, <1>8, <1>9, <1>10, <1>11, <1>12 DEF Matches

\* The first row that matches decides.
LEMMA FirstRowDecides ==
    ASSUME NEW m, NEW k \in RowsFor(m), \A j \in RowsFor(m) : k <= j
    PROVE  TypeChar(m) = TypeRows[k].char
<1> DEFINE c == CHOOSE i \in RowsFor(m) : \A j \in RowsFor(m) : i <= j
<1>1. c \in RowsFor(m) /\ \A j \in RowsFor(m) : c <= j
  OBVIOUS
<1>2. TypeChar(m) = TypeRows[c].char
  BY DEF TypeChar
<1> HIDE DEF c
<1>3. c \in 1 .. 11 /\ k \in 1 .. 11
  BY <1>1, Rows DEF RowsFor
<1>4. c = k
  BY <1>1, <1>3
<1> QED
  BY <1>2, <1>4

\* Of two rows that match a type, the special one comes first.
LEMMA SpecialBefore ==
    ASSUME NEW m, ~(m.major = "application" /\ m.minor = "mac"),
           NEW i \in 1 .. 11, Matches(m, TypeRows[i]), i \notin {4, 5, 7, 10},
           NEW j \in 1 .. 11, Matches(m, TypeRows[j])
    PROVE  i <= j
<1> DEFINE major == m.major
           minor == m.minor
<1>1. \/ i = 1 /\ major = "inode" /\ minor = "directory"
      \/ i = 2 /\ major = "application" /\ minor = "gopher"
      \/ i = 3 /\ major = "multipart" /\ minor = "mixed"
      \/ i = 6 /\ major = "text" /\ minor = "html"
      \/ i = 8 /\ major = "inode" /\ minor = "x-empty"
      \/ i = 9 /\ major = "image" /\ minor = "gif"
  <2>1. i \in {1, 2, 3, 6, 8, 9, 11}
    OBVIOUS
  <2> QED
    BY <2>1, Rows
<1>2. \/ j = 1 /\ major = "inode" /\ minor = "directory"
      \/ j = 2 /\ major = "application"
      \/ j = 3 /\ major = "multipart"
      \/ j = 4 /\ major = "application"
      \/ j = 5 /\ major = "audio"
      \/ j = 6 /\ major = "text"
      \/ j = 7 /\ major = "text"
      \/ j = 8 /\ major = "inode" /\ minor = "x-empty"
      \/ j > 8
  <2>1. j \in {1, 2, 3, 4, 5, 6, 7, 8} \/ j > 8
    OBVIOUS
  <2> QED
    BY <2>1, Rows
<1> HIDE DEF major, minor
<1> QED
  BY <1>1, <1>2

\* No general row of type_path stands above a special one that it would hide, but
\* "application/" above "application/mac" (gopher.c:511-541).
THEOREM SpecialRowsFirst ==
    ASSUME NEW m \in [major : STRING, minor : STRING], m # HiddenType,
           NEW i \in RowsFor(m), TypeRows[i].minor # ""
    PROVE  TypeChar(m) = TypeRows[i].char
<1>1. i \in 1 .. 11 /\ Matches(m, TypeRows[i]) /\ i \notin {4, 5, 7, 10}
  BY Rows DEF RowsFor
<1>2. ~(m.major = "application" /\ m.minor = "mac")
  BY DEF HiddenType
<1>3. ASSUME NEW j \in RowsFor(m) PROVE i <= j
  <2>1. j \in 1 .. 11 /\ Matches(m, TypeRows[j])
    BY Rows DEF RowsFor
  <2> QED
    BY <1>1, <1>2, <2>1, SpecialBefore
<1> QED
  BY <1>3, FirstRowDecides
=============================================================================
