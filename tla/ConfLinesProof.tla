--------------------------- MODULE ConfLinesProof ---------------------------
(***************************************************************************)
(* What a configuration file does to the port, for every file: lemmas      *)
(* about ConfLines, used where a server reads one.                         *)
(***************************************************************************)
EXTENDS ConfLines, TLAPS

\* A file that changes nothing leaves the port as it is.
LEMMA UnchangedPort ==
    ASSUME NEW f, NEW p, ~FileChanges(f, p)
    PROVE  FilePort(f, p) = p
<1>1. \A i \in PortLinesOf(f) : FiveDigits[f[i].port] = p
  BY DEF FileChanges
<1>2. CASE \E i \in PortLinesOf(f) : IsLastOf(f, i)
  <2> DEFINE last == CHOOSE i \in PortLinesOf(f) : IsLastOf(f, i)
  <2>1. last \in PortLinesOf(f)
    BY <1>2
  <2> QED
    BY <1>1, <1>2, <2>1 DEF FilePort
<1>3. CASE ~ \E i \in PortLinesOf(f) : IsLastOf(f, i)
  BY <1>3 DEF FilePort
<1> QED
  BY <1>2, <1>3

\* A file whose acceptable lines name ports of a set leads from one of them to
\* one of them.
LEMMA PortOfLines ==
    ASSUME NEW f, NEW S, NEW p \in S,
           \A i \in PortLinesOf(f) : FiveDigits[f[i].port] \in S
    PROVE  FilePort(f, p) \in S
<1>1. CASE \E i \in PortLinesOf(f) : IsLastOf(f, i)
  <2> DEFINE last == CHOOSE i \in PortLinesOf(f) : IsLastOf(f, i)
  <2>1. last \in PortLinesOf(f)
    BY <1>1
  <2> QED
    BY <1>1, <2>1 DEF FilePort
<1>2. CASE ~ \E i \in PortLinesOf(f) : IsLastOf(f, i)
  BY <1>2 DEF FilePort
<1> QED
  BY <1>1, <1>2
=============================================================================
