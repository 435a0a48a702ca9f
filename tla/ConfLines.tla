------------------------------ MODULE ConfLines ------------------------------
(***************************************************************************)
(* The lines of sacagawea.conf, as the regular expressions of config.c see *)
(* them.  A line is a record with one field, named by its keyword:         *)
(* [port |-> n], [mode |-> "t"], [home |-> d], [host |-> h], or            *)
(* [other |-> TRUE] for a line no expression matches.                      *)
(***************************************************************************)
EXTENDS Naturals, Sequences

\* The expressions begin with "^" and a keyword each, so that one of them matches
\* at most; that of the mode admits its two letters only.
IsLine(l) ==
    \/ DOMAIN l = {"port"} /\ l.port \in Nat
    \/ DOMAIN l = {"mode"} /\ l.mode \in {"t", "p"}
    \/ DOMAIN l \in {{"home"}, {"host"}, {"other"}}

\* "port[[:space:]]+([[:digit:]]{1,5})" takes the first five digits of a number.
FiveDigits[n \in Nat] == IF n < 100000 THEN n ELSE FiveDigits[n \div 10]

PortNumbers == 1..65535
IsPortNumber(n) == n \in PortNumbers

IsPort(l) == "port" \in DOMAIN l

\* strtol() of the match; 0 ends the program.
IsFatal(l) == IsPort(l) /\ FiveDigits[l.port] = 0

\* A defect: a value that does not fit a port is taken nevertheless.
AnyNumber(l) == IsPort(l)

\* check_if_port_change ignores a number above 65535.
AcceptablePort(l) == IsPort(l) /\ IsPortNumber(FiveDigits[l.port])

\* check_if_port_change returns TRUE, and sets the port, for another one.
PortChanges(l, port) == AcceptablePort(l) /\ FiveDigits[l.port] # port

PortAfter(l, port) == IF PortChanges(l, port) THEN FiveDigits[l.port] ELSE port

-----------------------------------------------------------------------------
(* What read_and_check_conf comes to for a whole file; FileDecides of      *)
(* SacaConf compares it with the reading line by line.                     *)

PortLinesOf(lines) == {i \in 1..Len(lines) : AcceptablePort(lines[i])}

IsLastOf(lines, i) == \A j \in PortLinesOf(lines) : j <= i

FilePort(lines, port) ==
    IF \E i \in PortLinesOf(lines) : IsLastOf(lines, i)
    THEN FiveDigits[lines[CHOOSE i \in PortLinesOf(lines) : IsLastOf(lines, i)].port]
    ELSE port

\* A defect: any port line reopens the socket.
AnyPortLine(lines, port) == PortLinesOf(lines) # {}

FileChanges(lines, port) ==
    \E i \in PortLinesOf(lines) : FiveDigits[lines[i].port] # port

FileIsFatal(lines) == \E i \in 1..Len(lines) : IsFatal(lines[i])
=============================================================================
