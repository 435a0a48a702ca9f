------------------------------ MODULE SacaConf ------------------------------
(***************************************************************************)
(* The settings of the server: sacagawea.conf read line by line at         *)
(* start-up, the command line on top of it, and the file read again, for   *)
(* its ports only, each time SIGHUP (CTRL_BREAK on Windows) arrives.       *)
(***************************************************************************)
EXTENDS ConfLines

CONSTANTS
    Lines,        \* the lines the file may have
    Files,        \* the contents the file may have when it is opened
    Dirs,         \* the directories that opendir() can open
    DefaultPort,  \* DEFAULT_SERVER_PORT
    Cwd, Name,    \* getcwd() and gethostname()
    OptionPorts   \* the numbers -P is given

ASSUME ConfAssumption ==
    /\ \A l \in Lines : IsLine(l)
    /\ Files \subseteq Seq(Lines)
    /\ DefaultPort \in PortNumbers
    /\ OptionPorts \subseteq Nat

VARIABLES
    pc,           \* where main, or the handler, is
    rest,         \* the lines of the open file not read yet
    settings,     \* *settings: port, mode, homedir, hostname
    changed,      \* port_change of read_and_check_conf
    before,       \* the port when this reading of the file began
    opened,       \* the contents this reading, or the last one, began with
    bound         \* the port the listening socket is bound to, 0 if none

vars == <<pc, rest, settings, changed, before, opened, bound>>

Init ==
    /\ pc = "begin" /\ rest = <<>>
    /\ settings = [port |-> DefaultPort, mode |-> "t", home |-> Cwd, host |-> Name]
    /\ changed = FALSE /\ before = DefaultPort /\ opened = <<>>
    /\ bound = 0

\* fopen(): whatever the administrator has made of the file by then.
Opens(to) ==
    /\ \/ \E f \in Files : pc' = to /\ rest' = f /\ opened' = f
       \/ pc' = "dead" /\ UNCHANGED <<rest, opened>>
    /\ changed' = FALSE
    /\ before' = settings.port
    /\ UNCHANGED <<settings, bound>>

StartUp == pc = "begin" /\ Opens("starting")
Sighup == pc = "running" /\ Opens("reloading")

\* A defect: the handler reads all the settings of a line.
SettingsAtAnyTime(l) ==
    IF "mode" \in DOMAIN l THEN [settings EXCEPT !.mode = l.mode]
    ELSE IF "home" \in DOMAIN l THEN [settings EXCEPT !.home = l.home]
    ELSE IF "host" \in DOMAIN l THEN [settings EXCEPT !.host = l.host]
    ELSE [settings EXCEPT !.port = PortAfter(l, settings.port)]

\* read_conf_line, at start-up only, then check_if_port_change.
SettingsAfter(l) ==
    IF pc = "starting" /\ "mode" \in DOMAIN l THEN [settings EXCEPT !.mode = l.mode]
    ELSE IF pc = "starting" /\ "home" \in DOMAIN l THEN [settings EXCEPT !.home = l.home]
    ELSE IF pc = "starting" /\ "host" \in DOMAIN l THEN [settings EXCEPT !.host = l.host]
    ELSE [settings EXCEPT !.port = PortAfter(l, settings.port)]

EndsProgram(l) ==
    \/ IsFatal(l)
    \/ pc = "starting" /\ "home" \in DOMAIN l /\ l.home \notin Dirs

\* A defect: port_change = ..., not |=: the last line decides.
LastLineDecides ==
    /\ pc \in {"starting", "reloading"} /\ rest # <<>>
    /\ ~EndsProgram(Head(rest))
    /\ settings' = SettingsAfter(Head(rest))
    /\ changed' = PortChanges(Head(rest), settings.port)
    /\ rest' = Tail(rest)
    /\ UNCHANGED <<pc, before, opened, bound>>

ReadLine ==
    /\ pc \in {"starting", "reloading"} /\ rest # <<>>
    /\ ~EndsProgram(Head(rest))
    /\ settings' = SettingsAfter(Head(rest))
    /\ changed' = IF PortChanges(Head(rest), settings.port) THEN TRUE ELSE changed
    /\ rest' = Tail(rest)
    /\ UNCHANGED <<pc, before, opened, bound>>

\* exit(1), the lines before the fatal one having taken effect
FatalLine ==
    /\ pc \in {"starting", "reloading"} /\ rest # <<>>
    /\ EndsProgram(Head(rest))
    /\ pc' = "dead"
    /\ UNCHANGED <<rest, settings, changed, before, opened, bound>>

EndOfFile ==
    /\ rest = <<>>
    /\ \/ pc = "starting" /\ pc' = "options"
       \/ pc = "reloading" /\ pc' = IF changed THEN "switch" ELSE "running"
    /\ UNCHANGED <<rest, settings, changed, before, opened, bound>>

\* -P: atoi() of the argument, whatever it is
OptionP ==
    /\ pc = "options"
    /\ \E n \in OptionPorts : settings' = [settings EXCEPT !.port = n]
    /\ UNCHANGED <<pc, rest, changed, before, opened, bound>>

OptionMode ==
    /\ pc = "options"
    /\ \E m \in {"t", "p"} : settings' = [settings EXCEPT !.mode = m]
    /\ UNCHANGED <<pc, rest, changed, before, opened, bound>>

\* an option that getopt() does not know
OptionUnknown ==
    /\ pc = "options" /\ pc' = "dead"
    /\ UNCHANGED <<rest, settings, changed, before, opened, bound>>

\* bind() takes htons() of the port: the low 16 bits of the int.
Binds == bound' = settings.port % 65536

OptionsEnd ==
    /\ pc = "options" /\ pc' = "running"
    /\ Binds
    /\ UNCHANGED <<rest, settings, changed, before, opened>>

\* universal_handler closes the old socket and opens the new one.
Switch ==
    /\ pc = "switch" /\ pc' = "running"
    /\ Binds
    /\ UNCHANGED <<rest, settings, changed, before, opened>>

Next ==
    \/ StartUp \/ Sighup
    \/ ReadLine \/ FatalLine \/ EndOfFile
    \/ OptionP \/ OptionMode \/ OptionUnknown \/ OptionsEnd
    \/ Switch

Spec == Init /\ [][Next]_vars

-----------------------------------------------------------------------------
(* What must hold.                                                         *)

\* The type invariant: a port comes from -P, or fits in 16 bits.
TypeOK ==
    /\ pc \in {"begin", "starting", "options", "running", "reloading", "switch", "dead"}
    /\ opened \in Files \cup {<<>>}
    /\ Len(rest) <= Len(opened)
    /\ settings.port \in OptionPorts \cup PortNumbers
    /\ settings.mode \in {"t", "p"}
    /\ settings.home \in Dirs \cup {Cwd}
    /\ changed \in BOOLEAN

\* Reading the file line by line, each line compared with the port the lines
\* above it have left (config.c:226-260), comes to what the file says as a whole:
\* the port of its last acceptable port line, or the old one, and a change if
\* some port line differs from the old port.
FileDecides ==
    pc \in {"starting", "reloading", "switch"} /\ rest = <<>> =>
        /\ settings.port = FilePort(opened, before)
        /\ changed = FileChanges(opened, before)

\* universal_handler (sacagawea.c:159-176) reopens the socket only when
\* read_and_check_conf says so: the flag, collected over all the lines, may
\* never miss a change, or the server would announce a port it is not bound to.
SocketFollowsSettings == pc = "running" => bound = settings.port % 65536

\* config.c:246-250: only the port is looked at when the handler reads the
\* file.  No edit of the file, and no number of reloads, changes the mode, the
\* home directory or the host name of a running server.
ReloadKeepsTheRest ==
    [][(pc \in {"running", "reloading", "switch"}) =>
         settings' = [settings EXCEPT !.port = settings'.port]]_vars
=============================================================================
