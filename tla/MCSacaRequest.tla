--------------------------- MODULE MCSacaRequest ---------------------------
(***************************************************************************)
(* SacaRequest on a small instance.  The first client sends a few odd      *)
(* requests; the second one's is short, so that the two meet at the file.  *)
(***************************************************************************)
EXTENDS SacaRequest

Clients == {1, 2}
BothModes == {"t", "p"}
Root == <<"/", "s">>

Eol == <<CR, LF>>
TwoLines == Eol \o <<"b">> \o Eol                  \* homedir, and a second line
Odd == {<<".", ".", "/">> \o Eol,
        <<"a", CR, Quote, Backslash>> \o Eol,        \* fills the buffer
        <<"a", "b", "c", "d", "e", "f">> \o Eol,     \* \r\n is too far
        TwoLines,
        <<"a", CR>>}                                \* never ends
Texts == [w \in Clients |-> IF w = 1 THEN Odd ELSE {<<"b">> \o Eol}]

Mime(major, minor) == [major |-> major, minor |-> minor]
Known == {Mime("inode", "directory"), Mime("inode", "x-empty"), Mime("inode", "fifo"),
          Mime("application", "gopher"), Mime("application", "pdf"),
          Mime("application", "mac"), Mime("multipart", "mixed"),
          Mime("audio", "ogg"), Mime("text", "html"), Mime("text", "plain"),
          Mime("image", "gif"), Mime("image", "png")}

\* A child reads as a thread does: its clients need not be as odd.
SmallInit == Init /\ (mode = "p" => inbox[1] = TwoLines)
SmallSpec == SmallInit /\ [][Next]_vars /\ Scheduling
=============================================================================
