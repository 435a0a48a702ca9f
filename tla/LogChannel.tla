----------------------------- MODULE LogChannel -----------------------------
(***************************************************************************)
(* What the log pipe promises, whatever processes and locks implement it:  *)
(* the transfers announced by the sender threads appear in sacagawea.log   *)
(* one line each, in the order in which they were announced, none twice    *)
(* and none before it was announced.                                       *)
(*                                                                         *)
(* FairSpec adds that every announced transfer is logged in the end.       *)
(***************************************************************************)
EXTENDS Naturals, Sequences

CONSTANT Senders   \* one sender thread, hence one record, per transfer

VARIABLES
    sent,          \* the records announced, in order
    logged         \* the lines of sacagawea.log, as the records they describe

vars == <<sent, logged>>

Init == sent = <<>> /\ logged = <<>>

Announce(r) ==
    /\ \A i \in 1..Len(sent) : sent[i] # r
    /\ sent' = Append(sent, r)
    /\ UNCHANGED logged

Deliver ==
    /\ Len(logged) < Len(sent)
    /\ logged' = Append(logged, sent[Len(logged) + 1])
    /\ UNCHANGED sent

Next == Deliver \/ \E r \in Senders : Announce(r)

Spec == Init /\ [][Next]_vars

FairSpec == Spec /\ WF_vars(Deliver)
=============================================================================
