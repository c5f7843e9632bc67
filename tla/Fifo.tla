-------------------------------- MODULE Fifo --------------------------------
(***************************************************************************)
(* What the modules of the netdisk take the connection for: messages are   *)
(* handled once each and in the order in which they were sent.  A message  *)
(* is its number.                                                          *)
(***************************************************************************)
EXTENDS Naturals, Sequences

VARIABLES
    sent,       \* how many messages were sent
    handled     \* the messages that were handled, in that order

Init == sent = 0 /\ handled = <<>>

Send == sent' = sent + 1 /\ UNCHANGED handled

Handle ==
    /\ Len(handled) < sent
    /\ handled' = Append(handled, Len(handled) + 1)
    /\ UNCHANGED sent

Spec == Init /\ [][Send \/ Handle]_<<sent, handled>>
=============================================================================
