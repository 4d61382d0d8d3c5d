--------------------------- MODULE MessageChannel ---------------------------
(***************************************************************************)
(* What a stream of frames promises: the messages that were sent arrive in *)
(* the order they were sent, each at most once, none altered.              *)
(***************************************************************************)
EXTENDS Naturals, Sequences

CONSTANT Item

VARIABLES sent, delivered

ChannelInit == sent = << >> /\ delivered = << >>

Put(m) == sent' = Append(sent, m) /\ UNCHANGED delivered

Deliver == /\ Len(delivered) < Len(sent)
           /\ delivered' = Append(delivered, sent[Len(delivered) + 1])
           /\ UNCHANGED sent

ChannelNext == Deliver \/ \E m \in Item : Put(m)

ChannelSpec == ChannelInit /\ [][ChannelNext]_<<sent, delivered>>
=============================================================================
