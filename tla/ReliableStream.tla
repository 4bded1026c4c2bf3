--------------------------- MODULE ReliableStream ---------------------------
(***************************************************************************)
(* What a remote session promises for each direction: the receiver commits *)
(* the payloads that the sender recorded, in order, each exactly once.     *)
(***************************************************************************)
EXTENDS Naturals, Sequences

CONSTANT Payloads
VARIABLES sent, got   \* payloads recorded by the sender, committed by the receiver

Init == sent = <<>> /\ got = <<>>

Record(v) == sent' = Append(sent, v) /\ got' = got
Take ==
  /\ Len(got) < Len(sent)
  /\ got' = Append(got, sent[Len(got) + 1])
  /\ sent' = sent

Next == Take \/ \E v \in Payloads : Record(v)
Spec == Init /\ [][Next]_<<sent, got>>
=============================================================================
