-------------------------- MODULE OrderedDelivery --------------------------
(***************************************************************************)
(* What the gateway promises the consumer of one task: however often the   *)
(* connection breaks, the outputs the consumer has are a prefix of the     *)
(* outputs the module wrote, each once and in the order of writing.        *)
(***************************************************************************)
EXTENDS Naturals, Sequences

CONSTANT Outputs   \* what the module may write

VARIABLES
  written,    \* outputs of the module that precede the end of its stream
  delivered   \* outputs the consumer has received

vars == <<written, delivered>>

Init == written = <<>> /\ delivered = <<>>

Write ==
  /\ \E out \in Outputs : written' = Append(written, out)
  /\ UNCHANGED delivered

Deliver ==
  /\ Len(delivered) < Len(written)
  /\ delivered' = Append(delivered, written[Len(delivered) + 1])
  /\ UNCHANGED written

Next == Write \/ Deliver

Spec == Init /\ [][Next]_vars
=============================================================================
