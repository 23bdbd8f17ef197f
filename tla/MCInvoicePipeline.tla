-------------------------- MODULE MCInvoicePipeline --------------------------
(* Small instances of InvoicePipeline for TLC. *)
EXTENDS InvoicePipeline, TLC

MCAutoKey == [s \in Sources |-> <<"AUTO", s>>]

MCSymmetry == Permutations(Workers) \cup Permutations(Ids) \cup Permutations(Upstream)
=============================================================================
