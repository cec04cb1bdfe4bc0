--------------------------- MODULE MCFlowTracking ---------------------------
(***************************************************************************)
(* Small instances of FlowTracking for TLC.                                *)
(***************************************************************************)
EXTENDS FlowTracking, TLC

(* Two flows of one service from one private host to two public addresses. *)
MCFlowA == [src |-> "lan1", sport |-> 1, dst |-> "pub1", service |-> "tcp443"]
MCFlowB == [src |-> "lan1", sport |-> 2, dst |-> "pub2", service |-> "tcp443"]

(* A flow that arrives from outside at a private host. *)
MCFlowC == [src |-> "pub1", sport |-> 1, dst |-> "lan1", service |-> "tcp443"]

MCPrivate == {"lan1"}
MCOneKey == {MCFlowA}
MCTwoKeys == {MCFlowA, MCFlowB}
MCMixedKeys == {MCFlowA, MCFlowC}

(* Slots are interchangeable. *)
MCSlotSymmetry == Permutations(Slots)
=============================================================================
