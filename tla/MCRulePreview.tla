--------------------------- MODULE MCRulePreview ---------------------------
(***************************************************************************)
(* A small instance of RulePreview for TLC.                                *)
(***************************************************************************)
EXTENDS RulePreview, TLC

MCWeb == [protocol |-> "tcp", port |-> 443, app |-> "web"]
MCOther == [protocol |-> "tcp", port |-> 443, app |-> NoApp]
MCTelnet == [protocol |-> "tcp", port |-> 23, app |-> NoApp]

MCTwoBuckets == {MCWeb, MCTelnet}
MCBuckets == {MCWeb, MCOther}

MCVerdicts == {[classification |-> "malicious", noise |-> TRUE, riot |-> FALSE],
               [classification |-> "benign", noise |-> FALSE, riot |-> TRUE]}

(* Addresses are interchangeable. *)
MCAddressSymmetry == Permutations(Addresses)
=============================================================================
