--------------------------- MODULE MCTrustedAgent ---------------------------
(* Instances of TrustedAgent for TLC. *)
EXTENDS TrustedAgent, TLC

CONSTANTS P

\* A policy that asks nothing of routine actions but refuses the provider, the
\* default one with a provider that needs a human, and none.
MCPolicies ==
    {[override |-> "deny", threshold |-> "consequential",
      autoInformational |-> TRUE, autoRoutine |-> TRUE],
     [override |-> "require_human", threshold |-> "routine",
      autoInformational |-> TRUE, autoRoutine |-> FALSE],
     NoPolicy}

MCRequest ==
    {[proposal |-> P, level |-> "routine", provider |-> n, record |-> FALSE] :
        n \in BOOLEAN}
    \cup {[proposal |-> P, level |-> "routine", provider |-> FALSE, record |-> TRUE]}

MCSymmetry == Permutations(Action) \cup Permutations(Worker)
=============================================================================
