------------------------ MODULE MCSessionVerification ------------------------
(* SessionVerification for TLC: the completions its callers make. *)
EXTENDS SessionVerification, TLC

\* Two kinds of caller: one that names the outcome and leaves the lifecycle to
\* it, and a probe error that names the lifecycle and leaves the reason to its
\* error text.
MCCompletion ==
    { [lifecycle |-> Unset, reason |-> "authenticated", error |-> Unset],
      [lifecycle |-> "failed", reason |-> Unset, error |-> "timeout"] }

MCOneCompletion ==
    { [lifecycle |-> "completed", reason |-> "authenticated", error |-> Unset] }

\* Threads and ids are interchangeable.
MCSymmetry == Permutations(Worker) \cup Permutations(Cycle)
=============================================================================
