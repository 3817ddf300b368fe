---------------------------- MODULE Authorization ----------------------------
(***************************************************************************)
(* What the trusted agent promises its user, without threads, locks,       *)
(* policies or clocks: an action is put to the user, granted or refused    *)
(* once; a refusal stands; only a granted action is executed; the first    *)
(* execution of an action, and every one that nobody overtook, adds its    *)
(* receipt to a ledger of which nothing is ever changed.                   *)
(***************************************************************************)
EXTENDS Sequences

CONSTANTS Action,
          Result    \* what an execution can end with

VARIABLES standing, \* Action -> none, asked, granted or refused
          outcome,  \* Action -> what its last execution ended with, or "none"
          ledger    \* Action -> the results its receipts tell, in their order

authVars == <<standing, outcome, ledger>>

AuthInit ==
    /\ standing = [a \in Action |-> "none"]
    /\ outcome = [a \in Action |-> "none"]
    /\ ledger = [a \in Action |-> <<>>]

\* An execution ends with r; the ledger gets its receipt.
Receipted(a, r) ==
    /\ outcome' = [outcome EXCEPT ![a] = r]
    /\ ledger' = [ledger EXCEPT ![a] = Append(@, r)]

\* A proposal is put to the user, or granted or refused without asking.
Open(a, s) ==
    /\ standing[a] = "none"
    /\ standing' = [standing EXCEPT ![a] = s]
    /\ UNCHANGED <<outcome, ledger>>

\* An action that only leaves a record is granted and executed at once.
Record(a, r) ==
    /\ standing[a] = "none"
    /\ standing' = [standing EXCEPT ![a] = "granted"]
    /\ Receipted(a, r)

\* The actions of S are refused and those of G granted: by the answer to one of
\* them, or because the time to answer is over.
Settle(S, G) ==
    /\ \A a \in S \cup G : standing[a] = "asked"
    /\ standing' = [a \in Action |-> IF a \in G THEN "granted"
                                     ELSE IF a \in S THEN "refused" ELSE standing[a]]
    /\ UNCHANGED <<outcome, ledger>>

Run(a, r) ==
    /\ standing[a] = "granted"
    /\ Receipted(a, r)
    /\ UNCHANGED standing

\* An execution of an attempt that another one, racing it, has left a receipt of:
\* its result stands and gets no receipt.
Overtaken(a, r) ==
    /\ standing[a] = "granted" /\ ledger[a] # <<>>
    /\ outcome' = [outcome EXCEPT ![a] = r]
    /\ UNCHANGED <<standing, ledger>>

\* An answer grants one action at most.
AuthNext ==
    \/ \E S \in SUBSET Action : Settle(S, {}) \/ \E a \in Action \ S : Settle(S, {a})
    \/ \E a \in Action, s \in {"asked", "granted", "refused"} : Open(a, s)
    \/ \E a \in Action, r \in Result : Record(a, r) \/ Run(a, r) \/ Overtaken(a, r)

AuthSpec == AuthInit /\ [][AuthNext]_authVars
=============================================================================
