------------------------------- MODULE AtomicStore -------------------------------
(****************************************************************************)
(* What a transaction is to everybody else: a set of keys it means to       *)
(* write, and one step in which all of them change, or none.                *)
(****************************************************************************)
EXTENDS Integers

CONSTANTS Key, Txn

VARIABLES store,      \* [exists, version, value] by key
          outcome,    \* outcome[t]: open, committed or aborted
          intended    \* intended[t]: the keys t's commit would write

vars == <<store, outcome, intended>>

Init ==
    /\ outcome = [t \in Txn |-> "open"]
    /\ intended = [t \in Txn |-> {}]

Changed == {k \in Key : store'[k] # store[k]}

Bumped(k) == store'[k].exists /\ store'[k].version = store[k].version + 1

\* Until its outcome is known, t may change its mind about what to write.
Work(t) ==
    /\ outcome[t] = "open"
    /\ intended' = [intended EXCEPT ![t] = intended'[t]]
    /\ UNCHANGED <<store, outcome>>

Commit(t) ==
    /\ outcome[t] = "open"
    /\ Changed = intended[t]
    /\ \A k \in Changed : Bumped(k)
    /\ outcome' = [outcome EXCEPT ![t] = "committed"]
    /\ UNCHANGED intended

Abort(t) ==
    /\ outcome[t] = "open"
    /\ outcome' = [outcome EXCEPT ![t] = "aborted"]
    /\ UNCHANGED <<store, intended>>

\* A client outside the transactions.
ExternalPut(k) ==
    /\ Changed = {k}
    /\ Bumped(k)
    /\ UNCHANGED <<outcome, intended>>

Next ==
    \/ \E t \in Txn : Work(t) \/ Commit(t) \/ Abort(t)
    \/ \E k \in Key : ExternalPut(k)

Spec == Init /\ [][Next]_vars
================================================================================
