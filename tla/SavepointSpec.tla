----------------------------- MODULE SavepointSpec -----------------------------
(****************************************************************************)
(* What savepoints promise a branch, with no undo log in it: a savepoint    *)
(* keeps a copy of the branch's buffered work, and rolling back to a name   *)
(* brings back the copy made by the first savepoint of that name and        *)
(* forgets the later ones.                                                  *)
(****************************************************************************)
EXTENDS Integers, Sequences

VARIABLES work,     \* [entries, order, intents]: the branch's buffered work
          saved     \* sequence of [id, work], oldest first

vars == <<work, saved>>

NoWork == [entries |-> [k \in {} |-> 0], order |-> <<>>, intents |-> <<>>]

Init == work = NoWork /\ saved = <<>>

\* One more intent, which may change the entry of its own object only.
Write ==
    LET n == Len(work'.intents)
        k == work'.intents[n].object
    IN  /\ n = Len(work.intents) + 1
        /\ SubSeq(work'.intents, 1, n - 1) = work.intents
        /\ DOMAIN work'.entries = DOMAIN work.entries \cup {k}
        /\ \A j \in DOMAIN work.entries \ {k} : work'.entries[j] = work.entries[j]
        /\ work'.order = IF k \in DOMAIN work.entries THEN work.order ELSE Append(work.order, k)
        /\ UNCHANGED saved

Save ==
    /\ Len(saved') = Len(saved) + 1
    /\ saved' = Append(saved, [id |-> saved'[Len(saved')].id, work |-> work])
    /\ UNCHANGED work

Restore ==
    \E i \in DOMAIN saved :
        /\ \A j \in 1 .. (i - 1) : saved[j].id # saved[i].id
        /\ work' = saved[i].work
        /\ saved' = SubSeq(saved, 1, i)

Discard == work' = NoWork /\ saved' = <<>>

Next == Write \/ Save \/ Restore \/ Discard

Spec == Init /\ [][Next]_vars
================================================================================
