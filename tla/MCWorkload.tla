------------------------------- MODULE MCWorkload -------------------------------
(* The workloads on a store of two keys: x is the input, and the only key of   *)
(* a scripted task, y the output.                                              *)
EXTENDS Workload

CONSTANTS x, y,      \* keys
          m1, m2     \* savepoint names

XY == {x, y}
Words == {Seed, Draft, Mutated, Result, Tentative, Recovered}
TwoNames == {m1, m2, NoName, CutName}

\* A score with a fraction.
OneScore == {17}

FullStore == [k \in Key |-> Stored(<<5>>, 1)]
\* Another client writes x.
OnePut == {<<x, <<7>> >>}

CasX == [object |-> x, type |-> "Cas", payload |-> <<3>>, condition |-> ValueEquals(<<5>>)]
DeltaX == [object |-> x, type |-> "Delta", payload |-> <<1>>, condition |-> NoCondition]

\* In a task without a driver one branch does everything, another competes with
\* a write; a continuation may be given a third one, which its plan does not have.
SomeReads == {<<1, x>>}
SomeWrites == {<<1, CasX>>, <<2, DeltaX>>}
BranchOne == {1}
TwoBranches == {2}

\* Without and with an injected conflict.  At index 109 the first branch has 119 and
\* the second 129, less and more than a continuation; at index 110 the first has
\* 120, as much; at index 199 both have more.
SomeTasks == {<<0, 2>>, <<2, 3>>, <<109, 2>>, <<110, 2>>, <<199, 2>>}

\* All kinds of steps; the recovery ends in a conditional write.
Delta == MakeWriteStep(x, "Delta", <<1>>, NoCondition)
Script1 ==
    [branches |-> <<[score |-> 20, steps |-> <<MakeReadStep(x), MakeSavepointStep(m2), Delta,
                                               MakeRollbackStep(m2), Delta>>],
                    [score |-> 10, steps |-> <<Delta>>]>>,
     recovery_steps |-> <<MakeSavepointStep(m1), Delta, MakeRollbackStep(m1), MakeReadStep(x),
                          MakeWriteStep(x, "Cas", <<3>>, ValueEquals(<<5>>))>>,
     recovery_score |-> 30, preferred |-> 2]
\* The same with recovery_score left at its default.
Script2 == [Script1 EXCEPT !.recovery_score = 0]
\* And with a continuation on a branch that the plan does not have.
Script3 == [Script1 EXCEPT !.preferred = 3]
SomeScripts == {Script1, Script2, Script3}
=================================================================================
