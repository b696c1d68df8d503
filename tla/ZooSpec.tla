------------------------------ MODULE ZooSpec -------------------------------
(* What the zoo promises: a bag of entries, each a process and its tag, as the *)
(* number of times it holds each.  A mark adds an entry, a clear removes one,  *)
(* in one step each, whoever else is at it.                                   *)
EXTENDS Naturals

CONSTANTS Pids, Tags
Entry == [pid : Pids, tag : Tags]

VARIABLE zoo

Init == zoo = [e \in Entry |-> 0]
\* The entry that there is more of, or less, is the one that is added, or removed.
Mark(e) == zoo'[e] > zoo[e] /\ zoo' = [zoo EXCEPT ![e] = @ + 1]
Clear(e) == zoo[e] > zoo'[e] /\ zoo' = [zoo EXCEPT ![e] = @ - 1]
Next == \E e \in Entry : Mark(e) \/ Clear(e)
Spec == Init /\ [][Next]_zoo
=============================================================================
