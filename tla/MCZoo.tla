------------------------------- MODULE MCZoo --------------------------------
(* A small instance of Zoo: three drivers, two of them with one number, one    *)
(* after the other, and ltp-bump.                                             *)
EXTENDS Zoo

M(p, t) == [do |-> "mark", pid |-> p, tag |-> t, hard |-> TRUE]
C(p, h) == [do |-> "clear", pid |-> p, tag |-> "fs", hard |-> h]
\* A driver enters itself, allocates a line for its slot, and removes itself; or has no
\* slots.
SlotProg(self, t) == << M(self, t), M(0, t), C(0, TRUE), C(self, FALSE) >>
BareProg(self, t) == << M(self, t), C(self, FALSE) >>
BumpProg(t) == << [do |-> "find", pid |-> 0, tag |-> t, hard |-> FALSE],
                  [do |-> "bump", pid |-> 0, tag |-> t, hard |-> FALSE] >>

\* b and r have one number, one after the other.  ltp-bump is asked for the tag of the
\* driver a, under which it may find a's placeholder.
ProgAll == [c \in Clients |-> CASE c = "a" -> SlotProg(10, "fs")
                                [] c = "b" -> SlotProg(20, "net")
                                [] c = "r" -> BareProg(20, "net")
                                [] OTHER -> BumpProg("fs")]
PidAll == [c \in Clients |-> CASE c = "a" -> 10 [] c \in {"b", "r"} -> 20 [] OTHER -> 30]
AllPids == {0, 10, 20, 30}
AllTags == {"fs", "net"}
Prefixes == [p \in AllTags \X AllTags |-> p[1] = p[2]]
=============================================================================
