---------------------------- MODULE AllOrNothing ----------------------------
(***************************************************************************)
(* What the commit stage of `si generate` promises when nothing crashes:   *)
(* a run replaces all of its N managed files at once, or none of them.     *)
(***************************************************************************)
EXTENDS Integers

CONSTANTS Proc, User, N

VARIABLE published  \* the managed files, by target

File == [author : Proc \cup {User}, state : {"absent", "unsafe", "durable"}]

Init == published \in [1..N -> {c \in File : c.author = User}]

Publish(p) ==
  published' = [f \in 1..N |-> [author |-> p, state |-> "durable"]]

Next == \E p \in Proc : Publish(p)

Spec == Init /\ [][Next]_published
=============================================================================
