--------------------------------- MODULE Lists ---------------------------------
(***************************************************************************)
(* Lists, as the loops of the program build them.                          *)
(***************************************************************************)
EXTENDS Naturals, SequencesExt

\* A list, or nothing.
OnlyIf(condition, seq) == IF condition THEN seq ELSE <<>>

\* The elements at some places of a list, in order: a loop with a continue.
Kept(seq, places) == FlattenSeq([i \in DOMAIN seq |-> OnlyIf(i \in places, <<seq[i]>>)])
==============================================================================
