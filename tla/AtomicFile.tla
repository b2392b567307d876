----------------------------- MODULE AtomicFile -----------------------------
(***************************************************************************)
(* What `si dashboard` promises about dashboard.json: at any moment it is  *)
(* one complete version, whatever runs, fails or loses power; only a run   *)
(* with --force replaces a version that is there, and nothing replaces a   *)
(* file that is not safe to replace.                                       *)
(***************************************************************************)
CONSTANTS Proc, Forced, User, Unsafe, None

VARIABLES file,   \* the version a reader sees
          stable  \* the version that survives a power loss

Version == Proc \cup {User, Unsafe, None}

Init == file \in {User, Unsafe, None} /\ stable = file

Replace(p) ==
  /\ file # Unsafe
  /\ file # None => p \in Forced
  /\ file' = p
  /\ UNCHANGED stable

Persist == stable' = file /\ UNCHANGED file

Lose == file' = stable /\ UNCHANGED stable

Next == (\E p \in Proc : Replace(p)) \/ Persist \/ Lose

Spec == Init /\ [][Next]_<<file, stable>>
=============================================================================
