------------------------ MODULE MCEffectReservation ------------------------
(* Small instances of EffectReservation for TLC. *)
EXTENDS EffectReservation, TLC

\* A release window that closes before the last tick of the instance.
MCWindows == {<<1, 3>>}

\* References are only ever compared with one another.
MCSymmetry == Permutations(Execs) \cup Permutations(Effects)
              \cup Permutations(CommandIds)
=============================================================================
