---------------------------- MODULE MCScopedStop ----------------------------
(* Small instances of ScopedStop for TLC. *)
EXTENDS ScopedStop

CONSTANTS s1, s2, m1, m2

Cmd(id, scope, epoch, payload) ==
    [id |-> id, scope |-> scope, epoch |-> epoch, payload |-> payload]

\* Two epochs of one scope, a reuse of the first command_id with another
\* payload and a higher epoch, and a reuse of it in another scope.
MCCommands == {Cmd(m1, s1, 1, 1), Cmd(m2, s1, 2, 1), Cmd(m1, s1, 3, 2),
               Cmd(m1, s2, 1, 1)}
=============================================================================
