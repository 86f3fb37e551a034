--------------------------- MODULE MCUserCommands ----------------------------
(* A manager, a writer and a name that is not in the data base yet.          *)
EXTENDS UserCommands, TLC

CONSTANTS manager, writer, other

MCUser    == {manager, writer, other}
MCLevelOf == manager :> MANAGER @@ writer :> WRITE
MCNewLevels == {0, ADMIN}
Alike == Permutations(Conn)

(* No guard looks at what was sent last; the action property does, and is    *)
(* checked on every step.                                                    *)
WithoutReply == <<up, conn, shown, tables, faults, told>>
=============================================================================
