--------------------------- MODULE MCProjectReplace ---------------------------
(***************************************************************************)
(* A table, and a binding that needs a piece and a connection.  The two    *)
(* versions of the source differ in both: the table is new or goes, the    *)
(* binding is enabled and loses its property settings or the reverse.  The *)
(* destination is empty, or has another table and a binding whose piece is *)
(* of another version.                                                     *)
(*                                                                         *)
(* A content is a status, whether there are property settings, and the     *)
(* version of the piece.  An update of a binding neither clears the        *)
(* settings nor changes the version, and the differences pass over the     *)
(* version.                                                                *)
(***************************************************************************)
EXTENDS ProjectReplace, TLC

CONSTANTS o1, o2, table, binding, piece, conn

MCKind == (table :> "table") @@ (binding :> "trigger_binding")
MCPrompt == [n \in {table, binding} |-> 0]
MCNeeds == (table :> {}) @@ (binding :> {piece, conn})

MCBodies == {"on"} \X BOOLEAN \X {1, 2} \cup {"off"} \X {TRUE} \X {1, 2}
MCEnabled == {b \in MCBodies : b[1] = "on"}

MCMade(n, b) == {b}
MCWritten(n, x, b) ==
    IF n = table \/ x = Partial THEN {b} ELSE {<<b[1], b[2] \/ x[2], x[3]>>}
MCAlike(n, b) ==
    IF n = table THEN {b} ELSE {c \in MCBodies : c[1] = b[1] /\ c[2] = b[2]}

Nothing == [n \in {table, binding} |-> None]
First == (table :> <<"on", FALSE, 1>>) @@ (binding :> <<"on", FALSE, 1>>)
Second == (table :> None) @@ (binding :> <<"off", TRUE, 1>>)
Other == (table :> <<"off", TRUE, 1>>) @@ (binding :> <<"off", TRUE, 2>>)
MCVersions == {First, Second}
MCBefore == {Nothing, Other}
===============================================================================
