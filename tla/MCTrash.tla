-------------------------------- MODULE MCTrash --------------------------------
\* Values for TLC: two photos of one name, whose days share a trash directory,
\* and one of another name.
EXTENDS Trash, TLC

MCSlot == [p \in Lib |-> IF p = "e" THEN "u" ELSE "t"]

\* One request is as good as another.
AnyOrder == Permutations(Clients)
=============================================================================
