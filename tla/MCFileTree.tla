----------------------------- MODULE MCFileTree -----------------------------
EXTENDS FileTree

NavOrder == <<"w", "d", "f", "g">>
NavParentOf == [p \in {"d", "f", "g"} |-> IF p = "f" THEN "d" ELSE "w"]
NavDirs == {"w", "d"}
NavLayouts == {[paths |-> Paths, expanded |-> NavDirs], [paths |-> {"w"}, expanded |-> {}]}
=============================================================================
