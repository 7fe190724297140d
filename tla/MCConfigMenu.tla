----------------------------- MODULE MCConfigMenu ----------------------------
EXTENDS ConfigMenu, TLC

\* "a/b" is written to the file that "a_b" stands for.
AllFiles == {"a_b", "legit", "rage"}
InOrder == <<"a_b", "legit", "rage">>

CleanNames == {}
CleanPath == [f \in AllFiles |-> f]

UncleanNames == {"a/b"}
UncleanPath == CleanPath @@ ("a/b" :> "a_b")
=============================================================================
