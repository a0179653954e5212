------------------------------- MODULE MCNames -------------------------------
\* Instances of Names for TLC.
EXTENDS Names, TLC

CONSTANTS p1, p2

\* One process makes, enters, opens and removes the directory "a"; the other
\* makes, links and removes files in it and in the root.
FlatPaths == (p1 :> {<<"/", "a">>, <<"b">>}) @@ (p2 :> {<<"/", "a", "b">>, <<"b">>})
FlatDirs == {<<"/", "a">>}
FlatKinds == (p1 :> {"mkdir", "unlink", "chdir", "open", "close"})
             @@ (p2 :> {"creat", "link", "unlink"})

\* A directory in a directory.
DeepPaths == p1 :> {<<"/", "a", "a">>, <<"/", "a">>, <<"..">>}
DeepDirs == {<<"/", "a", "a">>}
DeepKinds == p1 :> {"mkdir", "unlink", "chdir"}

\* Two processes that make and remove files.
RaceKinds == [p \in {p1, p2} |-> {"mknod", "unlink"}]
=============================================================================
