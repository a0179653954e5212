------------------------------- MODULE MCFiles -------------------------------
\* An instance of Files for TLC.  Processes, who are also the data they write,
\* and inodes may be renamed; entries of the file table and blocks are taken in
\* their order.
EXTENDS Files, TLC

Symmetry == Permutations(Proc) \cup Permutations(Inode)
=============================================================================
