-------------------------------- MODULE MCVm --------------------------------
\* The instance of Vm for TLC: programs with one segment, with two that share a
\* page boundary, and with a gap; sbrk within a page, over one, and below zero.
EXTENDS Vm
Seg(va, memsz, filesz, w) == [va |-> va, memsz |-> memsz, filesz |-> filesz, w |-> w]
MCFrames == 1 .. 18
MCPrograms == { <<Seg(0, 2, 2, FALSE)>>,
                <<Seg(0, 1, 1, FALSE), Seg(2, 2, 1, TRUE)>>,
                <<Seg(2, 1, 1, FALSE), Seg(0, 1, 1, TRUE)>> }
MCSbrks == {-3, -1, 3}
=============================================================================
