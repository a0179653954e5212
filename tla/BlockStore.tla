----------------------------- MODULE BlockStore -----------------------------
(***************************************************************************)
(* What the buffer cache (kernel/bio.c) promises its callers: one current  *)
(* copy of every disk block, which only the one process that holds the     *)
(* block may change.                                                       *)
(***************************************************************************)
CONSTANTS Proc, Block, Val,
          None      \* no process

VARIABLES contents,  \* the current contents of each block
          holder     \* who holds each block, between bread and brelse

storeVars == <<contents, holder>>

StoreInit == contents \in [Block -> Val] /\ holder = [b \in Block |-> None]

Acquire(p, b) ==
  /\ holder[b] = None
  /\ holder' = [holder EXCEPT ![b] = p]
  /\ UNCHANGED contents

Update(p, b, v) ==
  /\ holder[b] = p
  /\ contents' = [contents EXCEPT ![b] = v]
  /\ UNCHANGED holder

Release(p, b) ==
  /\ holder[b] = p
  /\ holder' = [holder EXCEPT ![b] = None]
  /\ UNCHANGED contents

StoreNext ==
  \E p \in Proc, b \in Block :
    Acquire(p, b) \/ Release(p, b) \/ \E v \in Val : Update(p, b, v)

StoreSpec == StoreInit /\ [][StoreNext]_storeVars
=============================================================================
