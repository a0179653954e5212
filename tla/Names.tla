-------------------------------- MODULE Names --------------------------------
(***************************************************************************)
(* The name space of the file system: the inode table and the directory    *)
(* operations of kernel/fs.c, and the system calls of kernel/sysfile.c     *)
(* that change names, run by several processes, with crashes.              *)
(*                                                                         *)
(* What a call does between taking an inode's sleep-lock and waiting for   *)
(* the next one is one action.  The unlocks and iputs that end it are kept *)
(* in todo and are steps of their own, since iput may free the inode.      *)
(*                                                                         *)
(* Every change of an inode in memory is followed by iupdate under the     *)
(* same lock, so one copy stands for both.  The log is AtomicFs: the end   *)
(* of the last active call makes everything durable.                       *)
(***************************************************************************)
EXTENDS Naturals, Sequences, FiniteSets, FiniteSetsExt

CONSTANTS Proc,
          Name,      \* ordinary names
          Inums,     \* sb.ninodes - 1: inodes 1 .. Inums
          NINODE,    \* entries of the inode table
          Paths,     \* the paths that each process uses; "/" first: from the root
          DirPaths,  \* paths that programs pass to mkdir
          Kinds,     \* the system calls that each process makes
          MaxCalls,  \* bound: calls that a process makes
          MaxCrash   \* bound: how often the machine stops

Inum == 1 .. Inums
ROOTINO == 1
None == 0
Entry == Name \cup {".", ".."}

VARIABLES
  di,       \* inodes: type, nlink, what a directory holds (ents) and, a history
            \* variable, how many names went with a removed directory (lost)
  saved,    \* the inodes that a reboot would find
  active,   \* processes between begin_op and end_op
  it,       \* the inode table by inum: ref, valid, holder of the sleep-lock
  pr,       \* processes: cwd, ofile (an inode it has open); where it is (pc),
            \* in which call (kind), with which path left and second path
            \* (new), last element (name), locals ip and dp (namex walks in
            \* dp, and returns to label next), todo, and calls left
  crashes   \* crashes so far

vars == <<di, saved, active, it, pr, crashes>>

NoEnts == [n \in Entry |-> None]
DirEnts(self, up) == [NoEnts EXCEPT !["."] = self, ![".."] = up]
FreeInode == [type |-> "none", nlink |-> 0, ents |-> NoEnts, lost |-> 0]
Idle(d, f, n) == [pc |-> "user", kind |-> "close", path |-> <<>>, new |-> <<>>,
                  name |-> ".", ip |-> None, dp |-> None, next |-> "end_op",
                  todo |-> <<>>, cwd |-> d, ofile |-> f,
                  left |-> n]
Boot == [i \in Inum |-> [ref |-> IF i = ROOTINO THEN Cardinality(Proc) ELSE 0,
                         valid |-> FALSE, lk |-> None]]

\* mkfs left a root directory, and earlier calls a directory a in it, with or
\* without a file b.  Processes start at the root.
Init ==
  /\ \E n \in 2 .. 3 :
       di = [i \in Inum |->
         CASE i > n -> FreeInode
           [] i = ROOTINO -> [FreeInode EXCEPT !.type = "dir", !.nlink = 2,
                        !.ents = [DirEnts(ROOTINO, ROOTINO) EXCEPT !["a"] = 2]]
           [] i = 2 -> [FreeInode EXCEPT !.type = "dir", !.nlink = 1,
                        !.ents = [DirEnts(2, ROOTINO) EXCEPT
                                    !["b"] = IF n > 2 THEN 3 ELSE None]]
           [] OTHER -> [FreeInode EXCEPT !.type = "file", !.nlink = 1]]
  /\ saved = di
  /\ active = {}
  /\ it = Boot
  /\ pr = [p \in Proc |-> Idle(ROOTINO, None, MaxCalls)]
  /\ crashes = 0

-----------------------------------------------------------------------------
\* The inode table.

Unlock(i) == <<"unlock", i>>
Put(i) == <<"iput", i>>
UnlockPut(i) == <<<<"unlockput", i>>>>

\* p goes on as q.
GoWith(p, q) == pr' = [pr EXCEPT ![p] = q]

\* iget's panic ("no inodes") keeps itable.lock for ever.
NoInodes(p) == pr[p].todo = <<<<"no_inodes", None>>>>
TableFree == \A p \in Proc : ~ NoInodes(p)

\* iget and idup on i: one more reference; an entry taken anew is not valid,
\* and there must be one.  p goes on as q, with the rest of the table as given.
iget(p, table, i, q) ==
  /\ TableFree
  /\ IF table[i].ref > 0 \/ Cardinality({j \in Inum : table[j].ref > 0}) < NINODE
     THEN /\ it' = [table EXCEPT ![i].ref = @ + 1, ![i].valid = @ /\ table[i].ref > 0]
          /\ GoWith(p, q)
     ELSE it' = table /\ pr' = [pr EXCEPT ![p].todo = <<<<"no_inodes", None>>>>]

\* The labels at which a call locks dp, and those at which it locks ip.
AtDp == {"create_dp", "link_dp", "unlink_dp"}
AtIp == {"create_found", "create_ip", "open_ip", "chdir_ip", "link_ip", "link_bad",
         "unlink_ip"}

\* The inode whose sleep-lock p asks for next, if any.
Wants(p) ==
  LET q == pr[p] IN
  CASE q.todo # <<>> -> None
    [] q.pc \in AtIp -> q.ip
    [] q.pc \in AtDp -> q.dp
    [] q.pc = "namex" /\ q.path # <<>> -> q.dp
    [] OTHER -> None

\* p is at label l, owes nothing, and ilock(i) succeeds.
Ilock(p, l, i) ==
  /\ pr[p].pc = l
  /\ Wants(p) = i
  /\ it[i].lk = None
  /\ di[i].type # "none"

\* The table with i read in and held by p; with i read in and released.
Held(p, i) == [it EXCEPT ![i].valid = TRUE, ![i].lk = p]
Seen(i) == [it EXCEPT ![i].valid = TRUE]

\* ilock finds no inode on the disk: panic("ilock: no type").
IlockPanics(p) ==
  LET i == Wants(p) IN i # None /\ it[i].lk = None /\ di[i].type = "none"

\* The step that p owes first.
Owes(p, what, i) == pr[p].todo # <<>> /\ Head(pr[p].todo) = <<what, i>>
Becomes(p, whats) == pr' = [pr EXCEPT ![p].todo = whats \o Tail(@)]

iunlock(p) ==
  \E i \in Inum :
    /\ Owes(p, "unlock", i)
    /\ it' = [it EXCEPT ![i].lk = None]
    /\ Becomes(p, <<>>)
    /\ UNCHANGED <<di, saved, active, crashes>>

\* Nobody names the inode any more: the last iput frees it.
LastPut(i) == it[i].ref = 1 /\ it[i].valid /\ di[i].nlink = 0

\* The inodes when i is freed, and with it the names that were written into it
\* after it had been removed.
Freed(i) ==
  [j \in Inum |->
     IF j = i THEN FreeInode
     ELSE [di[j] EXCEPT !.lost = @ + Cardinality({n \in Name : di[i].ents[n] = j})]]

\* iput, and in the case it frees the inode its three steps: truncate and
\* clear the type under the sleep-lock, release it, drop the reference.
\* iunlockput is one step: who locks the inode in between has a reference,
\* so iput then only drops its own.
iput(p) ==
  /\ UNCHANGED <<saved, active, crashes>>
  /\ \E i \in Inum :
       \/ /\ Owes(p, "iput", i) \/ Owes(p, "unlockput", i)
          /\ TableFree
          /\ IF LastPut(i)
             THEN /\ it[i].lk \in {None, p}
                  /\ it' = [it EXCEPT ![i].lk = p]
                  /\ Becomes(p, <<<<"free", i>>>>)
             ELSE /\ it' = [it EXCEPT ![i].ref = @ - 1,
                              ![i].lk = IF Owes(p, "unlockput", i) THEN None ELSE @]
                  /\ Becomes(p, <<>>)
          /\ UNCHANGED di
       \/ /\ Owes(p, "free", i)
          /\ di' = Freed(i)
          /\ Becomes(p, <<<<"invalid", i>>>>)
          /\ UNCHANGED it
       \/ /\ Owes(p, "invalid", i)
          /\ it' = [it EXCEPT ![i].valid = FALSE, ![i].lk = None]
          /\ Becomes(p, <<<<"drop", i>>>>)
          /\ UNCHANGED di
       \/ /\ Owes(p, "drop", i) /\ TableFree
          /\ it' = [it EXCEPT ![i].ref = @ - 1]
          /\ Becomes(p, <<>>)
          /\ UNCHANGED di

-----------------------------------------------------------------------------
\* Directories and paths.

\* p goes on at label l after the steps todo.
Go(p, l, todo) == pr' = [pr EXCEPT ![p].pc = l, ![p].todo = todo]

\* The call is done but for the steps todo and end_op; its locals are dead.
Done(p, d, f, todo) ==
  GoWith(p, [Idle(d, f, pr[p].left) EXCEPT !.pc = "end_op", !.todo = todo])
Return(p, todo) == Done(p, pr[p].cwd, pr[p].ofile, todo)

\* dirlookup in the directory d.
dirlookup(d, n) == di[d].ents[n]

Parent(p) == pr[p].next \in AtDp
Fail(p, todo) == IF pr[p].next = "link_dp" THEN Go(p, "link_bad", todo)
                 ELSE Return(p, todo)

\* namex begins at the root or at the working directory.
Start(p, way) == IF way[1] = "/" THEN ROOTINO ELSE pr[p].cwd
Rest(way) == IF way[1] = "/" THEN Tail(way) ELSE way

\* The path is used up.
NamexEnd(p) ==
  LET q == pr[p] IN
  /\ q.pc = "namex" /\ q.todo = <<>> /\ q.path = <<>>
  /\ IF Parent(p)
     THEN Fail(p, <<Put(q.dp)>>)
     ELSE GoWith(p, [q EXCEPT !.pc = q.next, !.ip = q.dp, !.dp = None])
  /\ UNCHANGED <<di, saved, active, it, crashes>>

\* One element: lock the directory and look the element up.
NamexStep(p) ==
  LET q == pr[p]
      found == dirlookup(q.dp, Head(q.path))
  IN
  /\ Ilock(p, "namex", q.dp)
  /\ \/ /\ di[q.dp].type # "dir"
        /\ it' = Seen(q.dp)
        /\ Fail(p, <<Put(q.dp)>>)
     \/ /\ di[q.dp].type = "dir"
        /\ Parent(p) /\ Len(q.path) = 1
        /\ it' = Seen(q.dp)
        /\ GoWith(p, [q EXCEPT !.pc = q.next, !.name = q.path[1], !.path = <<>>])
     \/ /\ di[q.dp].type = "dir"
        /\ ~ (Parent(p) /\ Len(q.path) = 1)
        /\ found = None
        /\ it' = Seen(q.dp)
        /\ Fail(p, <<Put(q.dp)>>)
     \/ /\ di[q.dp].type = "dir"
        /\ ~ (Parent(p) /\ Len(q.path) = 1)
        /\ found # None
        /\ iget(p, Held(p, q.dp), found,
                [q EXCEPT !.dp = found, !.path = Tail(@), !.todo = UnlockPut(q.dp)])
  /\ UNCHANGED <<di, saved, active, crashes>>

-----------------------------------------------------------------------------
\* The system calls.

Label(k) == CASE k = "open" -> "open_ip"
              [] k = "link" -> "link_ip"
              [] k = "chdir" -> "chdir_ip"
              [] k = "unlink" -> "unlink_dp"
              [] OTHER -> "create_dp"

\* begin_op, and the start of the first namex.
Call(p) ==
  \E k \in Kinds[p] \ {"close"}, way \in Paths[p], way2 \in Paths[p] :
    /\ pr[p].pc = "user" /\ pr[p].left > 0
    /\ k = "mkdir" => way \in DirPaths
    /\ k # "link" => way2 = way
    /\ k \in {"open", "creat"} => pr[p].ofile = None
    /\ active' = active \cup {p}
    /\ iget(p, it, Start(p, way),
            [pr[p] EXCEPT !.pc = "namex", !.kind = k, !.path = Rest(way),
                          !.new = IF k = "link" THEN way2 ELSE <<>>,
                          !.dp = Start(p, way), !.next = Label(k), !.left = @ - 1])
    /\ UNCHANGED <<di, saved, crashes>>

\* close of the last descriptor of a file.
Close(p) ==
  /\ "close" \in Kinds[p]
  /\ pr[p].pc = "user" /\ pr[p].left > 0 /\ pr[p].ofile # None
  /\ active' = active \cup {p}
  /\ GoWith(p, [Idle(pr[p].cwd, None, pr[p].left - 1) EXCEPT
                  !.pc = "end_op", !.todo = <<Put(pr[p].ofile)>>])
  /\ UNCHANGED <<di, saved, it, crashes>>

\* end_op: the last call to end commits.
EndOp(p) ==
  /\ pr[p].pc = "end_op" /\ pr[p].todo = <<>>
  /\ active' = active \ {p}
  /\ saved' = IF active' = {} THEN di ELSE saved
  /\ GoWith(p, Idle(pr[p].cwd, pr[p].ofile, pr[p].left))
  /\ UNCHANGED <<di, it, crashes>>

\* sys_open once it holds ip: a directory may only be read; the file table
\* or the descriptors may be full.
OpenTail(p, i, todo) ==
  \/ Return(p, todo \o UnlockPut(i))
  \/ Done(p, pr[p].cwd, i, todo \o <<Unlock(i)>>)

OpenIp(p) ==
  /\ Ilock(p, "open_ip", pr[p].ip)
  /\ it' = Held(p, pr[p].ip)
  /\ OpenTail(p, pr[p].ip, <<>>)
  /\ UNCHANGED <<di, saved, active, crashes>>

\* create: the name is there already, or a new inode is allocated for it.
Unused == {i \in Inum : di[i].type = "none"}
ialloc == CHOOSE i \in Unused : \A j \in Unused : i <= j
TypeOf(k) == IF k = "mkdir" THEN "dir" ELSE IF k = "mknod" THEN "dev" ELSE "file"

CreateDp(p) ==
  LET q == pr[p]
      found == dirlookup(q.dp, q.name)
  IN
  /\ Ilock(p, "create_dp", q.dp)
  /\ \/ /\ found # None
        /\ iget(p, Held(p, q.dp), found,
                [q EXCEPT !.pc = "create_found", !.ip = found, !.dp = None,
                          !.todo = UnlockPut(q.dp)])
        /\ UNCHANGED di
     \/ /\ found = None /\ Unused = {}
        /\ it' = Held(p, q.dp)
        /\ Return(p, UnlockPut(q.dp))
        /\ UNCHANGED di
     \/ /\ found = None /\ Unused # {}
        /\ di' = [di EXCEPT ![ialloc].type = TypeOf(q.kind)]
        /\ iget(p, Held(p, q.dp), ialloc, [q EXCEPT !.pc = "create_ip", !.ip = ialloc])
  /\ UNCHANGED <<saved, active, crashes>>

\* The name exists: only open(O_CREATE) of a file or a device goes on with it.
CreateFound(p) ==
  LET q == pr[p] IN
  /\ Ilock(p, "create_found", q.ip)
  /\ it' = Held(p, q.ip)
  /\ IF q.kind = "creat" /\ di[q.ip].type \in {"file", "dev"}
     THEN OpenTail(p, q.ip, <<>>)
     ELSE Return(p, UnlockPut(q.ip))
  /\ UNCHANGED <<di, saved, active, crashes>>

\* The new inode: its links, "." and "..", and the entry in the parent.  Any
\* dirlink may fail for want of a block; the inode then goes with its iput.
CreateIp(p) ==
  LET q == pr[p]
      dir == q.kind = "mkdir"
      made == [FreeInode EXCEPT !.type = TypeOf(q.kind), !.nlink = 1,
               !.ents = IF dir THEN DirEnts(q.ip, q.dp) ELSE NoEnts]
  IN
  /\ Ilock(p, "create_ip", q.ip)
  /\ it' = Held(p, q.ip)
  /\ \/ /\ di' = [di EXCEPT ![q.ip] = made, ![q.dp].ents[q.name] = q.ip,
                            ![q.dp].nlink = IF dir THEN @ + 1 ELSE @]
        /\ IF q.kind = "creat"
           THEN OpenTail(p, q.ip, UnlockPut(q.dp))
           ELSE Return(p, UnlockPut(q.dp) \o UnlockPut(q.ip))
     \/ /\ di' = [di EXCEPT ![q.ip] = [made EXCEPT !.nlink = 0]]
        /\ Return(p, UnlockPut(q.ip) \o UnlockPut(q.dp))
  /\ UNCHANGED <<saved, active, crashes>>

\* Mutant: the link is not counted.
LinkIpUncounted(p) ==
  LET q == pr[p] IN
  /\ Ilock(p, "link_ip", q.ip)
  /\ IF di[q.ip].type = "dir"
     THEN /\ it' = Held(p, q.ip)
          /\ Return(p, UnlockPut(q.ip))
     ELSE iget(p, Seen(q.ip), Start(p, q.new),
               [q EXCEPT !.pc = "namex", !.path = Rest(q.new), !.new = <<>>,
                         !.dp = Start(p, q.new), !.next = "link_dp"])
  /\ UNCHANGED <<di, saved, active, crashes>>

\* link: count the new link first, then find the directory for it.
LinkIp(p) ==
  LET q == pr[p] IN
  /\ Ilock(p, "link_ip", q.ip)
  /\ IF di[q.ip].type = "dir"
     THEN /\ it' = Held(p, q.ip)
          /\ Return(p, UnlockPut(q.ip))
          /\ UNCHANGED di
     ELSE /\ di' = [di EXCEPT ![q.ip].nlink = @ + 1]
          /\ iget(p, Seen(q.ip), Start(p, q.new),
                  [q EXCEPT !.pc = "namex", !.path = Rest(q.new), !.new = <<>>,
                            !.dp = Start(p, q.new), !.next = "link_dp"])
  /\ UNCHANGED <<saved, active, crashes>>

LinkDp(p) ==
  LET q == pr[p]
      found == dirlookup(q.dp, q.name)
  IN
  /\ Ilock(p, "link_dp", q.dp)
  /\ \/ /\ found = None
        /\ it' = Held(p, q.dp)
        /\ di' = [di EXCEPT ![q.dp].ents[q.name] = q.ip]
        /\ Return(p, UnlockPut(q.dp) \o <<Put(q.ip)>>)
     \/ /\ found = None
        /\ it' = Held(p, q.dp)
        /\ Go(p, "link_bad", UnlockPut(q.dp))
        /\ UNCHANGED di
     \/ /\ found # None
        /\ iget(p, Held(p, q.dp), found,
                [q EXCEPT !.pc = "link_bad", !.todo = <<Put(found)>> \o UnlockPut(q.dp)])
        /\ UNCHANGED di
  /\ UNCHANGED <<saved, active, crashes>>

\* Mutant: the failure path forgets its reference.
LinkBadKeepsRef(p) ==
  LET q == pr[p] IN
  /\ Ilock(p, "link_bad", q.ip)
  /\ it' = Held(p, q.ip)
  /\ di' = [di EXCEPT ![q.ip].nlink = @ - 1]
  /\ Return(p, <<Unlock(q.ip)>>)
  /\ UNCHANGED <<saved, active, crashes>>

LinkBad(p) ==
  LET q == pr[p] IN
  /\ Ilock(p, "link_bad", q.ip)
  /\ it' = Held(p, q.ip)
  /\ di' = [di EXCEPT ![q.ip].nlink = @ - 1]
  /\ Return(p, UnlockPut(q.ip))
  /\ UNCHANGED <<saved, active, crashes>>

\* Mutant: the directory is unlocked before the file is locked.
UnlinkDpUnlocked(p) ==
  LET q == pr[p]
      found == dirlookup(q.dp, q.name)
  IN
  /\ Ilock(p, "unlink_dp", q.dp)
  /\ IF q.name \in {".", ".."} \/ found = None
     THEN /\ it' = Held(p, q.dp)
          /\ Return(p, UnlockPut(q.dp))
     ELSE iget(p, Seen(q.dp), found, [q EXCEPT !.pc = "unlink_ip", !.ip = found])
  /\ UNCHANGED <<di, saved, active, crashes>>

UnlinkDp(p) ==
  LET q == pr[p]
      found == dirlookup(q.dp, q.name)
  IN
  /\ Ilock(p, "unlink_dp", q.dp)
  /\ IF q.name \in {".", ".."} \/ found = None
     THEN /\ it' = Held(p, q.dp)
          /\ Return(p, UnlockPut(q.dp))
     ELSE iget(p, Held(p, q.dp), found, [q EXCEPT !.pc = "unlink_ip", !.ip = found])
  /\ UNCHANGED <<di, saved, active, crashes>>

isdirempty(i) == \A n \in Name : di[i].ents[n] = None

\* Clear the entry, then take the link away: from the parent too when its
\* ".." goes.
UnlinkIp(p) ==
  LET q == pr[p]
      dir == di[q.ip].type = "dir"
  IN
  /\ Ilock(p, "unlink_ip", q.ip)
  /\ it' = Held(p, q.ip)
  /\ IF di[q.ip].nlink < 1
     THEN Go(p, "panic", <<>>) /\ UNCHANGED di
     ELSE IF dir /\ ~ isdirempty(q.ip)
     THEN Return(p, UnlockPut(q.ip) \o UnlockPut(q.dp)) /\ UNCHANGED di
     ELSE /\ di' = [di EXCEPT ![q.dp].ents[q.name] = None,
                              ![q.dp].nlink = IF dir THEN @ - 1 ELSE @,
                              ![q.ip].nlink = @ - 1]
          /\ Return(p, UnlockPut(q.dp) \o UnlockPut(q.ip))
  /\ UNCHANGED <<saved, active, crashes>>

\* Mutant: the new directory stays locked.
ChdirIpStaysLocked(p) ==
  LET q == pr[p] IN
  /\ Ilock(p, "chdir_ip", q.ip)
  /\ it' = Held(p, q.ip)
  /\ IF di[q.ip].type # "dir"
     THEN Return(p, UnlockPut(q.ip))
     ELSE Done(p, q.ip, q.ofile, <<Put(q.cwd)>>)
  /\ UNCHANGED <<di, saved, active, crashes>>

ChdirIp(p) ==
  LET q == pr[p] IN
  /\ Ilock(p, "chdir_ip", q.ip)
  /\ it' = Held(p, q.ip)
  /\ IF di[q.ip].type # "dir"
     THEN Return(p, UnlockPut(q.ip))
     ELSE Done(p, q.ip, q.ofile, <<Unlock(q.ip), Put(q.cwd)>>)
  /\ UNCHANGED <<di, saved, active, crashes>>

-----------------------------------------------------------------------------
\* A crash loses everything in memory; the log's recovery brings saved back.
Crash ==
  /\ crashes < MaxCrash
  /\ crashes' = crashes + 1
  /\ di' = saved
  /\ active' = {}
  /\ it' = Boot
  /\ pr' = [p \in Proc |-> Idle(ROOTINO, None, pr[p].left)]
  /\ UNCHANGED saved

Step(p) ==
  \/ iunlock(p) \/ iput(p)
  \/ NamexEnd(p) \/ NamexStep(p)
  \/ Call(p) \/ Close(p) \/ EndOp(p)
  \/ OpenIp(p) \/ CreateDp(p) \/ CreateFound(p) \/ CreateIp(p)
  \/ LinkIp(p) \/ LinkDp(p) \/ LinkBad(p)
  \/ UnlinkDp(p) \/ UnlinkIp(p) \/ ChdirIp(p)

Next == Crash \/ \E p \in Proc : Step(p)

Spec == Init /\ [][Next]_vars

-----------------------------------------------------------------------------
\* Type correctness of the inodes, the inode table and the processes; a process
\* is inside a call exactly while the log counts it (begin_op, end_op).
TypeOK ==
  /\ di \in [Inum -> [type : {"none", "dir", "file", "dev"}, nlink : Nat,
                      lost : Nat, ents : [Entry -> Inum \cup {None}]]]
  /\ DOMAIN saved = Inum
  /\ active \subseteq Proc
  /\ it \in [Inum -> [ref : Nat, valid : BOOLEAN, lk : Proc \cup {None}]]
  /\ \A p \in Proc : /\ pr[p].kind \in Kinds[p] \cup {"close"}
                     /\ pr[p].cwd \in Inum
                     /\ pr[p].ofile \in Inum \cup {None}
                     /\ pr[p].pc = "user" <=> p \notin active

\* How many names inode i has in d: the entries of directories, and ".." of
\* the root and of the directories that have a name themselves.
Links(d, i) ==
  Cardinality({<<j, n>> \in Inum \X (Name \cup {".."}) :
                 d[j].ents[n] = i /\ (n = ".." => j = ROOTINO \/ d[j].nlink > 0)})

\* How many calls of link have counted a name of i that is not yet written.
Linking(i) ==
  Cardinality({p \in Proc : pr[p].ip = i /\ pr[p].next = "link_dp"})

\* Whatever names an inode names one that is in use: a directory entry, the
\* working directory of a process, an open file whose names are gone.  The
\* link count is the number of names: in memory at every moment, but for the
\* names that calls of link have counted and not yet written or taken back,
\* and on the disk that a crash at any moment leaves.  (create and link also
\* write names into a directory that is removed but in use; these names go with
\* the directory and their counts stay.)
NoDanglingNames ==
  /\ \A d \in {di, saved}, i \in Inum, n \in Entry :
       d[i].ents[n] # None => d[d[i].ents[n]].type # "none"
  /\ \A i \in Inum : /\ saved[i].nlink = Links(saved, i) + saved[i].lost
                     /\ di[i].nlink = Links(di, i) + di[i].lost + Linking(i)
  /\ \A p \in Proc : /\ di[pr[p].cwd].type = "dir"
                     /\ pr[p].ofile # None => di[pr[p].ofile].type # "none"

\* The references of p to i: its working directory and file, the live locals of
\* its call, and what the call still has to put.
One(b) == IF b THEN 1 ELSE 0
Holds(p, i) ==
  LET q == pr[p] IN
  One(q.cwd = i) + One(q.ofile = i)
  + One(q.dp = i /\ (q.pc \in AtDp \/ q.pc \in {"namex", "create_ip", "unlink_ip"}))
  + One(q.ip = i /\ (q.pc \in AtIp \/ q.next = "link_dp"))
  + Cardinality({k \in DOMAIN q.todo : q.todo[k][2] = i /\ q.todo[k][1] # "unlock"})

\* ip->ref counts the holders of the inode exactly: on every path of every
\* call, failures included, no reference is dropped twice or forgotten.
RefsCountHolders ==
  \A i \in Inum : it[i].ref = MapThenSumSet(LAMBDA p : Holds(p, i), Proc)

\* ilock always finds an inode in use.  So it is while programs make directories
\* in the root only; ".." of a removed directory may lead to a freed one.
IlockFindsInode == \A p \in Proc : ~ IlockPanics(p)
Flat == \A way \in DirPaths : way[1] = "/" /\ Len(way) = 2

\* The panics of ilock and unlink are not reached, and that of iget only when
\* as many inodes as the table has entries are working directories, open files
\* or in use by calls: no entry is lost.
PanicsOnlyWhenFull ==
  /\ Flat => IlockFindsInode
  /\ \A p \in Proc : /\ pr[p].pc # "panic"
                     /\ NoInodes(p) =>
                          Cardinality({i \in Inum : \E q \in Proc : Holds(q, i) > 0}) >= NINODE

\* The comment in iput (fs.c:344): ref == 1 means that no other process has ip
\* locked, so the acquiresleep there, made under itable.lock, never blocks.
IputNeverBlocks ==
  \A p \in Proc, i \in Inum : Owes(p, "iput", i) /\ LastPut(i) => it[i].lk = None

\* The inode table is sound: types, exact reference counts, and an iput that
\* frees an inode finds its lock free.
RefsSound == TypeOK /\ RefsCountHolders /\ IputNeverBlocks

\* The sleep-locks are taken in an order that admits no cycle: of the calls in
\* progress one can always go on.
NoLockCycle ==
  LET Blocked(p) == LET i == Wants(p) IN i # None /\ it[i].lk # None
  IN  active # {} => \E p \in active : ~ Blocked(p)

\* The comment of iput (fs.c:332): "If that was the last reference and the inode
\* has no links to it, free the inode": unless a crash intervened, an inode
\* in use has a link or a reference.
LastPutFrees ==
  \A i \in Inum : di[i].type # "none" => di[i].nlink > 0 \/ it[i].ref > 0

=============================================================================
