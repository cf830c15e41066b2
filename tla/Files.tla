------------------------------- MODULE Files -------------------------------
(***************************************************************************)
(* How wallet.json and state.json reach the disk and come back.             *)
(*                                                                          *)
(* Both are saved the same way: write <name>.json.tmp, sync it, rename it   *)
(* over the file, sync the directory.  Every one of these is a step of its  *)
(* own, any of them may fail, the command may be killed between any two,    *)
(* and the power may go.  wallet.json is used under an exclusive flock on   *)
(* wallet.json.lock; state.json has no lock.                                 *)
(*                                                                          *)
(* A content is the set of changes made to it since it was first created;   *)
(* the first change of a wallet is its seed.  A power loss keeps the data   *)
(* of synced inodes and tears the others, and brings back the directory as  *)
(* of its last sync or as of any change since.                              *)
(***************************************************************************)
EXTENDS Integers

CONSTANTS
  Procs,        \* commands that may run at the same time
  Creators,     \* those that may be `init`: one, see README
  Inodes,       \* bound: inodes, positive numbers
  MaxChanges,   \* bound: changes of a behaviour
  MaxLosses     \* bound: power losses of a behaviour

ASSUME FilesConstants ==
  /\ Creators \subseteq Procs
  /\ \A p, q \in Creators : p = q
  /\ Inodes \subseteq Nat \ {0}
  /\ {MaxChanges, MaxLosses} \subseteq Nat

VARIABLES
  kind,     \* which of the two files this is: "wallet" or "state"
  dir,      \* what the directory's two names name, 0 for nothing
  past,     \* directories that a power loss may bring back
  data,     \* the content of each inode
  stable,   \* inodes whose data is on the disk
  mixed,    \* inodes that two saves have written to
  holder,   \* who holds the flock, as a set
  at,       \* what each command does next
  mem,      \* the content each command has in memory
  fd,       \* the inode each command has open for writing, 0 for none
  changes,  \* changes made so far
  losses,   \* power losses so far
  acked,    \* history: the changes whose save has returned
  cut,      \* history: a save was cut short by a kill or a power loss
  overlap   \* history: a save of state.json started during another

disk == <<dir, past, data, stable, mixed>>
counts == <<kind, changes, losses>>
vars == <<disk, holder, at, mem, fd, counts, acked, cut, overlap>>

-----------------------------------------------------------------------------

Torn == {}      \* not JSON: an empty, partial or mixed file
Dir == [file : Inodes \cup {0}, tmp : Inodes \cup {0}]
Saving == {"write", "rest", "sync", "rename"}
Phases == Saving \cup {"idle", "create", "locked", "ready", "tmp", "syncdir"}

Locks == kind = "wallet"
Goto(p, l) == at' = [at EXCEPT ![p] = l]
Held(d) == IF d.file = 0 THEN {} ELSE data[d.file]

(* A directory operation: it may be lost until the directory is synced.    *)
Becomes(d) == dir' = d /\ past' = past \cup {d}

Free == {i \in Inodes : \A d \in past : i # d.file /\ i # d.tmp}
          \ ({fd[p] : p \in Procs} \cup {dir.file, dir.tmp})

(* The command ends: its memory, its descriptor and its lock are gone.     *)
Leave(p) ==
  /\ Goto(p, "idle")
  /\ mem' = [mem EXCEPT ![p] = {}]
  /\ fd' = [fd EXCEPT ![p] = 0]
  /\ holder' = holder \ {p}

-----------------------------------------------------------------------------
(* Opening: Wallet::create, Wallet::open, load_state.                       *)

(* path.exists() is asked before the lock is taken.                        *)
CheckExists(p) ==
  /\ Locks /\ p \in Creators
  /\ at[p] = "idle" /\ dir.file = 0
  /\ Goto(p, "create")
  /\ UNCHANGED <<disk, holder, mem, fd, counts, acked, cut, overlap>>

NewContent(p, base) ==
  /\ changes < MaxChanges
  /\ changes' = changes + 1
  /\ mem' = [mem EXCEPT ![p] = base \cup {changes'}]

LockCreate(p) ==
  /\ at[p] = "create" /\ holder = {}
  /\ holder' = {p}
  /\ NewContent(p, {})
  /\ Goto(p, "tmp")
  /\ UNCHANGED <<disk, fd, kind, losses, acked, cut, overlap>>

(* Error::Locked.                                                          *)
CreateLocked(p) ==
  /\ at[p] = "create" /\ holder # {}
  /\ Leave(p)
  /\ UNCHANGED <<disk, counts, acked, cut, overlap>>

LockOpen(p) ==
  /\ Locks
  /\ at[p] = "idle" /\ holder = {}
  /\ holder' = {p}
  /\ Goto(p, "locked")
  /\ UNCHANGED <<disk, mem, fd, counts, acked, cut, overlap>>

ReadWallet(p) ==
  /\ at[p] = "locked" /\ Held(dir) # Torn
  /\ mem' = [mem EXCEPT ![p] = Held(dir)]
  /\ Goto(p, "ready")
  /\ UNCHANGED <<disk, holder, fd, counts, acked, cut, overlap>>

(* Error::Open or Error::Json.                                             *)
ReadFails(p) ==
  /\ at[p] = "locked" /\ Held(dir) = Torn
  /\ Leave(p)
  /\ UNCHANGED <<disk, counts, acked, cut, overlap>>

(* A missing state.json is a fresh state; a torn one ends the command.     *)
LoadState(p) ==
  /\ ~Locks
  /\ at[p] = "idle"
  /\ dir.file = 0 \/ Held(dir) # Torn
  /\ mem' = [mem EXCEPT ![p] = Held(dir)]
  /\ Goto(p, "ready")
  /\ UNCHANGED <<disk, holder, fd, counts, acked, cut, overlap>>

-----------------------------------------------------------------------------
(* Saving: Wallet::save, State::save.                                       *)

(* A scan, a lock, a payout record, a migration, a synced block.           *)
Modify(p) ==
  /\ at[p] = "ready"
  /\ NewContent(p, mem[p])
  /\ Goto(p, "tmp")
  /\ UNCHANGED <<disk, holder, fd, kind, losses, acked, cut, overlap>>

(* O_CREAT and O_TRUNC: a tmp file that is already there is emptied, also  *)
(* under the feet of a save that has it open.                               *)
OpenTmp(p) ==
  /\ at[p] = "tmp"
  /\ \/ dir.tmp # 0 /\ fd' = [fd EXCEPT ![p] = dir.tmp] /\ UNCHANGED <<dir, past>>
     \/ /\ dir.tmp = 0 /\ Free # {}
        /\ fd' = [fd EXCEPT ![p] = CHOOSE i \in Free : TRUE]
        /\ Becomes([dir EXCEPT !.tmp = fd'[p]])
  /\ data' = [data EXCEPT ![fd'[p]] = Torn]
  /\ stable' = stable \ {fd'[p]}
  /\ mixed' = IF \E q \in Procs \ {p} : fd[q] = fd'[p]
              THEN mixed \cup {fd'[p]} ELSE mixed \ {fd'[p]}
  /\ overlap' = (overlap \/ \E q \in Procs \ {p} : at[q] \in Saving)
  /\ Goto(p, "write")
  /\ UNCHANGED <<holder, mem, counts, acked, cut>>

WritePart(p) ==
  /\ at[p] = "write"
  /\ data' = [data EXCEPT ![fd[p]] = Torn]
  /\ stable' = stable \ {fd[p]}
  /\ Goto(p, "rest")
  /\ UNCHANGED <<dir, past, mixed, holder, mem, fd, counts, acked, cut, overlap>>

(* Where two saves write to one inode, what it holds in the end may be     *)
(* neither's content.                                                       *)
WriteRest(p) ==
  /\ at[p] = "rest"
  /\ \E x \in {mem[p]} \cup (IF fd[p] \in mixed THEN {Torn} ELSE {}) :
       data' = [data EXCEPT ![fd[p]] = x]
  /\ stable' = stable \ {fd[p]}
  /\ Goto(p, "sync")
  /\ UNCHANGED <<dir, past, mixed, holder, mem, fd, counts, acked, cut, overlap>>

(* Mistaken variant: the tmp file is not synced before the rename.         *)
SyncTmpSkipped(p) ==
  /\ at[p] = "sync"
  /\ Goto(p, "rename")
  /\ UNCHANGED <<disk, holder, mem, fd, counts, acked, cut, overlap>>
SyncTmp(p) ==
  /\ at[p] = "sync"
  /\ stable' = stable \cup {fd[p]}
  /\ Goto(p, "rename")
  /\ UNCHANGED <<dir, past, data, mixed, holder, mem, fd, counts, acked, cut, overlap>>

Rename(p) ==
  /\ at[p] = "rename" /\ dir.tmp # 0
  /\ Becomes([file |-> dir.tmp, tmp |-> 0])
  /\ fd' = [fd EXCEPT ![p] = 0]
  /\ Goto(p, "syncdir")
  /\ UNCHANGED <<data, stable, mixed, holder, mem, counts, acked, cut, overlap>>

(* Mistaken variant: the tmp file of a failed save stays behind.           *)
SaveFailsKeepsTmp(p) ==
  /\ at[p] \in Saving \cup {"tmp"}
  /\ Leave(p)
  /\ UNCHANGED <<disk, counts, acked, cut, overlap>>
(* Any of the steps up to the rename fails, among them the rename of a tmp *)
(* file that another save has renamed or removed: remove_file(tmp).         *)
SaveFails(p) ==
  /\ at[p] \in Saving \cup {"tmp"}
  /\ IF dir.tmp # 0 THEN Becomes([dir EXCEPT !.tmp = 0]) ELSE UNCHANGED <<dir, past>>
  /\ Leave(p)
  /\ UNCHANGED <<data, stable, mixed, counts, acked, cut, overlap>>

(* Mistaken variant: the directory is not synced.                          *)
SyncDirSkipped(p) ==
  /\ at[p] = "syncdir"
  /\ acked' = acked \cup mem[p]
  /\ IF Locks THEN Goto(p, "ready") /\ UNCHANGED <<mem, fd, holder>> ELSE Leave(p)
  /\ UNCHANGED <<disk, counts, cut, overlap>>
(* The save returns.  A command syncs the state once; it may save its      *)
(* wallet again.                                                            *)
SyncDir(p) ==
  /\ at[p] = "syncdir"
  /\ past' = {dir}
  /\ acked' = acked \cup mem[p]
  /\ IF Locks THEN Goto(p, "ready") /\ UNCHANGED <<mem, fd, holder>> ELSE Leave(p)
  /\ UNCHANGED <<dir, data, stable, mixed, counts, cut, overlap>>

(* A command ends without saving, or its directory sync failed.            *)
End(p) ==
  /\ at[p] \in {"ready", "syncdir"}
  /\ Leave(p)
  /\ UNCHANGED <<disk, counts, acked, cut, overlap>>

-----------------------------------------------------------------------------
(* The kernel releases the flock of a command that is killed.              *)

Kill(p) ==
  /\ at[p] # "idle"
  /\ Leave(p)
  /\ cut' = (cut \/ at[p] \in Saving)
  /\ UNCHANGED <<disk, counts, acked, overlap>>

PowerLoss ==
  /\ losses < MaxLosses
  /\ losses' = losses + 1
  /\ dir' \in past
  /\ past' = {dir'}
  /\ \E torn \in SUBSET (Inodes \ stable) :
       data' = [i \in Inodes |-> IF i \in torn THEN Torn ELSE data[i]]
  /\ stable' = Inodes
  /\ mixed' = {}
  /\ holder' = {}
  /\ at' = [p \in Procs |-> "idle"]
  /\ mem' = [p \in Procs |-> {}]
  /\ fd' = [p \in Procs |-> 0]
  /\ cut' = TRUE
  /\ UNCHANGED <<kind, changes, acked, overlap>>

-----------------------------------------------------------------------------

Init ==
  /\ kind \in {"wallet", "state"}
  /\ dir = [file |-> 0, tmp |-> 0]
  /\ past = {dir}
  /\ data = [i \in Inodes |-> Torn]
  /\ stable = Inodes
  /\ mixed = {}
  /\ holder = {}
  /\ at = [p \in Procs |-> "idle"]
  /\ mem = [p \in Procs |-> {}]
  /\ fd = [p \in Procs |-> 0]
  /\ changes = 0 /\ losses = 0
  /\ acked = {}
  /\ cut = FALSE /\ overlap = FALSE

SaveStep(p) ==
  \/ OpenTmp(p) \/ WritePart(p) \/ WriteRest(p) \/ SyncTmp(p) \/ Rename(p)
  \/ SaveFails(p) \/ SyncDir(p)

Step(p) ==
  \/ CheckExists(p) \/ LockCreate(p) \/ CreateLocked(p) \/ LockOpen(p)
  \/ ReadWallet(p) \/ ReadFails(p) \/ LoadState(p) \/ Modify(p)
  \/ SaveStep(p) \/ End(p) \/ Kill(p)

Next == (\E p \in Procs : Step(p)) \/ PowerLoss

Spec == Init /\ [][Next]_vars

-----------------------------------------------------------------------------

TypeOK ==
  /\ kind \in {"wallet", "state"}
  /\ dir \in past /\ past \subseteq Dir
  /\ data \in [Inodes -> SUBSET Nat]
  /\ stable \subseteq Inodes /\ mixed \subseteq Inodes
  /\ holder \subseteq Procs
  /\ at \in [Procs -> Phases]
  /\ mem \in [Procs -> SUBSET Nat]
  /\ fd \in [Procs -> Inodes \cup {0}]
  /\ changes \in Nat /\ losses \in Nat
  /\ acked \subseteq Nat
  /\ cut \in BOOLEAN /\ overlap \in BOOLEAN

(* A save that has returned survives: whatever the power loss, the kill or *)
(* the next save, wallet.json has every change a command was told is       *)
(* saved, the seed and the payout records among them.                      *)
AckedDurable ==
  Locks => \A d \in past : acked \subseteq Held(d)

(* At no moment would a reader, now or after a power loss, find a torn     *)
(* file: never a torn wallet, and a torn state only after two saves of it  *)
(* ran at the same time.                                                    *)
WholeFile ==
  ~overlap => \A d \in past :
    d.file # 0 => d.file \in stable /\ data[d.file] # Torn

(* "Any failure before the rename removes the tmp file, so no half-written *)
(* copy of the seed stays behind" (Wallet::save): a tmp file that no save  *)
(* is writing is left from a save that was killed.                          *)
NoStrayTmp ==
  dir.tmp # 0 => \/ cut
                 \/ \E p \in Procs : at[p] \in Saving
=============================================================================
