---------------------------- MODULE FilesProofs ----------------------------
(***************************************************************************)
(* What Files promises for any number of commands, saves, kills and power   *)
(* losses.                                                                  *)
(*                                                                          *)
(* While saves do not overlap, and saves of a wallet never do, the one in   *)
(* progress writes to the inode that tmp names, which no directory that a   *)
(* power loss may bring back has as its file.  So the file is never written *)
(* in place, and a rename replaces one whole, synced content by another.    *)
(***************************************************************************)
EXTENDS Files, TLAPS

Busy == Saving \cup {"tmp", "syncdir"}
Open == Busy \cup {"ready"}

(* The flock: only its holder is past it.                                  *)
LockOK ==
  Locks => \A p \in Procs : at[p] \notin {"idle", "create"} => holder = {p}

(* At most one save, unless two saves of the state overlapped.             *)
OneSave ==
  /\ Locks => ~overlap
  /\ ~overlap => \A p, q \in Procs : at[p] \in Saving /\ at[q] \in Saving => p = q

FdOK == \A p \in Procs : (fd[p] # 0) <=> at[p] \in Saving
MemOK == \A p \in Procs : at[p] \in Busy => mem[p] # {}

(* The save in progress and its tmp file.                                  *)
TmpOK ==
  ~overlap =>
    /\ \A p \in Procs : at[p] \in Saving =>
         /\ fd[p] = dir.tmp \/ dir.tmp = 0
         /\ fd[p] \notin mixed
         /\ \A d \in past : d.file # fd[p]
    /\ \A d \in past : d.tmp # 0 => d.file # d.tmp
    /\ dir.tmp # 0 => \A d \in past : d.file # dir.tmp

WrittenOK ==
  ~overlap => \A p \in Procs :
    /\ at[p] \in {"sync", "rename"} => data[fd[p]] = mem[p]
    /\ at[p] = "rename" => fd[p] \in stable

Whole == TypeOK /\ LockOK /\ OneSave /\ FdOK /\ MemOK /\ TmpOK /\ WrittenOK
           /\ WholeFile /\ NoStrayTmp

-----------------------------------------------------------------------------

LEMMA InitWhole == Init => Whole
  <1> SUFFICES ASSUME Init PROVE Whole
    OBVIOUS
  <1>1. TypeOK
    <2>1. dir \in past /\ past \subseteq Dir
      BY DEF Init, Dir
    <2> QED
      BY <2>1 DEF Init, TypeOK, Phases, Torn
  <1>2. LockOK /\ OneSave /\ FdOK /\ MemOK
    BY DEF Init, LockOK, OneSave, FdOK, MemOK, Saving, Busy
  <1>3. TmpOK /\ WrittenOK
    BY DEF Init, TmpOK, WrittenOK, Saving
  <1>4. WholeFile /\ NoStrayTmp
    BY DEF Init, WholeFile, NoStrayTmp
  <1> QED
    BY <1>1, <1>2, <1>3, <1>4 DEF Whole

LEMMA TypeStep ==
  ASSUME TypeOK, FdOK, [Next]_vars
  PROVE  TypeOK'
  <1>1. CASE UNCHANGED vars
    BY <1>1 DEF vars, disk, counts, TypeOK
  <1>2. CASE PowerLoss
    BY <1>2 DEF PowerLoss, TypeOK, Phases, Torn
  <1>3. ASSUME NEW p \in Procs, CheckExists(p) \/ LockCreate(p) \/ CreateLocked(p)
               \/ LockOpen(p) \/ ReadWallet(p) \/ ReadFails(p) \/ LoadState(p)
               \/ Modify(p)
        PROVE  TypeOK'
    <2>1. CASE CheckExists(p) \/ CreateLocked(p) \/ LockOpen(p) \/ ReadFails(p)
      BY <2>1 DEF TypeOK, CheckExists, CreateLocked, LockOpen, ReadFails, Leave,
         Goto, disk, counts, Phases
    <2>2. Held(dir) \in SUBSET Nat
      BY DEF Held, TypeOK, Dir
    <2>3. CASE ReadWallet(p) \/ LoadState(p)
      BY <2>2, <2>3, ZenonT(60) DEF TypeOK, ReadWallet, LoadState, Goto, disk, counts, Phases
    <2>4. CASE LockCreate(p)
      BY <2>4 DEF TypeOK, LockCreate, NewContent, Goto, disk, Phases
    <2>5. CASE Modify(p)
      BY <2>5 DEF TypeOK, Modify, NewContent, Goto, disk, Phases
    <2> QED
      BY <1>3, <2>1, <2>3, <2>4, <2>5
  <1>4. ASSUME NEW p \in Procs, OpenTmp(p) PROVE TypeOK'
    <2>1. fd'[p] \in Inodes /\ fd' \in [Procs -> Inodes \cup {0}]
          /\ dir' \in past' /\ past' \subseteq Dir
      <3>1. CASE dir.tmp # 0
        BY <1>4, <3>1 DEF OpenTmp, TypeOK, Dir
      <3>2. CASE dir.tmp = 0
        <4>1. Free # {}
          BY <1>4, <3>2 DEF OpenTmp
        <4>2. (CHOOSE i \in Free : TRUE) \in Inodes
          BY <4>1 DEF Free
        <4> QED
          BY <1>4, <3>2, <4>2, ZenonT(60) DEF OpenTmp, TypeOK, Dir, Becomes
      <3> QED
        BY <3>1, <3>2
    <2> QED
      BY <1>4, <2>1 DEF OpenTmp, TypeOK, Goto, Phases, Saving, counts, Torn
  <1>5. ASSUME NEW p \in Procs, WritePart(p) \/ WriteRest(p) \/ SyncTmp(p)
               \/ Rename(p) \/ SaveFails(p) \/ SyncDir(p) \/ End(p) \/ Kill(p)
        PROVE  TypeOK'
    <2>2. CASE WritePart(p)
      BY <2>2 DEF TypeOK, WritePart, Goto, Phases, Saving, counts, Torn
    <2>3. CASE WriteRest(p)
      BY <2>3, ZenonT(60) DEF TypeOK, WriteRest, Goto, Phases, Saving, counts, Torn
    <2>4. CASE SyncTmp(p)
      BY <2>4 DEF TypeOK, FdOK, SyncTmp, Goto, Phases, Saving, counts
    <2>5. CASE Rename(p)
      BY <2>5 DEF TypeOK, Rename, Becomes, Dir, Goto, Phases, counts
    <2>6. CASE SaveFails(p)
      BY <2>6 DEF TypeOK, SaveFails, Becomes, Dir, Leave, Goto, Phases, counts
    <2>7. CASE SyncDir(p)
      BY <2>7 DEF TypeOK, SyncDir, Leave, Goto, Phases, counts
    <2>8. CASE End(p) \/ Kill(p)
      BY <2>8 DEF TypeOK, End, Kill, Leave, Goto, Phases, counts, disk
    <2> QED
      BY <1>5, <2>2, <2>3, <2>4, <2>5, <2>6, <2>7, <2>8
  <1> QED
    BY <1>1, <1>2, <1>3, <1>4, <1>5 DEF Next, Step, SaveStep

(* A step of a command that is not in a save leaves the saves alone.       *)
LEMMA AsideInv ==
  ASSUME Whole, TypeOK', NEW p \in Procs, NEW l,
         at[p] \notin Saving, l \notin Saving, Goto(p, l),
         \A q \in Procs : q # p => mem'[q] = mem[q],
         fd' = fd \/ fd' = [fd EXCEPT ![p] = 0],
         UNCHANGED <<disk, kind, overlap>>, cut => cut'
  PROVE  OneSave' /\ FdOK' /\ TmpOK' /\ WrittenOK' /\ WholeFile' /\ NoStrayTmp'
  <1>1. /\ at' \in [Procs -> Phases] /\ at \in [Procs -> Phases]
        /\ fd \in [Procs -> Inodes \cup {0}]
    BY DEF Whole, TypeOK
  <1>2. \A q \in Procs : at'[q] \in Saving <=> at[q] \in Saving
    BY <1>1 DEF Goto
  <1>3. \A q \in Procs : at[q] \in Saving => q # p /\ at'[q] = at[q]
    BY <1>1 DEF Goto
  <1>4. fd' = fd
    <2>1. fd[p] = 0
      BY DEF Whole, FdOK
    <2> QED
      BY <1>1, <2>1
  <1>5. OneSave'
    BY <1>2 DEF Whole, OneSave, Locks
  <1>6. FdOK'
    BY <1>2, <1>4 DEF Whole, FdOK
  <1>7. TmpOK'
    BY <1>2, <1>4 DEF Whole, TmpOK, disk
  <1>8. WrittenOK'
    <2> SUFFICES ASSUME ~overlap, NEW q \in Procs, at'[q] \in {"sync", "rename"}
                 PROVE  /\ data[fd[q]] = mem'[q]
                        /\ at'[q] = "rename" => fd[q] \in stable
      BY <1>4 DEF WrittenOK, disk
    <2>1. at'[q] \in Saving
      BY DEF Saving
    <2>2. q # p /\ at'[q] = at[q]
      BY <1>2, <1>3, <2>1
    <2> QED
      BY <2>2 DEF Whole, WrittenOK
  <1>9. WholeFile'
    BY DEF Whole, WholeFile, disk
  <1>10. NoStrayTmp'
    BY <1>2 DEF Whole, NoStrayTmp, disk
  <1> QED
    BY <1>5, <1>6, <1>7, <1>8, <1>9, <1>10

(* The flock, when p moves on or ends.                                     *)
LEMMA LockKept ==
  ASSUME Whole, NEW p \in Procs, NEW l, Goto(p, l), kind' = kind,
         at[p] \notin {"idle", "create"} \/ l \in {"idle", "create"},
         \/ holder' = holder
         \/ l = "idle" /\ holder' = holder \ {p}
  PROVE  LockOK'
  <1>1. at \in [Procs -> Phases] /\ LockOK /\ holder \subseteq Procs
    BY DEF Whole, TypeOK
  <1> SUFFICES ASSUME Locks, NEW q \in Procs, at'[q] \notin {"idle", "create"}
               PROVE  holder' = {q}
    BY DEF LockOK, Locks
  <1>2. CASE q = p
    <2>1. at'[p] = l
      BY <1>1 DEF Goto
    <2> QED
      BY <1>1, <1>2, <2>1 DEF LockOK
  <1>3. CASE q # p
    <2>1. at'[q] = at[q]
      BY <1>1, <1>3 DEF Goto
    <2>2. holder = {q}
      BY <1>1, <2>1 DEF LockOK
    <2> QED
      BY <1>3, <2>2
  <1> QED
    BY <1>2, <1>3

(* The flock, when p takes it.                                             *)
LEMMA LockTaken ==
  ASSUME Whole, NEW p \in Procs, NEW l, Goto(p, l), kind' = kind,
         holder = {}, holder' = {p}
  PROVE  LockOK'
  <1>1. at \in [Procs -> Phases] /\ LockOK
    BY DEF Whole, TypeOK
  <1> SUFFICES ASSUME Locks, NEW q \in Procs, at'[q] \notin {"idle", "create"}
               PROVE  q = p
    BY DEF LockOK, Locks
  <1>2. q # p => at'[q] = at[q]
    BY <1>1 DEF Goto
  <1> QED
    BY <1>1, <1>2 DEF LockOK

LEMMA OpenInv ==
  ASSUME Whole, TypeOK', NEW p \in Procs,
         CheckExists(p) \/ LockCreate(p) \/ CreateLocked(p) \/ LockOpen(p)
         \/ ReadWallet(p) \/ ReadFails(p) \/ LoadState(p) \/ Modify(p) \/ End(p)
  PROVE  Whole'
  <1>1. /\ at \in [Procs -> Phases] /\ mem \in [Procs -> SUBSET Nat]
        /\ changes \in Nat /\ MemOK
    BY DEF Whole, TypeOK
  <1>2. ASSUME NEW l, l \notin Busy, at'= [at EXCEPT ![p] = l],
               \A q \in Procs : q # p => mem'[q] = mem[q]
        PROVE  MemOK'
    BY <1>1, <1>2 DEF MemOK
  <1>3. CASE CheckExists(p)
    <2>1. LockOK'
      BY <1>3, LockKept DEF CheckExists, counts
    <2>2. MemOK'
      BY <1>2, <1>3 DEF CheckExists, Goto, Busy, Saving
    <2>3. OneSave' /\ FdOK' /\ TmpOK' /\ WrittenOK' /\ WholeFile' /\ NoStrayTmp'
      BY <1>3, AsideInv DEF CheckExists, counts, Saving
    <2> QED
      BY <2>1, <2>2, <2>3 DEF Whole
  <1>4. CASE LockCreate(p)
    <2>1. LockOK'
      BY <1>4, LockTaken DEF LockCreate
    <2>2. MemOK'
      <3>1. mem' = [mem EXCEPT ![p] = {} \cup {changes'}] /\ at' = [at EXCEPT ![p] = "tmp"]
        BY <1>4 DEF LockCreate, NewContent, Goto
      <3> QED
        BY <1>1, <3>1 DEF MemOK
    <2>3. OneSave' /\ FdOK' /\ TmpOK' /\ WrittenOK' /\ WholeFile' /\ NoStrayTmp'
      BY <1>1, <1>4, AsideInv DEF LockCreate, NewContent, Saving
    <2> QED
      BY <2>1, <2>2, <2>3 DEF Whole
  <1>5. CASE CreateLocked(p)
    <2>1. LockOK'
      BY <1>5, LockKept DEF CreateLocked, Leave, counts
    <2>2. MemOK'
      BY <1>1, <1>2, <1>5 DEF CreateLocked, Leave, Goto, Busy, Saving
    <2>3. OneSave' /\ FdOK' /\ TmpOK' /\ WrittenOK' /\ WholeFile' /\ NoStrayTmp'
      BY <1>1, <1>5, AsideInv DEF CreateLocked, Leave, counts, Saving
    <2> QED
      BY <2>1, <2>2, <2>3 DEF Whole
  <1>6. CASE LockOpen(p)
    <2>1. LockOK'
      BY <1>6, LockTaken DEF LockOpen, counts
    <2>2. MemOK'
      BY <1>2, <1>6 DEF LockOpen, Goto, Busy, Saving
    <2>3. OneSave' /\ FdOK' /\ TmpOK' /\ WrittenOK' /\ WholeFile' /\ NoStrayTmp'
      BY <1>6, AsideInv DEF LockOpen, counts, Saving
    <2> QED
      BY <2>1, <2>2, <2>3 DEF Whole
  <1>7. CASE ReadWallet(p)
    <2>1. LockOK'
      BY <1>7, LockKept DEF ReadWallet, counts
    <2>2. MemOK'
      BY <1>1, <1>2, <1>7 DEF ReadWallet, Goto, Busy, Saving
    <2>3. OneSave' /\ FdOK' /\ TmpOK' /\ WrittenOK' /\ WholeFile' /\ NoStrayTmp'
      BY <1>1, <1>7, AsideInv DEF ReadWallet, counts, Saving
    <2> QED
      BY <2>1, <2>2, <2>3 DEF Whole
  <1>8. CASE ReadFails(p)
    <2>1. LockOK'
      BY <1>8, LockKept DEF ReadFails, Leave, counts
    <2>2. MemOK'
      BY <1>1, <1>2, <1>8 DEF ReadFails, Leave, Goto, Busy, Saving
    <2>3. OneSave' /\ FdOK' /\ TmpOK' /\ WrittenOK' /\ WholeFile' /\ NoStrayTmp'
      BY <1>1, <1>8, AsideInv DEF ReadFails, Leave, counts, Saving
    <2> QED
      BY <2>1, <2>2, <2>3 DEF Whole
  <1>9. CASE LoadState(p)
    <2>1. LockOK'
      BY <1>9 DEF LoadState, LockOK, Locks, counts
    <2>2. MemOK'
      BY <1>1, <1>2, <1>9 DEF LoadState, Goto, Busy, Saving
    <2>3. OneSave' /\ FdOK' /\ TmpOK' /\ WrittenOK' /\ WholeFile' /\ NoStrayTmp'
      BY <1>1, <1>9, AsideInv DEF LoadState, counts, Saving
    <2> QED
      BY <2>1, <2>2, <2>3 DEF Whole
  <1>10. CASE Modify(p)
    <2>1. LockOK'
      BY <1>10, LockKept DEF Modify
    <2>2. MemOK'
      <3>1. mem' = [mem EXCEPT ![p] = mem[p] \cup {changes'}] /\ at' = [at EXCEPT ![p] = "tmp"]
        BY <1>10 DEF Modify, NewContent, Goto
      <3> QED
        BY <1>1, <3>1 DEF MemOK
    <2>3. OneSave' /\ FdOK' /\ TmpOK' /\ WrittenOK' /\ WholeFile' /\ NoStrayTmp'
      BY <1>1, <1>10, AsideInv DEF Modify, NewContent, Saving
    <2> QED
      BY <2>1, <2>2, <2>3 DEF Whole
  <1>11. CASE End(p)
    <2>1. LockOK'
      BY <1>11, LockKept DEF End, Leave, counts
    <2>2. MemOK'
      BY <1>1, <1>2, <1>11 DEF End, Leave, Goto, Busy, Saving
    <2>3. OneSave' /\ FdOK' /\ TmpOK' /\ WrittenOK' /\ WholeFile' /\ NoStrayTmp'
      BY <1>1, <1>11, AsideInv DEF End, Leave, counts, Saving
    <2> QED
      BY <2>1, <2>2, <2>3 DEF Whole
  <1> QED
    BY <1>3, <1>4, <1>5, <1>6, <1>7, <1>8, <1>9, <1>10, <1>11

-----------------------------------------------------------------------------

LEMMA OpenTmpInv ==
  ASSUME Whole, TypeOK', NEW p \in Procs, OpenTmp(p)
  PROVE  Whole'
  <1> DEFINE f == fd'[p]
  <1>1. /\ TypeOK /\ LockOK /\ OneSave /\ FdOK /\ MemOK /\ TmpOK /\ WholeFile
        /\ at \in [Procs -> Phases] /\ fd \in [Procs -> Inodes \cup {0}]
        /\ dir \in past /\ past \subseteq Dir
    BY DEF Whole, TypeOK
  <1>2. /\ at[p] = "tmp" /\ at' = [at EXCEPT ![p] = "write"]
        /\ UNCHANGED <<holder, mem, kind, cut>>
    BY DEF OpenTmp, Goto, counts
  <1>3. /\ f \in Inodes /\ f # 0 /\ f = dir'.tmp
        /\ fd' = [fd EXCEPT ![p] = f]
        /\ dir'.file = dir.file
        /\ past' = past \/ past' = past \cup {dir'}
        /\ ~overlap => \A d \in past : d.file # f
    <2>1. CASE dir.tmp # 0
      <3>1. fd' = [fd EXCEPT ![p] = dir.tmp] /\ dir' = dir /\ past' = past
        BY <2>1 DEF OpenTmp
      <3>2. dir.tmp \in Inodes
        BY <1>1, <2>1 DEF Dir
      <3> QED
        BY <1>1, <2>1, <3>1, <3>2, FilesConstants DEF TmpOK
    <2>2. CASE dir.tmp = 0
      <3> DEFINE i == CHOOSE i \in Free : TRUE
      <3>1. /\ fd' = [fd EXCEPT ![p] = i] /\ Free # {}
            /\ Becomes([dir EXCEPT !.tmp = fd'[p]])
        BY <2>2 DEF OpenTmp
      <3>2. i \in Free
        BY <3>1
      <3>3. i \in Inodes /\ \A d \in past : i # d.file
        BY <3>2 DEF Free
      <3> HIDE DEF i
      <3>4. f = i
        BY <1>1, <3>1
      <3>5. dir' = [dir EXCEPT !.tmp = i] /\ past' = past \cup {dir'}
        BY <3>1, <3>4 DEF Becomes
      <3>6. dir'.file = dir.file /\ dir'.tmp = i
        BY <1>1, <3>5 DEF Dir
      <3> QED
        BY <3>1, <3>3, <3>4, <3>5, <3>6, FilesConstants
    <2> QED
      BY <2>1, <2>2
  <1>4. /\ data' = [data EXCEPT ![f] = Torn] /\ stable' = stable \ {f}
        /\ mixed' = IF \E q \in Procs \ {p} : fd[q] = f
                    THEN mixed \cup {f} ELSE mixed \ {f}
        /\ overlap' = (overlap \/ \E q \in Procs \ {p} : at[q] \in Saving)
    BY DEF OpenTmp
  <1> HIDE DEF f
  <1>5. /\ at'[p] = "write" /\ fd'[p] = f
        /\ \A q \in Procs : q # p => at'[q] = at[q] /\ fd'[q] = fd[q]
    BY <1>1, <1>2, <1>3
  <1>6. ~overlap' => ~overlap /\ \A q \in Procs : q # p => at[q] \notin Saving /\ fd[q] = 0
    BY <1>1, <1>4 DEF FdOK
  <1>7. LockOK'
    BY <1>2, LockKept DEF Goto
  <1>8. OneSave'
    <2>1. Locks => ~overlap'
      BY <1>1, <1>2, <1>4 DEF LockOK, OneSave, Saving
    <2> QED
      BY <1>2, <1>5, <1>6, <2>1 DEF OneSave, Locks
  <1>9. FdOK'
    BY <1>1, <1>3, <1>5 DEF FdOK, Saving
  <1>10. MemOK'
    BY <1>1, <1>2, <1>5 DEF MemOK, Busy
  <1>11. ASSUME ~overlap'
         PROVE  \A d \in past' : d.file # f /\ \E e \in past : e.file = d.file
    BY <1>1, <1>3, <1>6, <1>11
  <1>12. TmpOK'
    <2> SUFFICES ASSUME ~overlap'
                 PROVE  /\ \A q \in Procs : at'[q] \in Saving =>
                             /\ fd'[q] = dir'.tmp /\ fd'[q] \notin mixed'
                             /\ \A d \in past' : d.file # fd'[q]
                        /\ \A d \in past' : d.tmp # 0 => d.file # d.tmp
                        /\ dir'.tmp # 0 => \A d \in past' : d.file # dir'.tmp
      BY DEF TmpOK
    <2>1. f \notin mixed'
      BY <1>3, <1>4, <1>6
    <2>2. \A d \in past' : d.tmp # 0 => d.file # d.tmp
      BY <1>1, <1>3, <1>6, <1>11 DEF TmpOK
    <2> QED
      BY <1>3, <1>5, <1>6, <1>11, <2>1, <2>2
  <1>13. WrittenOK'
    BY <1>5, <1>6 DEF WrittenOK, Saving
  <1>14. WholeFile'
    <2> SUFFICES ASSUME ~overlap', NEW d \in past', d.file # 0
                 PROVE  d.file \in stable' /\ data'[d.file] # Torn
      BY DEF WholeFile
    <2>1. PICK e \in past : e.file = d.file
      BY <1>11
    <2>2. e.file \in stable /\ data[e.file] # Torn /\ e.file # f
      BY <1>1, <1>6, <1>11, <2>1 DEF WholeFile
    <2>3. data \in [Inodes -> SUBSET Nat] /\ e.file \in Inodes
      BY <1>1, <2>1 DEF TypeOK, Dir
    <2> QED
      BY <1>4, <2>1, <2>2, <2>3
  <1>15. NoStrayTmp'
    BY <1>5 DEF NoStrayTmp, Saving
  <1> QED
    BY <1>7, <1>8, <1>9, <1>10, <1>12, <1>13, <1>14, <1>15 DEF Whole

(* The steps that write and sync the tmp file.                             *)
LEMMA WriteInv ==
  ASSUME Whole, TypeOK', NEW p \in Procs,
         WritePart(p) \/ WriteRest(p) \/ SyncTmp(p)
  PROVE  Whole'
  <1>1. /\ TypeOK /\ LockOK /\ OneSave /\ FdOK /\ MemOK /\ TmpOK /\ WholeFile
        /\ WrittenOK /\ NoStrayTmp
        /\ at \in [Procs -> Phases] /\ fd \in [Procs -> Inodes \cup {0}]
        /\ past \subseteq Dir /\ data \in [Inodes -> SUBSET Nat] /\ stable \subseteq Inodes
    BY DEF Whole, TypeOK
  <1>2. /\ at[p] \in Saving /\ UNCHANGED <<dir, past, mixed, holder, mem, fd, kind, cut, overlap>>
    BY DEF WritePart, WriteRest, SyncTmp, Saving, counts
  <1>3. fd[p] \in Inodes
    BY <1>1, <1>2 DEF FdOK
  <1>4. PICK l \in Saving : at' = [at EXCEPT ![p] = l]
    BY DEF WritePart, WriteRest, SyncTmp, Goto, Saving
  <1>5. at'[p] = l /\ \A q \in Procs : q # p => at'[q] = at[q]
    BY <1>1, <1>4
  <1>6. \A q \in Procs : at'[q] \in Saving <=> at[q] \in Saving
    BY <1>2, <1>5
  <1>7. /\ \A i \in Inodes : i # fd[p] => data'[i] = data[i]
        /\ \A i \in stable : i # fd[p] => i \in stable'
    BY <1>1 DEF WritePart, WriteRest, SyncTmp
  <1>8. LockOK'
    BY <1>2, <1>4, LockKept DEF Goto, Saving
  <1>9. OneSave'
    BY <1>1, <1>2, <1>6 DEF OneSave, Locks
  <1>10. FdOK'
    BY <1>1, <1>2, <1>6 DEF FdOK
  <1>11. MemOK'
    BY <1>1, <1>2, <1>5 DEF MemOK, Busy
  <1>12. TmpOK'
    BY <1>1, <1>2, <1>6 DEF TmpOK
  <1>13. WrittenOK'
    <2> SUFFICES ASSUME ~overlap, NEW q \in Procs, at'[q] \in {"sync", "rename"}
                 PROVE  /\ data'[fd[q]] = mem[q]
                        /\ at'[q] = "rename" => fd[q] \in stable'
      BY <1>2 DEF WrittenOK
    <2>1. q = p
      BY <1>1, <1>2, <1>6 DEF OneSave, Saving
    <2>2. fd[p] \notin mixed
      BY <1>1, <1>2 DEF TmpOK
    <2>3. CASE WritePart(p)
      BY <1>1, <2>1, <2>3 DEF WritePart, Goto
    <2>4. CASE WriteRest(p)
      <3>1. data' = [data EXCEPT ![fd[p]] = mem[p]]
        BY <2>2, <2>4 DEF WriteRest
      <3>2. at'[p] = "sync"
        BY <1>1, <2>4 DEF WriteRest, Goto
      <3> QED
        BY <1>1, <1>3, <2>1, <3>1, <3>2
    <2>5. CASE SyncTmp(p)
      BY <1>1, <2>1, <2>5 DEF SyncTmp, WrittenOK
    <2> QED
      BY <2>3, <2>4, <2>5
  <1>14. WholeFile'
    <2> SUFFICES ASSUME ~overlap, NEW d \in past, d.file # 0
                 PROVE  d.file \in stable' /\ data'[d.file] # Torn
      BY <1>2 DEF WholeFile
    <2>1. d.file # fd[p]
      BY <1>1, <1>2, <1>3, FilesConstants DEF TmpOK
    <2>2. d.file \in Inodes
      BY <1>1 DEF Dir
    <2> QED
      BY <1>1, <1>7, <2>1, <2>2 DEF WholeFile
  <1>15. NoStrayTmp'
    BY <1>1, <1>2, <1>6 DEF NoStrayTmp
  <1> QED
    BY <1>8, <1>9, <1>10, <1>11, <1>12, <1>13, <1>14, <1>15 DEF Whole

LEMMA RenameInv ==
  ASSUME Whole, TypeOK', NEW p \in Procs, Rename(p)
  PROVE  Whole'
  <1>1. /\ TypeOK /\ LockOK /\ OneSave /\ FdOK /\ MemOK /\ TmpOK /\ WholeFile
        /\ WrittenOK
        /\ at \in [Procs -> Phases] /\ fd \in [Procs -> Inodes \cup {0}]
        /\ dir \in past /\ past \subseteq Dir
    BY DEF Whole, TypeOK
  <1>2. /\ at[p] = "rename" /\ dir.tmp # 0 /\ dir.tmp \in Inodes
        /\ dir' = [file |-> dir.tmp, tmp |-> 0] /\ past' = past \cup {dir'}
        /\ fd' = [fd EXCEPT ![p] = 0] /\ at' = [at EXCEPT ![p] = "syncdir"]
        /\ UNCHANGED <<data, stable, mixed, holder, mem, kind, cut, overlap>>
    BY <1>1 DEF Rename, Becomes, Goto, counts, Dir
  <1>3. /\ dir'.file = dir.tmp /\ dir'.tmp = 0
        /\ at'[p] = "syncdir" /\ fd'[p] = 0
        /\ \A q \in Procs : q # p => at'[q] = at[q] /\ fd'[q] = fd[q]
    BY <1>1, <1>2
  <1>4. ~overlap => \A q \in Procs : at'[q] \notin Saving
    BY <1>1, <1>2, <1>3 DEF OneSave, Saving
  <1>5. LockOK'
    BY <1>2, LockKept DEF Goto
  <1>6. OneSave'
    BY <1>1, <1>2, <1>4 DEF OneSave, Locks
  <1>7. FdOK'
    BY <1>1, <1>3 DEF FdOK, Saving
  <1>8. MemOK'
    BY <1>1, <1>2, <1>3 DEF MemOK, Busy, Saving
  <1>9. TmpOK'
    BY <1>1, <1>2, <1>3, <1>4 DEF TmpOK
  <1>10. WrittenOK'
    BY <1>2, <1>4 DEF WrittenOK, Saving
  <1>11. WholeFile'
    <2>1. ~overlap => dir.tmp \in stable /\ data[dir.tmp] # Torn
      BY <1>1, <1>2 DEF WrittenOK, TmpOK, MemOK, Busy, Saving, Torn
    <2> QED
      BY <1>1, <1>2, <1>3, <2>1 DEF WholeFile
  <1>12. NoStrayTmp'
    BY <1>3 DEF NoStrayTmp
  <1> QED
    BY <1>5, <1>6, <1>7, <1>8, <1>9, <1>10, <1>11, <1>12 DEF Whole

(* A save that fails removes tmp; a killed one leaves it.                  *)
LEMMA CutInv ==
  ASSUME Whole, TypeOK', NEW p \in Procs, SaveFails(p) \/ Kill(p)
  PROVE  Whole'
  <1>1. /\ TypeOK /\ LockOK /\ OneSave /\ FdOK /\ MemOK /\ TmpOK /\ WholeFile
        /\ WrittenOK /\ NoStrayTmp
        /\ at \in [Procs -> Phases] /\ fd \in [Procs -> Inodes \cup {0}]
        /\ mem \in [Procs -> SUBSET Nat]
        /\ dir \in past /\ past \subseteq Dir
    BY DEF Whole, TypeOK
  <1>2. /\ at' = [at EXCEPT ![p] = "idle"] /\ mem' = [mem EXCEPT ![p] = {}]
        /\ fd' = [fd EXCEPT ![p] = 0] /\ holder' = holder \ {p}
        /\ UNCHANGED <<data, stable, mixed, kind, overlap>>
    BY DEF SaveFails, Kill, Leave, Goto, counts, disk
  <1>3. /\ at'[p] = "idle" /\ mem'[p] = {} /\ fd'[p] = 0
        /\ \A q \in Procs : q # p =>
             at'[q] = at[q] /\ fd'[q] = fd[q] /\ mem'[q] = mem[q]
    BY <1>1, <1>2
  <1>4. /\ dir'.file = dir.file /\ dir' \in past'
        /\ \/ dir' = dir /\ past' = past
           \/ dir'.tmp = 0 /\ past' = past \cup {dir'} /\ at[p] \in Saving \cup {"tmp"}
    BY <1>1 DEF SaveFails, Kill, Becomes, Dir, disk
  <1>5. LockOK'
    BY <1>2, LockKept DEF Goto
  <1>6. \A q \in Procs : at'[q] \in Saving => at[q] \in Saving /\ q # p
    BY <1>3 DEF Saving
  <1>7. OneSave'
    BY <1>1, <1>2, <1>6 DEF OneSave, Locks
  <1>8. FdOK'
    BY <1>1, <1>3 DEF FdOK, Saving
  <1>9. MemOK'
    BY <1>1, <1>3 DEF MemOK, Busy, Saving
  <1>10. \A d \in past' : \E e \in past : e.file = d.file
    BY <1>1, <1>4
  <1>11. TmpOK'
    <2> SUFFICES ASSUME ~overlap
                 PROVE  /\ \A q \in Procs : at'[q] \in Saving =>
                             /\ fd'[q] = dir'.tmp \/ dir'.tmp = 0
                             /\ fd'[q] \notin mixed
                             /\ \A d \in past' : d.file # fd'[q]
                        /\ \A d \in past' : d.tmp # 0 => d.file # d.tmp
                        /\ dir'.tmp # 0 => \A d \in past' : d.file # dir'.tmp
      BY <1>2 DEF TmpOK
    <2>1. CASE dir' = dir /\ past' = past
      BY <1>1, <1>3, <1>6, <2>1 DEF TmpOK
    <2>2. CASE dir'.tmp = 0 /\ past' = past \cup {dir'} /\ at[p] \in Saving \cup {"tmp"}
               /\ ~(dir' = dir /\ past' = past)
      <3>1. \A d \in past' : d.tmp # 0 => d.file # d.tmp
        BY <1>1, <2>2 DEF TmpOK
      <3>2. \A q \in Procs : at'[q] \in Saving =>
              fd'[q] \notin mixed /\ \A d \in past : d.file # fd'[q]
        BY <1>1, <1>3, <1>6 DEF TmpOK
      <3>3. \A d \in past' : \E e \in past : e.file = d.file
        BY <1>10
      <3> QED
        BY <2>2, <3>1, <3>2, <3>3
    <2> QED
      BY <1>4, <2>1, <2>2
  <1>12. WrittenOK'
    BY <1>1, <1>2, <1>3, <1>6 DEF WrittenOK, Saving
  <1>13. WholeFile'
    BY <1>1, <1>2, <1>10 DEF WholeFile
  <1>14. NoStrayTmp'
    <2>1. CASE SaveFails(p)
      <3>1. dir'.tmp = 0
        BY <1>1, <2>1 DEF SaveFails, Becomes, Dir
      <3> QED
        BY <3>1 DEF NoStrayTmp
    <2>2. CASE Kill(p)
      BY <1>1, <1>3, <2>2 DEF NoStrayTmp, Kill, disk
    <2> QED
      BY <2>1, <2>2
  <1> QED
    BY <1>5, <1>7, <1>8, <1>9, <1>11, <1>12, <1>13, <1>14 DEF Whole

LEMMA SyncDirInv ==
  ASSUME Whole, TypeOK', NEW p \in Procs, SyncDir(p)
  PROVE  Whole'
  <1>1. /\ TypeOK /\ LockOK /\ OneSave /\ FdOK /\ MemOK /\ TmpOK /\ WholeFile
        /\ WrittenOK /\ NoStrayTmp
        /\ at \in [Procs -> Phases] /\ fd \in [Procs -> Inodes \cup {0}]
        /\ mem \in [Procs -> SUBSET Nat] /\ dir \in past
    BY DEF Whole, TypeOK
  <1>2. /\ at[p] = "syncdir" /\ past' = {dir}
        /\ UNCHANGED <<dir, data, stable, mixed, kind, cut, overlap>>
    BY DEF SyncDir, counts
  <1>3. PICK l \in {"ready", "idle"} : at' = [at EXCEPT ![p] = l]
    BY DEF SyncDir, Leave, Goto
  <1>4. /\ at'[p] = l
        /\ \A q \in Procs : q # p => at'[q] = at[q] /\ mem'[q] = mem[q]
    BY <1>1, <1>3 DEF SyncDir, Leave
  <1>5. fd' = fd
    <2>1. fd[p] = 0
      BY <1>1, <1>2 DEF FdOK, Saving
    <2> QED
      BY <1>1, <2>1 DEF SyncDir, Leave
  <1>6. \A q \in Procs : at'[q] \in Saving <=> at[q] \in Saving
    BY <1>2, <1>4 DEF Saving
  <1>7. LockOK'
    <2>1. CASE Locks
      <3>1. Goto(p, "ready") /\ UNCHANGED <<holder, kind>>
        BY <2>1 DEF SyncDir, counts
      <3> QED
        BY <1>2, <3>1, LockKept
    <2>2. CASE ~Locks
      BY <1>2, <2>2 DEF LockOK, Locks
    <2> QED
      BY <2>1, <2>2
  <1>8. OneSave'
    BY <1>1, <1>2, <1>6 DEF OneSave, Locks
  <1>9. FdOK'
    BY <1>1, <1>5, <1>6 DEF FdOK
  <1>10. MemOK'
    BY <1>1, <1>4 DEF MemOK, Busy, Saving
  <1>11. TmpOK'
    BY <1>1, <1>2, <1>5, <1>6 DEF TmpOK
  <1>12. WrittenOK'
    BY <1>1, <1>2, <1>4, <1>5 DEF WrittenOK
  <1>13. WholeFile'
    BY <1>1, <1>2 DEF WholeFile
  <1>14. NoStrayTmp'
    BY <1>1, <1>2, <1>6 DEF NoStrayTmp
  <1> QED
    BY <1>7, <1>8, <1>9, <1>10, <1>11, <1>12, <1>13, <1>14 DEF Whole

LEMMA PowerLossInv ==
  ASSUME Whole, TypeOK', PowerLoss
  PROVE  Whole'
  <1>1. /\ TypeOK /\ OneSave /\ TmpOK /\ WholeFile
        /\ past \subseteq Dir /\ data \in [Inodes -> SUBSET Nat]
    BY DEF Whole, TypeOK
  <1>2. /\ dir' \in past /\ past' = {dir'} /\ stable' = Inodes /\ cut'
        /\ at' = [p \in Procs |-> "idle"] /\ fd' = [p \in Procs |-> 0]
        /\ mem' = [p \in Procs |-> {}]
        /\ UNCHANGED <<kind, overlap>>
    BY DEF PowerLoss
  <1>3. \A i \in stable : i \in Inodes => data'[i] = data[i]
    BY DEF PowerLoss
  <1>4. LockOK' /\ FdOK' /\ MemOK' /\ WrittenOK' /\ NoStrayTmp'
    BY <1>2 DEF LockOK, FdOK, MemOK, WrittenOK, NoStrayTmp, Saving, Busy
  <1>5. OneSave'
    BY <1>1, <1>2 DEF OneSave, Locks, Saving
  <1>6. TmpOK'
    BY <1>1, <1>2 DEF TmpOK, Saving
  <1>7. WholeFile'
    <2> SUFFICES ASSUME ~overlap, dir'.file # 0
                 PROVE  dir'.file \in Inodes /\ data'[dir'.file] # Torn
      BY <1>2 DEF WholeFile
    <2>1. dir'.file \in Inodes
      BY <1>1, <1>2 DEF Dir
    <2> QED
      BY <1>1, <1>2, <1>3, <2>1 DEF WholeFile
  <1> QED
    BY <1>4, <1>5, <1>6, <1>7 DEF Whole

LEMMA NextWhole == Whole /\ [Next]_vars => Whole'
  <1> SUFFICES ASSUME Whole, [Next]_vars PROVE Whole'
    OBVIOUS
  <1>1. TypeOK'
    BY TypeStep DEF Whole
  <1>2. CASE UNCHANGED vars
    BY <1>2 DEF vars, disk, counts, Whole, TypeOK, LockOK, OneSave, FdOK, MemOK,
       TmpOK, WrittenOK, WholeFile, NoStrayTmp, Locks
  <1>3. CASE PowerLoss
    BY <1>1, <1>3, PowerLossInv
  <1>4. ASSUME NEW p \in Procs, Step(p) PROVE Whole'
    BY <1>1, <1>4, OpenInv, OpenTmpInv, WriteInv, RenameInv, CutInv, SyncDirInv
       DEF Step, SaveStep
  <1> QED
    BY <1>2, <1>3, <1>4 DEF Next

THEOREM FilesInvariant == Spec => []Whole
  BY InitWhole, NextWhole, PTL DEF Spec

(* No reader ever finds a torn file, now or after a power loss, unless two *)
(* saves of state.json ran at the same time.                               *)
THEOREM FileIsWhole == Spec => []WholeFile
  <1>1. Whole => WholeFile
    BY DEF Whole
  <1> QED
    BY <1>1, FilesInvariant, PTL

(* Only a kill or a power loss leaves a tmp file behind.                   *)
THEOREM TmpIsRemoved == Spec => []NoStrayTmp
  <1>1. Whole => NoStrayTmp
    BY DEF Whole
  <1> QED
    BY <1>1, FilesInvariant, PTL

-----------------------------------------------------------------------------
(* The wallet: what has been saved is in every command's memory that may   *)
(* save again, so no save drops it.                                         *)

MemHas == \A p \in Procs : at[p] \in Open => acked \subseteq mem[p]
CreateOK == \A p \in Procs : at[p] = "create" => p \in Creators /\ dir.file = 0
ExistsOK == \A p \in Procs \ Creators : at[p] \in Open => dir.file # 0
SavedOK ==
  \A p \in Procs : at[p] = "syncdir" => dir.file # 0 /\ data[dir.file] = mem[p]

Durable ==
  Whole /\ (Locks => MemHas /\ CreateOK /\ ExistsOK /\ SavedOK /\ AckedDurable)

LEMMA InitDurable == Init => Durable
  <1> SUFFICES ASSUME Init PROVE Durable
    OBVIOUS
  <1>1. Whole
    BY InitWhole
  <1> QED
    BY <1>1 DEF Durable, Init, MemHas, CreateOK, ExistsOK, SavedOK, AckedDurable,
       Open, Busy, Saving, Held

(* Nobody else is past the lock while p is.                                *)
LEMMA Alone ==
  ASSUME Whole, Locks, NEW p \in Procs, at[p] \notin {"idle", "create"},
         NEW q \in Procs, q # p
  PROVE  at[q] \notin Open
  BY DEF Whole, LockOK, Open, Busy, Saving

LEMMA DurableStep ==
  ASSUME Durable, Locks, NEW p \in Procs, Step(p)
  PROVE  (MemHas /\ CreateOK /\ ExistsOK /\ SavedOK /\ AckedDurable)'
  <1>1. /\ Whole /\ MemHas /\ CreateOK /\ ExistsOK /\ SavedOK /\ AckedDurable
        /\ ~overlap
    BY DEF Durable, Whole, OneSave
  <1>2. /\ at \in [Procs -> Phases] /\ mem \in [Procs -> SUBSET Nat]
        /\ fd \in [Procs -> Inodes \cup {0}] /\ data \in [Inodes -> SUBSET Nat]
        /\ dir \in past /\ past \subseteq Dir /\ acked \subseteq Nat
    BY <1>1 DEF Whole, TypeOK
  <1>3. CASE CheckExists(p)
    <2>1. /\ at' = [at EXCEPT ![p] = "create"] /\ p \in Creators /\ dir.file = 0
          /\ UNCHANGED <<dir, past, data, mem, kind, acked>>
      BY <1>3 DEF CheckExists, Goto, disk, counts
    <2> QED
      BY <1>1, <1>2, <2>1 DEF MemHas, CreateOK, ExistsOK, SavedOK, AckedDurable,
         Open, Busy, Saving, Held, Locks
  <1>4. CASE LockCreate(p)
    <2>1. /\ at' = [at EXCEPT ![p] = "tmp"] /\ at[p] = "create"
          /\ mem' = [mem EXCEPT ![p] = {} \cup {changes'}]
          /\ UNCHANGED <<dir, past, data, kind, acked>>
      BY <1>4 DEF LockCreate, NewContent, Goto, disk
    <2>2. p \in Creators /\ acked = {}
      BY <1>1, <1>2, <2>1 DEF CreateOK, AckedDurable, Held
    <2> QED
      BY <1>1, <1>2, <2>1, <2>2 DEF MemHas, CreateOK, ExistsOK, SavedOK,
         AckedDurable, Open, Busy, Saving, Held, Locks
  <1>5. CASE CreateLocked(p) \/ ReadFails(p) \/ End(p) \/ Kill(p)
    <2>1. /\ at' = [at EXCEPT ![p] = "idle"] /\ mem' = [mem EXCEPT ![p] = {}]
          /\ UNCHANGED <<dir, past, data, kind, acked>>
      BY <1>5 DEF CreateLocked, ReadFails, End, Kill, Leave, Goto, disk, counts
    <2> QED
      BY <1>1, <1>2, <2>1 DEF MemHas, CreateOK, ExistsOK, SavedOK, AckedDurable,
         Open, Busy, Saving, Held, Locks
  <1>6. CASE LockOpen(p)
    <2>1. /\ at' = [at EXCEPT ![p] = "locked"]
          /\ UNCHANGED <<dir, past, data, mem, kind, acked>>
      BY <1>6 DEF LockOpen, Goto, disk, counts
    <2> QED
      BY <1>1, <1>2, <2>1 DEF MemHas, CreateOK, ExistsOK, SavedOK, AckedDurable,
         Open, Busy, Saving, Held, Locks
  <1>7. CASE ReadWallet(p)
    <2>1. /\ at' = [at EXCEPT ![p] = "ready"] /\ mem' = [mem EXCEPT ![p] = Held(dir)]
          /\ UNCHANGED <<dir, past, data, kind, acked>> /\ Held(dir) # {}
      BY <1>7 DEF ReadWallet, Goto, disk, counts, Torn
    <2>2. dir.file # 0 /\ acked \subseteq Held(dir)
      BY <1>1, <1>2, <2>1 DEF Held, AckedDurable
    <2> QED
      BY <1>1, <1>2, <2>1, <2>2 DEF MemHas, CreateOK, ExistsOK, SavedOK,
         AckedDurable, Open, Busy, Saving, Held, Locks
  <1>8. CASE LoadState(p)
    BY <1>8 DEF LoadState
  <1>9. CASE Modify(p)
    <2>1. /\ at' = [at EXCEPT ![p] = "tmp"] /\ at[p] = "ready"
          /\ mem' = [mem EXCEPT ![p] = mem[p] \cup {changes'}]
          /\ UNCHANGED <<dir, past, data, kind, acked>>
      BY <1>9 DEF Modify, NewContent, Goto, disk
    <2> QED
      BY <1>1, <1>2, <2>1 DEF MemHas, CreateOK, ExistsOK, SavedOK,
         AckedDurable, Open, Busy, Saving, Held, Locks
  <1>10. ASSUME NEW l \in Saving, at' = [at EXCEPT ![p] = l], at[p] \in Busy \ {"syncdir"},
                dir'.file = dir.file, UNCHANGED <<mem, kind, acked>>,
                \A d \in past' : \E e \in past : e.file = d.file,
                \A d \in past : d.file # 0 => data'[d.file] = data[d.file]
         PROVE  (MemHas /\ CreateOK /\ ExistsOK /\ SavedOK /\ AckedDurable)'
    <2>1. MemHas' /\ CreateOK' /\ ExistsOK'
      BY <1>1, <1>2, <1>10 DEF MemHas, CreateOK, ExistsOK, Open, Busy, Saving
    <2>2. SavedOK'
      BY <1>1, <1>2, <1>10 DEF SavedOK, Saving
    <2>3. AckedDurable'
      BY <1>1, <1>10 DEF AckedDurable, Held, Locks
    <2> QED
      BY <2>1, <2>2, <2>3
  <1>11. CASE OpenTmp(p)
    <2>1. dir.tmp # 0 => dir' = dir /\ past' = past /\ fd'[p] = dir.tmp
      BY <1>2, <1>11 DEF OpenTmp
    <2>2. dir.tmp = 0 => /\ dir'.file = dir.file /\ past' = past \cup {dir'}
                         /\ fd'[p] \in Free
      <3> SUFFICES ASSUME dir.tmp = 0
                   PROVE  /\ dir'.file = dir.file /\ past' = past \cup {dir'}
                          /\ fd'[p] \in Free
        OBVIOUS
      <3>1. /\ fd' = [fd EXCEPT ![p] = CHOOSE i \in Free : TRUE] /\ Free # {}
            /\ Becomes([dir EXCEPT !.tmp = fd'[p]])
        BY <1>11 DEF OpenTmp
      <3>2. (CHOOSE i \in Free : TRUE) \in Free
        BY <3>1
      <3>3. fd'[p] \in Free
        BY <1>2, <3>1, <3>2
      <3> QED
        BY <1>2, <3>1, <3>3 DEF Becomes, Dir
    <2>3. \A d \in past : d.file # fd'[p]
      BY <1>1, <2>1, <2>2 DEF Whole, TmpOK, Free
    <2>4. \A d \in past : d.file # 0 => data'[d.file] = data[d.file]
      BY <1>2, <1>11, <2>3 DEF OpenTmp, Dir
    <2>5. \A d \in past' : \E e \in past : e.file = d.file
      BY <1>2, <2>1, <2>2
    <2>6. at' = [at EXCEPT ![p] = "write"] /\ at[p] = "tmp" /\ UNCHANGED <<mem, kind, acked>>
      BY <1>11 DEF OpenTmp, Goto, counts
    <2>7. dir'.file = dir.file
      BY <2>1, <2>2
    <2> QED
      BY <1>10, <2>4, <2>5, <2>6, <2>7 DEF Busy, Saving
  <1>12. CASE WritePart(p) \/ WriteRest(p) \/ SyncTmp(p)
    <2>1. PICK l \in Saving : at' = [at EXCEPT ![p] = l]
      BY <1>12 DEF WritePart, WriteRest, SyncTmp, Goto, Saving
    <2>2. /\ at[p] \in Saving /\ UNCHANGED <<dir, past, mem, kind, acked>>
      BY <1>12 DEF WritePart, WriteRest, SyncTmp, Saving, counts
    <2>3. \A d \in past : d.file # fd[p]
      BY <1>1, <2>2 DEF Whole, TmpOK
    <2>4. \A d \in past : d.file # 0 => data'[d.file] = data[d.file]
      BY <1>2, <1>12, <2>3 DEF WritePart, WriteRest, SyncTmp, Dir
    <2> QED
      BY <1>10, <2>1, <2>2, <2>4 DEF Busy, Saving
  <1>13. CASE Rename(p)
    <2>1. /\ at[p] = "rename" /\ dir.tmp # 0
          /\ dir' = [file |-> dir.tmp, tmp |-> 0] /\ past' = past \cup {dir'}
          /\ at' = [at EXCEPT ![p] = "syncdir"]
          /\ UNCHANGED <<data, mem, kind, acked>>
      BY <1>13 DEF Rename, Becomes, Goto, counts
    <2>2. data[dir.tmp] = mem[p] /\ acked \subseteq mem[p] /\ dir'.file = dir.tmp
      BY <1>1, <2>1 DEF Whole, TmpOK, WrittenOK, MemHas, Open, Busy, Saving
    <2>3. \A q \in Procs : q # p => at'[q] = at[q] /\ at[q] \notin Open
      BY <1>1, <1>2, <2>1, Alone
    <2>4. at'[p] = "syncdir"
      BY <1>2, <2>1
    <2>5. MemHas' /\ ExistsOK' /\ SavedOK'
      BY <2>1, <2>2, <2>3, <2>4 DEF MemHas, ExistsOK, SavedOK, Open, Busy
    <2>6. CreateOK'
      <3> SUFFICES ASSUME NEW q \in Procs, at'[q] = "create" PROVE FALSE
        BY DEF CreateOK
      <3>1. q # p /\ at[q] = "create"
        BY <2>3, <2>4
      <3>2. q \in Creators /\ dir.file = 0
        BY <1>1, <3>1 DEF CreateOK
      <3>3. p \notin Creators
        BY <3>1, <3>2, FilesConstants
      <3> QED
        BY <1>1, <2>1, <3>2, <3>3 DEF ExistsOK, Open, Busy, Saving
    <2>7. AckedDurable'
      BY <1>1, <2>1, <2>2 DEF AckedDurable, Held, Locks
    <2> QED
      BY <2>5, <2>6, <2>7
  <1>14. CASE SaveFails(p)
    <2>1. /\ at' = [at EXCEPT ![p] = "idle"] /\ mem' = [mem EXCEPT ![p] = {}]
          /\ UNCHANGED <<data, kind, acked>>
      BY <1>14 DEF SaveFails, Leave, Goto, counts
    <2>2. dir'.file = dir.file /\ \A d \in past' : \E e \in past : e.file = d.file
      BY <1>2, <1>14 DEF SaveFails, Becomes, Dir
    <2>3. MemHas' /\ CreateOK' /\ ExistsOK' /\ SavedOK'
      BY <1>1, <1>2, <2>1, <2>2 DEF MemHas, CreateOK, ExistsOK, SavedOK,
         Open, Busy, Saving
    <2>4. AckedDurable'
      BY <1>1, <2>1, <2>2 DEF AckedDurable, Held, Locks
    <2> QED
      BY <2>3, <2>4
  <1>15. CASE SyncDir(p)
    <2>1. /\ at[p] = "syncdir" /\ at' = [at EXCEPT ![p] = "ready"]
          /\ past' = {dir} /\ acked' = acked \cup mem[p]
          /\ UNCHANGED <<dir, data, mem, kind>>
      BY <1>15 DEF SyncDir, Goto, counts
    <2>2. /\ dir.file # 0 /\ data[dir.file] = mem[p] /\ acked \subseteq mem[p]
      BY <1>1, <2>1 DEF SavedOK, MemHas, Open, Busy
    <2>3. \A q \in Procs : q # p => at'[q] = at[q] /\ at[q] \notin Open
      BY <1>1, <1>2, <2>1, Alone
    <2>4. at'[p] = "ready"
      BY <1>2, <2>1
    <2>5. MemHas' /\ CreateOK' /\ ExistsOK' /\ SavedOK'
      BY <1>1, <2>1, <2>2, <2>3, <2>4 DEF MemHas, CreateOK, ExistsOK, SavedOK,
         Open, Busy, Saving
    <2>6. AckedDurable'
      BY <2>1, <2>2 DEF AckedDurable, Held
    <2> QED
      BY <2>5, <2>6
  <1> QED
    BY <1>3, <1>4, <1>5, <1>6, <1>7, <1>8, <1>9, <1>11, <1>12, <1>13, <1>14, <1>15
       DEF Step, SaveStep

LEMMA DurableLoss ==
  ASSUME Durable, Locks, PowerLoss
  PROVE  (MemHas /\ CreateOK /\ ExistsOK /\ SavedOK /\ AckedDurable)'
  <1>1. /\ Whole /\ AckedDurable /\ ~overlap /\ past \subseteq Dir
    BY DEF Durable, Whole, OneSave, TypeOK
  <1>2. /\ dir' \in past /\ past' = {dir'} /\ at' = [p \in Procs |-> "idle"]
        /\ UNCHANGED <<kind, acked>>
        /\ \A i \in stable : i \in Inodes => data'[i] = data[i]
    BY DEF PowerLoss
  <1>3. dir'.file # 0 => data'[dir'.file] = data[dir'.file]
    BY <1>1, <1>2 DEF Whole, WholeFile, Dir
  <1>4. acked \subseteq IF dir'.file = 0 THEN {} ELSE data[dir'.file]
    BY <1>1, <1>2 DEF AckedDurable, Held
  <1>5. AckedDurable'
    BY <1>2, <1>3, <1>4 DEF AckedDurable, Held
  <1> QED
    BY <1>2, <1>5 DEF MemHas, CreateOK, ExistsOK, SavedOK, Open, Busy, Saving

LEMMA NextDurable == Durable /\ [Next]_vars => Durable'
  <1> SUFFICES ASSUME Durable, [Next]_vars PROVE Durable'
    OBVIOUS
  <1>1. Whole'
    BY NextWhole DEF Durable
  <1>2. Locks' <=> Locks
    BY DEF Next, Step, SaveStep, vars, counts, Locks, PowerLoss, CheckExists,
       LockCreate, CreateLocked, LockOpen, ReadWallet, ReadFails, LoadState, Modify,
       OpenTmp, WritePart, WriteRest, SyncTmp, Rename, SaveFails, SyncDir, End, Kill
  <1>3. CASE UNCHANGED vars
    BY <1>1, <1>3 DEF Durable, vars, disk, counts, Locks, MemHas, CreateOK, ExistsOK,
       SavedOK, AckedDurable, Held
  <1>4. CASE PowerLoss
    BY <1>1, <1>2, <1>4, DurableLoss DEF Durable
  <1>5. ASSUME NEW p \in Procs, Step(p) PROVE Durable'
    BY <1>1, <1>2, <1>5, DurableStep DEF Durable
  <1> QED
    BY <1>3, <1>4, <1>5 DEF Next

(* A wallet save that has returned is not lost: not to a kill, a power     *)
(* loss or a failed save at any step, nor to another command's save.       *)
THEOREM SavesAreDurable == Spec => []AckedDurable
  <1>1. Durable => AckedDurable
    BY DEF Durable, AckedDurable
  <1> QED
    BY <1>1, InitDurable, NextDurable, PTL DEF Spec
=============================================================================
