---------------------------- MODULE ShieldedPool ----------------------------
(***************************************************************************)
(* What the shielded state promises, without blocks, envelopes, proofs or   *)
(* nullifiers: a pool of notes, each worth something and spent at most      *)
(* once.  A mint adds a note.  A transfer spends up to two unspent notes    *)
(* and adds two that are worth exactly as much.  Nothing else changes a     *)
(* pool, except that a command drops its copy, or the file is replaced by   *)
(* a command's copy.                                                        *)
(***************************************************************************)
EXTENDS Integers

CONSTANTS
  Procs,    \* commands
  None      \* in place of a note in an empty input slot

VARIABLES
  file,     \* the stored pool
  copy      \* each command's pool

Empty == [notes |-> [n \in {} |-> 0], spent |-> {}]

Unspent(q) == DOMAIN q.notes \ q.spent
Worth(q, n) == IF n = None THEN 0 ELSE q.notes[n]

(* Pool r has the notes of q and the notes N, which are new.               *)
Gains(q, r, N) ==
  /\ N \cap DOMAIN q.notes = {}
  /\ DOMAIN r.notes = DOMAIN q.notes \cup N
  /\ \A n \in DOMAIN q.notes : r.notes[n] = q.notes[n]

Mint(q, r) ==
  \E n \in DOMAIN r.notes :
    /\ Gains(q, r, {n})
    /\ r.notes[n] > 0
    /\ r.spent = q.spent

Transfer(q, r) ==
  \E a, b \in Unspent(q) \cup {None}, m, n \in DOMAIN r.notes :
    /\ a = b => a = None
    /\ m # n
    /\ Gains(q, r, {m, n})
    /\ r.notes[m] + r.notes[n] = Worth(q, a) + Worth(q, b)
    /\ r.spent = q.spent \cup ({a, b} \ {None})

Load(p) ==
  /\ copy' = [copy EXCEPT ![p] = file]
  /\ UNCHANGED file

Advance(p) ==
  /\ copy' = [copy EXCEPT ![p] = copy'[p]]
  /\ Mint(copy[p], copy'[p]) \/ Transfer(copy[p], copy'[p])
  /\ UNCHANGED file

(* A command ends, or starts over because the chain was reorganised.       *)
Drop(p) ==
  /\ copy' = [copy EXCEPT ![p] = Empty]
  /\ UNCHANGED file

Store(p) ==
  /\ file' = copy[p]
  /\ copy' = [copy EXCEPT ![p] = Empty]

Init ==
  /\ file = Empty
  /\ copy = [p \in Procs |-> Empty]

Next == \E p \in Procs : Load(p) \/ Advance(p) \/ Drop(p) \/ Store(p)

Spec == Init /\ [][Next]_<<file, copy>>
=============================================================================
