---------------------------- MODULE WalletProofs ----------------------------
(***************************************************************************)
(* Proofs about Wallet: for every number of commands, every network and     *)
(* every fault, a scan leaves notes the wallet could spend, and the lock    *)
(* keeps commands apart.                                                    *)
(*                                                                          *)
(* The states commands have replayed satisfy StateInv of ReplayProofs; that *)
(* an event's leaves stand at its position (EventLeaves) is what makes the   *)
(* notes a scan reads out of events leaves of the tree.                     *)
(***************************************************************************)
EXTENDS Wallet, SequenceTheorems, FiniteSetTheorems, TLAPS

RP == INSTANCE ReplayProofs WITH
        Txid <- Tx, Carrier <- [t \in Tx |-> t.env], BlockId <- {0},
        MaxRejections <- 1

-----------------------------------------------------------------------------
(* Replay in this module's instance and in that of the proofs is the same.  *)

LEMMA Instance ==
  /\ RP!ReplayConstants
  /\ RP!Leaf = Leaf /\ RP!Slots = Slots /\ RP!Nullifier = Nullifier
  /\ RP!Envelope = Envelope /\ RP!Initial = Activation - 1
  <1>1. RP!Leaf = Leaf /\ RP!Slots = Slots /\ RP!Nullifier = Nullifier
    BY DEF RP!Leaf, Leaf, RP!Slots, Slots, RP!Nullifier, Nullifier
  <1>2. RP!Envelope = Envelope
    BY <1>1
    DEF RP!Envelope, Envelope, RP!NoEnvelope, NoEnvelope, RP!MintEnvelope, MintEnvelope,
        RP!TransferEnvelope, TransferEnvelope, RP!Input, Input
  <1>3. [t \in Tx |-> t.env] \in [Tx -> RP!Envelope]
    BY <1>2 DEF Tx
  <1>4. RP!ReplayConstants
    BY <1>3, WalletConstants DEF RP!ReplayConstants
  <1> QED
    BY <1>1, <1>2, <1>4 DEF RP!Initial

LEMMA SameFresh == R!Fresh = RP!Fresh
  BY DEF R!Fresh, RP!Fresh, R!Initial, RP!Initial

LEMMA SameReplayTx == \A s, h, t : R!ReplayTx(s, h, t) = RP!ReplayTx(s, h, t)
  BY DEF R!ReplayTx, RP!ReplayTx, R!Verdict, RP!Verdict, R!TransferVerdict,
         RP!TransferVerdict, R!Reject, RP!Reject, R!AcceptMint, RP!AcceptMint,
         R!AcceptTransfer, RP!AcceptTransfer, R!Reasons, RP!Reasons, R!Mints, RP!Mints,
         R!InWindow, RP!InWindow, R!Nf, RP!Nf, R!Nfs, RP!Nfs, R!Verify, RP!Verify,
         R!Enters, RP!Enters, R!Slots, RP!Slots, R!InValue, RP!InValue,
         R!MintLeaf, RP!MintLeaf, R!OutputLeaf, RP!OutputLeaf

LEMMA SameEndBlock == \A s, h, x : R!EndBlock(s, h, x) = RP!EndBlock(s, h, x)
  BY DEF R!EndBlock, RP!EndBlock, R!Put, RP!Put, R!Keep, RP!Keep, R!Recent, RP!Recent,
         R!KeepFrom, RP!KeepFrom, R!Initial, RP!Initial, R!LastRejections,
         RP!LastRejections

LEMMA SameStateOK == \A s : R!StateOK(s) <=> RP!StateOK(s)
  <1> USE DEF R!Leaf, RP!Leaf, R!Slots, RP!Slots
  <1>1. R!StateFields = RP!StateFields
    BY DEF R!StateFields, RP!StateFields
  <1>2. R!Nullifier = RP!Nullifier /\ R!Leaf = RP!Leaf
    BY DEF R!Nullifier, RP!Nullifier
  <1>3. R!Block = RP!Block /\ R!Event = RP!Event
    BY DEF R!Block, RP!Block, R!Event, RP!Event
  <1>4. R!Rejection = RP!Rejection
    BY DEF R!Rejection, RP!Rejection, R!Reasons, RP!Reasons
  <1>5. \A f, S : R!HeightMap(f, S) <=> RP!HeightMap(f, S)
    BY DEF R!HeightMap, RP!HeightMap
  <1> QED
    BY <1>1, <1>2, <1>3, <1>4, <1>5 DEF R!StateOK, RP!StateOK

-----------------------------------------------------------------------------
(* Folds over sequences.  FoldLeft folds with a table of all subsets of the  *)
(* domain; only its rows for 1..k matter.                                   *)

LEMMA LeastNumber ==
  ASSUME NEW T, T \subseteq Nat, T # {}
  PROVE  \E k \in T : \A i \in T : k <= i
  BY RP!LeastNumber, Instance DEF RP!ReplayConstants

LEMMA SmallestSet ==
  ASSUME NEW F, F # {}, \A t \in F : IsFiniteSet(t)
  PROVE  \E t \in F : \A x \in t : t \ {x} \notin F
  <1> DEFINE sizes == {Cardinality(t) : t \in F}
  <1>1. sizes \subseteq Nat /\ sizes # {}
    BY FS_CardinalityType
  <1>2. PICK n \in sizes : \A m \in sizes : n <= m
    BY <1>1, LeastNumber
  <1>3. PICK t \in F : Cardinality(t) = n
    OBVIOUS
  <1>4. ASSUME NEW x \in t, t \ {x} \in F PROVE FALSE
    <2>1. Cardinality(t \ {x}) = n - 1 /\ n \in Nat
      BY <1>1, <1>3, FS_RemoveElement
    <2>2. Cardinality(t \ {x}) \in sizes
      BY <1>4
    <2> QED
      BY <1>2, <2>1, <2>2
  <1> QED
    BY <1>4

(* What holds at first and of each next one holds of all.                   *)
LEMMA Climb ==
  ASSUME NEW n \in Nat, NEW good, NEW acc,
         acc[0] \in good[0],
         \A k \in 1..n : acc[k - 1] \in good[k - 1] => acc[k] \in good[k]
  PROVE  \A k \in 0..n : acc[k] \in good[k]
  <1> DEFINE Bad == {k \in 0..n : acc[k] \notin good[k]}
  <1> SUFFICES ASSUME Bad # {} PROVE FALSE
    OBVIOUS
  <1>1. PICK k \in Bad : \A i \in Bad : k <= i
    <2>1. Bad \subseteq Nat
      OBVIOUS
    <2> HIDE DEF Bad
    <2> QED
      BY <2>1, LeastNumber
  <1>2. k # 0
    BY <1>1
  <1>3. k \in 1..n /\ k - 1 \in 0..n /\ k - 1 \notin Bad
    BY <1>1, <1>2
  <1> QED
    BY <1>1, <1>3

LEMMA LastOf ==
  ASSUME NEW k \in Nat \ {0}
  PROVE  Max(1..k) = k /\ (1..k) \ {k} = 1..(k - 1) /\ 1..k # {}
  <1>1. k \in 1..k /\ \A y \in 1..k : k >= y
    OBVIOUS
  <1>2. Max(1..k) \in 1..k /\ \A y \in 1..k : Max(1..k) >= y
    BY <1>1 DEF Max
  <1>3. Max(1..k) = k
    BY <1>2
  <1>4. (1..k) \ {k} = 1..(k - 1) /\ 1..k # {}
    BY <1>1
  <1> QED
    BY <1>3, <1>4

LEMMA MaxIn ==
  ASSUME NEW n \in Nat, NEW t \in SUBSET (1..n), t # {}
  PROVE  Max(t) \in t
  <1> DEFINE bounds == {b \in Nat : \A y \in t : b >= y}
  <1>1. n \in bounds
    OBVIOUS
  <1>2. PICK b \in bounds : \A i \in bounds : b <= i
    BY <1>1, LeastNumber
  <1>3. b \in t
    <2> SUFFICES ASSUME b \notin t PROVE FALSE
      OBVIOUS
    <2>1. PICK y \in t : TRUE
      OBVIOUS
    <2>2. b >= y /\ y >= 1 /\ y \in Nat /\ b \in Nat
      BY <1>2
    <2>3. \A z \in t : b - 1 >= z
      BY <1>2
    <2>4. b - 1 \in bounds
      BY <2>2, <2>3
    <2> QED
      BY <1>2, <2>2, <2>4
  <1>4. \A y \in t : b >= y
    BY <1>2
  <1> QED
    BY <1>3, <1>4 DEF Max

LEMMA SubsetsFinite ==
  ASSUME NEW n \in Nat
  PROVE  /\ IsFiniteSet(1..n)
         /\ \A t \in SUBSET (1..n) : IsFiniteSet(t) /\ Cardinality(t) \in Nat
  <1>1. IsFiniteSet(1..n)
    BY FS_Interval
  <1> QED
    BY <1>1, FS_Subset, FS_CardinalityType

(* One row of the table: G takes what was folded so far and the next value. *)
Row(g, G, base, seq, t) ==
  IF t = {} THEN base ELSE G[<<g[t \ {Max(t)}], seq[Max(t)]>>]

Over(g, S) == g = [t \in SUBSET S |-> g[t]]
Table(g, G, base, seq, S) ==
  Over(g, S) /\ \A t \in SUBSET S : g[t] = Row(g, G, base, seq, t)

LEMMA TableExists ==
  ASSUME NEW n \in Nat, NEW G, NEW base, NEW seq
  PROVE  \E g : Table(g, G, base, seq, 1..n)
  <1> DEFINE S == 1..n
             Small(m) == {t \in SUBSET S : Cardinality(t) <= m}
             Partial(g, m) == \A t \in Small(m) : g[t] = Row(g, G, base, seq, t)
             Bad == {m \in Nat : ~\E g : Partial(g, m)}
  <1>0. /\ IsFiniteSet(S)
        /\ \A t \in SUBSET S : IsFiniteSet(t) /\ Cardinality(t) \in Nat
    BY SubsetsFinite
  <1>1. Bad = {}
    <2> SUFFICES ASSUME Bad # {} PROVE FALSE
      OBVIOUS
    <2>1. PICK m \in Bad : \A i \in Bad : m <= i
      BY LeastNumber
    <2>2. CASE m = 0
      <3> DEFINE g == [t \in {{}} |-> base]
      <3>1. \A t \in Small(0) : t = {}
        BY <1>0, FS_EmptySet
      <3>2. Partial(g, 0)
        BY <3>1 DEF Row
      <3> QED
        BY <2>1, <2>2, <3>2
    <2>3. CASE m # 0
      <3>1. m - 1 \in Nat /\ m \in Nat /\ m - 1 \notin Bad
        BY <2>1, <2>3
      <3>2. PICK g : Partial(g, m - 1)
        BY <3>1
      <3> DEFINE h == [t \in SUBSET S |-> Row(g, G, base, seq, t)]
      <3>3. ASSUME NEW t \in Small(m) PROVE h[t] = Row(h, G, base, seq, t)
        <4>1. h[t] = Row(g, G, base, seq, t)
          OBVIOUS
        <4>2. CASE t = {}
          BY <4>1, <4>2 DEF Row
        <4>3. CASE t # {}
          <5> DEFINE u == t \ {Max(t)}
          <5>1. Max(t) \in t
            BY <4>3, MaxIn
          <5>2. u \in SUBSET S /\ Cardinality(u) = Cardinality(t) - 1
            BY <1>0, <5>1, FS_RemoveElement
          <5>3. u \in Small(m - 1)
            BY <1>0, <3>1, <5>2
          <5>4. h[u] = g[u]
            <6>1. h[u] = Row(g, G, base, seq, u)
              BY <5>2
            <6>2. g[u] = Row(g, G, base, seq, u)
              BY <3>2, <5>3
            <6> QED
              BY <6>1, <6>2
          <5> HIDE DEF h
          <5> QED
            BY <4>1, <4>3, <5>4 DEF Row
        <4> QED
          BY <4>2, <4>3
      <3> HIDE DEF h
      <3>4. Partial(h, m)
        BY <3>3
      <3> QED
        BY <2>1, <3>4
    <2> QED
      BY <2>2, <2>3
  <1>2. Cardinality(S) \in Nat
    BY <1>0
  <1>3. PICK g : Partial(g, Cardinality(S))
    BY <1>1, <1>2
  <1>4. \A t \in SUBSET S : t \in Small(Cardinality(S))
    BY <1>0, FS_Subset
  <1> DEFINE h == [t \in SUBSET S |-> g[t]]
  <1>5. ASSUME NEW t \in SUBSET S PROVE h[t] = Row(h, G, base, seq, t)
    <2>1. g[t] = Row(g, G, base, seq, t)
      BY <1>3, <1>4
    <2>2. h[t] = g[t] /\ h[t \ {Max(t)}] = g[t \ {Max(t)}]
      OBVIOUS
    <2> HIDE DEF h
    <2> QED
      BY <2>1, <2>2 DEF Row
  <1>6. h = [t \in SUBSET S |-> h[t]]
    OBVIOUS
  <1> HIDE DEF h
  <1> QED
    BY <1>5, <1>6 DEF Table, Over

(* A table for an operation that stays in X.                                *)
LEMMA FoldTable ==
  ASSUME NEW X, NEW Y, NEW seq \in Seq(Y), NEW base \in X, NEW G \in [X \X Y -> X]
  PROVE  \E g : /\ Over(g, DOMAIN seq)
                /\ \A t \in SUBSET (DOMAIN seq) :
                     /\ g[t] = Row(g, G, base, seq, t)
                     /\ g[t] \in X
                     /\ t # {} => /\ t \ {Max(t)} \in SUBSET (DOMAIN seq)
                                  /\ seq[Max(t)] \in Y
  <1>1. Len(seq) \in Nat /\ DOMAIN seq = 1..Len(seq) /\ \A i \in 1..Len(seq) : seq[i] \in Y
    BY LenProperties, ElementOfSeq
  <1>2. PICK g : Table(g, G, base, seq, 1..Len(seq))
    BY <1>1, TableExists
  <1>3. \A t \in SUBSET (1..Len(seq)) :
          t # {} => t \ {Max(t)} \in SUBSET (1..Len(seq)) /\ seq[Max(t)] \in Y
    BY <1>1, MaxIn
  <1> DEFINE Bad == {t \in SUBSET (1..Len(seq)) : g[t] \notin X}
  <1>4. Bad = {}
    <2> SUFFICES ASSUME Bad # {} PROVE FALSE
      OBVIOUS
    <2>1. \A t \in Bad : IsFiniteSet(t)
      BY <1>1, SubsetsFinite
    <2>2. PICK t \in Bad : \A x \in t : t \ {x} \notin Bad
      <3> HIDE DEF Bad
      <3> QED
        BY <2>1, SmallestSet
    <2>3. g[t] = Row(g, G, base, seq, t) /\ g[t] \notin X
      BY <1>2 DEF Table
    <2>4. t # {}
      BY <2>3 DEF Row
    <2>5. Max(t) \in t
      BY <1>1, <2>4, MaxIn
    <2>6. g[t \ {Max(t)}] \in X /\ seq[Max(t)] \in Y
      BY <1>3, <2>2, <2>4, <2>5
    <2> QED
      BY <2>3, <2>4, <2>6 DEF Row
  <1> QED
    BY <1>1, <1>2, <1>3, <1>4 DEF Table

(* FoldLeft(Record, base, seq), one note after the other.                   *)
Recorded(base, seq) == FoldLeft(Record, base, seq)
Closed(X, Y) == \A a \in X, y \in Y : Record(a, y) \in X

LEMMA RecordSteps ==
  ASSUME NEW X, NEW Y, NEW seq \in Seq(Y), NEW base \in X, Closed(X, Y)
  PROVE  \E acc :
           /\ acc[0] = base /\ Recorded(base, seq) = acc[Len(seq)]
           /\ \A k \in 1..Len(seq) :
                acc[k] = Record(acc[k - 1], seq[k]) /\ seq[k] \in Y
           /\ \A k \in 0..Len(seq) : acc[k] \in X
  <1> DEFINE D == DOMAIN seq
             n == Len(seq)
             Op(g, t) == IF t = {} THEN base ELSE Record(g[t \ {Max(t)}], seq[Max(t)])
             Eq(g) == g = [t \in SUBSET D |-> Op(g, t)]
             G == [p \in X \X Y |-> Record(p[1], p[2])]
  <1>0. \A a \in X, y \in Y : Record(a, y) \in X
    BY DEF Closed
  <1>1. n \in Nat /\ D = 1..n
    BY LenProperties
  <1>2. \E g : Eq(g)
    <2>1. G \in [X \X Y -> X]
      BY <1>0
    <2>2. PICK g : /\ Over(g, D)
                   /\ \A t \in SUBSET D :
                        /\ g[t] = Row(g, G, base, seq, t)
                        /\ g[t] \in X
                        /\ t # {} => t \ {Max(t)} \in SUBSET D /\ seq[Max(t)] \in Y
      <3> HIDE DEF G
      <3> QED
        BY <2>1, FoldTable, ZenonT(60)
    <2>3. \A t \in SUBSET D : g[t] = Op(g, t)
      BY <2>2 DEF Row
    <2> QED
      BY <2>2, <2>3 DEF Over
  <1> DEFINE g == CHOOSE g : Eq(g)
  <1>3. Eq(g)
    BY <1>2
  <1>4. FoldLeft(Record, base, seq) = g[D]
    BY DEF FoldLeft, MapThenFoldSet
  <1> HIDE DEF g
  <1>5. \A t \in SUBSET D : g[t] = Op(g, t)
    BY <1>3
  <1> DEFINE acc == [k \in 0..n |-> g[1..k]]
             good == [k \in 0..n |-> X]
  <1>6. acc[0] = base
    <2>1. 1..0 = {} /\ {} \in SUBSET D /\ 0 \in 0..n
      BY <1>1
    <2>2. g[{}] = base
      BY <1>5, <2>1
    <2> QED
      BY <2>1, <2>2
  <1>7. ASSUME NEW k \in 1..n PROVE acc[k] = Record(acc[k - 1], seq[k]) /\ seq[k] \in Y
    <2>1. 1..k \in SUBSET D /\ k \in Nat \ {0} /\ k \in 0..n /\ k - 1 \in 0..n
      BY <1>1
    <2>2. seq[k] \in Y
      BY ElementOfSeq
    <2>3. Max(1..k) = k /\ (1..k) \ {k} = 1..(k - 1) /\ 1..k # {}
      BY <2>1, LastOf
    <2>4. g[1..k] = Record(g[1..(k - 1)], seq[k])
      BY <1>5, <2>1, <2>3
    <2>5. acc[k] = g[1..k] /\ acc[k - 1] = g[1..(k - 1)]
      BY <2>1
    <2> QED
      BY <2>2, <2>4, <2>5
  <1>8. \A k \in 0..n : acc[k] \in X
    <2>0. 0 \in 0..n /\ \A k \in 1..n : k \in 0..n /\ k - 1 \in 0..n
      BY <1>1
    <2>1. /\ acc[0] \in good[0]
          /\ \A k \in 1..n : acc[k - 1] \in good[k - 1] => acc[k] \in good[k]
      <3> HIDE DEF acc
      <3> QED
        BY <1>0, <1>6, <1>7, <2>0
    <2>2. \A k \in 0..n : acc[k] \in good[k]
      <3> HIDE DEF acc, good
      <3> QED
        BY <1>1, <2>1, Climb
    <2> QED
      BY <2>2
  <1>9. Recorded(base, seq) = acc[n]
    BY <1>1, <1>4 DEF Recorded
  <1> HIDE DEF acc
  <1> QED
    BY <1>6, <1>7, <1>8, <1>9

LEMMA RecordFold ==
  ASSUME NEW X, NEW Y, NEW seq \in Seq(Y), NEW base \in X,
         \A a \in X, y \in Y : Record(a, y) \in X
  PROVE  FoldLeft(Record, base, seq) \in X
  <1>1. Len(seq) \in 0..Len(seq)
    BY LenProperties
  <1>2. PICK acc : /\ Recorded(base, seq) = acc[Len(seq)]
                   /\ \A k \in 0..Len(seq) : acc[k] \in X
    <2>1. Closed(X, Y)
      BY DEF Closed
    <2> QED
      BY <2>1, RecordSteps
  <1>3. Recorded(base, seq) \in X
    BY <1>1, <1>2
  <1> QED
    BY <1>3 DEF Recorded

(* What DropStale keeps: the notes that enter the tree, still at positions  *)
(* of their own.                                                            *)
Placed(notes) ==
  \A i, k \in DOMAIN notes : i # k => notes[i].pos # notes[k].pos

Entering(leaves) == {n \in Note : Enters(leaves, n)}

LEMMA KeepFold ==
  ASSUME NEW s, NEW f, f.notes \in Seq(Note), Placed(f.notes)
  PROVE  \E kept \in Seq(Entering(s.leaves)) :
           /\ Placed(kept)
           /\ DropStale(f, s) = IF \A m \in Range(f.notes) : Enters(s.leaves, m) THEN f
                                ELSE [f EXCEPT !.notes = kept, !.scanned_events = 0]
  <1> DEFINE seq == f.notes
             leaves == s.leaves
  <1>0. seq \in Seq(Note) /\ Placed(seq)
    OBVIOUS
  <1> HIDE DEF seq, leaves
  <1> DEFINE keep(notes, n) == IF Enters(leaves, n) THEN Append(notes, n) ELSE notes
             D == DOMAIN seq
             n == Len(seq)
             X == Seq(Entering(leaves))
             Op(g, t) == IF t = {} THEN <<>> ELSE keep(g[t \ {Max(t)}], seq[Max(t)])
             Eq(g) == g = [t \in SUBSET D |-> Op(g, t)]
             G == [p \in X \X Note |-> keep(p[1], p[2])]
  <1>1. n \in Nat /\ D = 1..n /\ <<>> \in X
    BY <1>0, LenProperties, EmptySeq
  <1>2. \E g : Eq(g)
    <2>1. \A a \in X, y \in Note : keep(a, y) \in X
      BY AppendProperties DEF Entering
    <2>2. G \in [X \X Note -> X]
      <3> HIDE DEF X, keep
      <3> QED
        BY <2>1
    <2>3. PICK g : /\ Over(g, D)
                   /\ \A t \in SUBSET D :
                        /\ g[t] = Row(g, G, <<>>, seq, t)
                        /\ g[t] \in X
                        /\ t # {} => t \ {Max(t)} \in SUBSET D /\ seq[Max(t)] \in Note
      <3> HIDE DEF G, X
      <3> QED
        BY <1>0, <1>1, <2>2, FoldTable, ZenonT(60)
    <2>4. \A t \in SUBSET D : g[t] = Op(g, t)
      <3> HIDE DEF X, keep
      <3> QED
        BY <2>3 DEF Row
    <2> QED
      BY <2>3, <2>4, ZenonT(60) DEF Over
  <1> DEFINE g == CHOOSE g : Eq(g)
  <1>3. Eq(g)
    BY <1>2
  <1>4. FoldLeft(keep, <<>>, seq) = g[D]
    BY DEF FoldLeft, MapThenFoldSet
  <1> HIDE DEF g
  <1>5. \A t \in SUBSET D : g[t] = Op(g, t)
    BY <1>3
  <1> DEFINE acc == [k \in 0..n |-> g[1..k]]
             good == [k \in 0..n |-> {q \in X : /\ Placed(q)
                                              /\ \A i \in DOMAIN q :
                                                   \E j \in 1..k : q[i] = seq[j]}]
  <1>6. acc[0] = <<>>
    <2>1. 1..0 = {} /\ {} \in SUBSET D /\ 0 \in 0..n
      BY <1>1
    <2>2. g[{}] = <<>>
      BY <1>5, <2>1
    <2> QED
      BY <2>1, <2>2
  <1>7. ASSUME NEW k \in 1..n PROVE acc[k] = keep(acc[k - 1], seq[k]) /\ seq[k] \in Note
    <2>1. 1..k \in SUBSET D /\ k \in Nat \ {0} /\ k \in 0..n /\ k - 1 \in 0..n
      BY <1>1
    <2>2. seq[k] \in Note
      BY <1>0, <1>1, ElementOfSeq
    <2>3. Max(1..k) = k /\ (1..k) \ {k} = 1..(k - 1) /\ 1..k # {}
      BY <2>1, LastOf
    <2>4. g[1..k] = keep(g[1..(k - 1)], seq[k])
      BY <1>5, <2>1, <2>3
    <2>5. acc[k] = g[1..k] /\ acc[k - 1] = g[1..(k - 1)]
      BY <2>1
    <2> HIDE DEF keep
    <2> QED
      BY <2>2, <2>4, <2>5
  <1>8. ASSUME NEW k \in 1..n, acc[k - 1] \in good[k - 1] PROVE acc[k] \in good[k]
    <2>1. k - 1 \in 0..n /\ k \in 0..n /\ k \in Nat
      BY <1>1
    <2> DEFINE q == acc[k - 1]
               y == seq[k]
    <2>2. /\ q \in X /\ Placed(q)
          /\ \A i \in DOMAIN q : \E j \in 1..(k - 1) : q[i] = seq[j]
      BY <1>8, <2>1
    <2>3. acc[k] = keep(q, y) /\ y \in Note
      BY <1>7
    <2> HIDE DEF q, acc
    <2>4. CASE ~Enters(leaves, y)
      <3>1. acc[k] = q
        BY <2>3, <2>4
      <3>2. \A j \in 1..(k - 1) : j \in 1..k
        BY <2>1
      <3> HIDE DEF X
      <3> QED
        BY <2>1, <2>2, <3>1, <3>2
    <2>5. CASE Enters(leaves, y)
      <3>1. acc[k] = Append(q, y) /\ y \in Entering(leaves)
        BY <2>3, <2>5 DEF Entering
      <3>2. Len(q) \in Nat /\ DOMAIN q = 1..Len(q)
        BY <2>2, LenProperties
      <3>3. /\ Append(q, y) \in X /\ Len(Append(q, y)) = Len(q) + 1
            /\ \A i \in 1..Len(q) : Append(q, y)[i] = q[i]
            /\ Append(q, y)[Len(q) + 1] = y
        BY <2>2, <3>1, AppendProperties
      <3>4. DOMAIN Append(q, y) = 1..(Len(q) + 1)
        BY <3>3, LenProperties
      <3>5. \A i \in 1..(Len(q) + 1) : i \in 1..Len(q) \/ i = Len(q) + 1
        BY <3>2
      <3>6. \A i \in 1..(Len(q) + 1) : \E j \in 1..k : Append(q, y)[i] = seq[j]
        <4>1. k \in 1..k /\ \A j \in 1..(k - 1) : j \in 1..k
          BY <2>1
        <4> QED
          BY <2>2, <3>2, <3>3, <3>5, <4>1
      <3>7. \A i \in 1..Len(q) : q[i].pos # y.pos
        <4> TAKE i \in 1..Len(q)
        <4>1. PICK j \in 1..(k - 1) : q[i] = seq[j]
          BY <2>2, <3>2
        <4>2. j # k /\ j \in D /\ k \in D
          BY <1>1, <2>1
        <4> QED
          BY <1>0, <4>1, <4>2 DEF Placed
      <3>8. Placed(Append(q, y))
        <4> SUFFICES ASSUME NEW i \in 1..(Len(q) + 1), NEW j \in 1..(Len(q) + 1), i # j
                     PROVE  Append(q, y)[i].pos # Append(q, y)[j].pos
          BY <3>4 DEF Placed
        <4> QED
          BY <2>2, <3>2, <3>3, <3>5, <3>7 DEF Placed
      <3> HIDE DEF X
      <3> QED
        BY <2>1, <3>1, <3>3, <3>4, <3>6, <3>8
    <2> QED
      BY <2>4, <2>5
  <1>9. \A k \in 0..n : acc[k] \in good[k]
    <2>1. acc[0] \in good[0]
      <3>1. DOMAIN <<>> = {} /\ Placed(<<>>) /\ 0 \in 0..n
        BY <1>1 DEF Placed
      <3> HIDE DEF X, acc
      <3> QED
        BY <1>1, <1>6, <3>1
    <2> HIDE DEF acc, good
    <2> QED
      BY <1>1, <1>8, <2>1, Climb
  <1>10. acc[n] \in X /\ Placed(acc[n]) /\ acc[n] = g[D]
    <2>1. n \in 0..n
      BY <1>1
    <2> QED
      BY <1>1, <1>9, <2>1
  <1> DEFINE kept == FoldLeft(keep, <<>>, seq)
  <1>11. DropStale(f, s) = IF \A m \in Range(f.notes) : Enters(s.leaves, m) THEN f
                           ELSE [f EXCEPT !.notes = kept, !.scanned_events = 0]
    BY DEF DropStale, seq, leaves
  <1>12. kept \in Seq(Entering(s.leaves)) /\ Placed(kept)
    BY <1>4, <1>10 DEF leaves
  <1> HIDE DEF kept
  <1> QED
    BY <1>11, <1>12

-----------------------------------------------------------------------------
(* Replayed states: StateInv, and the leaves of every event at its place.   *)

Maps(S) == UNION {[D -> S] : D \in SUBSET Nat}
States ==
  [replayed_height : Nat, leaves : Seq(Leaf), nullifiers : SUBSET Nullifier,
   roots : Maps(Seq(Leaf)), leaf_counts : Maps(Nat),
   block_hashes : Maps(Seq(RP!Block)), events : Seq(RP!Event),
   rejections : Seq(RP!Rejection)]

MintsOf == {t \in Tx : t.env.kind = "mint"}
TransfersOf == {t \in Tx : t.env.kind = "transfer"}

LeafAt(s, pos, leaf) == pos + 1 \in DOMAIN s.leaves /\ s.leaves[pos + 1] = leaf
StandsAt(s, e) ==
  /\ e.txid \in MintsOf \cup TransfersOf
  /\ e.txid \in MintsOf => LeafAt(s, e.pos, MintLeaf(e.txid.env))
  /\ e.txid \in TransfersOf =>
       \A j \in Slots : LeafAt(s, e.pos + j, OutputLeaf(e.txid.env, j))
EventLeaves(s) == \A i \in DOMAIN s.events : StandsAt(s, s.events[i])

Good == {s \in States : RP!StateInv(s) /\ EventLeaves(s)}

LEMMA SameNames ==
  /\ \A t \in Tx : [u \in Tx |-> u.env][t] = t.env
  /\ RP!Mints = MintsOf /\ RP!Transfers = TransfersOf
  /\ \A m : RP!MintLeaf(m) = MintLeaf(m)
  /\ \A t, j : RP!OutputLeaf(t, j) = OutputLeaf(t, j)
  /\ \A t : RP!Nfs(t) = Nfs(t)
  <1>1. \A t \in Tx : [u \in Tx |-> u.env][t] = t.env
    OBVIOUS
  <1>2. RP!Mints = MintsOf /\ RP!Transfers = TransfersOf
    BY DEF RP!Mints, MintsOf, RP!Transfers, TransfersOf
  <1>3. \A m : RP!MintLeaf(m) = MintLeaf(m)
    BY DEF RP!MintLeaf, MintLeaf
  <1>4. \A t, j : RP!OutputLeaf(t, j) = OutputLeaf(t, j)
    BY DEF RP!OutputLeaf, OutputLeaf
  <1>5. \A t : RP!Nfs(t) = Nfs(t)
    BY DEF RP!Nfs, Nfs, RP!Nf, Nf, RP!Slots, Slots
  <1> QED
    BY <1>1, <1>2, <1>3, <1>4, <1>5

LEMMA InMaps ==
  ASSUME NEW S, NEW f, RP!HeightMap(f, S), f = [h \in DOMAIN f |-> f[h]]
  PROVE  f \in Maps(S)
  <1>1. DOMAIN f \in SUBSET Nat /\ f \in [DOMAIN f -> S]
    BY DEF RP!HeightMap
  <1> QED
    BY <1>1 DEF Maps

LEMMA StandsStay ==
  ASSUME NEW s, NEW r, NEW e, StandsAt(s, e),
         \A i \in DOMAIN s.leaves : i \in DOMAIN r.leaves /\ r.leaves[i] = s.leaves[i]
  PROVE  StandsAt(r, e)
  BY DEF StandsAt, LeafAt

(* What an accepted carrier adds stands where its event says.               *)
LEMMA ExtendedStands ==
  ASSUME NEW s \in Good, NEW r, NEW t \in MintsOf \cup TransfersOf,
         NEW new \in Seq(Leaf), NEW nfs, RP!Extended(s, r, t, new, nfs),
         t \in MintsOf => new = <<MintLeaf(t.env)>>,
         t \in TransfersOf => new = <<OutputLeaf(t.env, 0), OutputLeaf(t.env, 1)>>
  PROVE  EventLeaves(r)
  <1>1. RP!StateOK(s) /\ EventLeaves(s) /\ t \in Tx
    BY DEF Good, RP!StateInv, MintsOf, TransfersOf
  <1>2. /\ Len(s.leaves) \in Nat /\ Len(new) \in Nat
        /\ r.leaves \in Seq(Leaf) /\ r.leaves = s.leaves \o new
        /\ Len(r.leaves) = Len(s.leaves) + Len(new)
        /\ \A i \in 1..Len(s.leaves) : r.leaves[i] = s.leaves[i]
    <2>1. new \in Seq(RP!Leaf)
      BY Instance
    <2>2. r.leaves = s.leaves \o new
      BY DEF RP!Extended
    <2>3. /\ Len(s.leaves) \in Nat /\ Len(new) \in Nat
          /\ r.leaves \in Seq(RP!Leaf)
          /\ Len(r.leaves) = Len(s.leaves) + Len(new)
          /\ \A i \in 1..Len(s.leaves) : r.leaves[i] = s.leaves[i]
      BY <1>1, <2>1, Instance, RP!ExtendedLeaves DEF RP!ReplayConstants
    <2> QED
      BY <2>2, <2>3, Instance
  <1>3. DOMAIN s.leaves = 1..Len(s.leaves) /\ DOMAIN r.leaves = 1..(Len(s.leaves) + Len(new))
    <2>1. s.leaves \in Seq(Leaf)
      BY <1>1, Instance DEF RP!StateOK
    <2> QED
      BY <1>2, <2>1, LenProperties
  <1>4. \A i \in DOMAIN s.leaves : i \in DOMAIN r.leaves /\ r.leaves[i] = s.leaves[i]
    BY <1>2, <1>3
  <1>5. \A i \in 1..Len(new) : r.leaves[Len(s.leaves) + i] = new[i]
    <2>1. s.leaves \in Seq(Leaf)
      BY <1>1, Instance DEF RP!StateOK
    <2> QED
      BY <1>2, <2>1, ConcatProperties
  <1>6. StandsAt(r, RP!EventAt(s, t))
    <2> DEFINE e == RP!EventAt(s, t)
    <2>1. e.txid = t /\ e.pos = Len(s.leaves)
      BY DEF RP!EventAt
    <2>2. CASE t \in MintsOf
      <3>1. new = <<MintLeaf(t.env)>> /\ Len(new) = 1 /\ new[1] = MintLeaf(t.env)
        BY <2>2
      <3>2. LeafAt(r, e.pos, MintLeaf(t.env))
        BY <1>2, <1>3, <1>5, <2>1, <3>1 DEF LeafAt
      <3>3. t \notin TransfersOf
        BY <2>2 DEF MintsOf, TransfersOf
      <3> QED
        BY <2>1, <3>2, <3>3 DEF StandsAt
    <2>3. CASE t \in TransfersOf
      <3>1. /\ new = <<OutputLeaf(t.env, 0), OutputLeaf(t.env, 1)>> /\ Len(new) = 2
            /\ new[1] = OutputLeaf(t.env, 0) /\ new[2] = OutputLeaf(t.env, 1)
        BY <2>3
      <3>2. /\ LeafAt(r, e.pos + 0, OutputLeaf(t.env, 0))
            /\ LeafAt(r, e.pos + 1, OutputLeaf(t.env, 1))
        <4>1. /\ Len(s.leaves) + 1 \in DOMAIN r.leaves /\ Len(s.leaves) + 2 \in DOMAIN r.leaves
              /\ r.leaves[Len(s.leaves) + 1] = new[1]
              /\ r.leaves[Len(s.leaves) + 2] = new[2]
          BY <1>2, <1>3, <1>5, <3>1
        <4>2. e.pos + 0 + 1 = Len(s.leaves) + 1 /\ e.pos + 1 + 1 = Len(s.leaves) + 2
          BY <1>2, <2>1
        <4> HIDE DEF e
        <4> QED
          BY <3>1, <4>1, <4>2 DEF LeafAt
      <3>3. t \notin MintsOf
        BY <2>3 DEF MintsOf, TransfersOf
      <3>4. \A j \in Slots : LeafAt(r, e.pos + j, OutputLeaf(t.env, j))
        <4>1. \A j \in Slots : j = 0 \/ j = 1
          BY DEF Slots
        <4> HIDE DEF e
        <4> QED
          BY <3>2, <4>1
      <3> QED
        BY <2>1, <3>3, <3>4 DEF StandsAt
    <2> QED
      BY <2>2, <2>3
  <1>7. \A i \in DOMAIN r.events :
          \/ i \in DOMAIN s.events /\ r.events[i] = s.events[i]
          \/ r.events[i] = RP!EventAt(s, t)
    <2>1. /\ \A i \in DOMAIN s.events :
               i \in DOMAIN r.events /\ r.events[i] = s.events[i]
          /\ \A i \in DOMAIN r.events :
               i \notin DOMAIN s.events => r.events[i] = RP!EventAt(s, t)
      BY <1>1, Instance, RP!ExtendedEvents DEF RP!ReplayConstants
    <2> QED
      BY <2>1
  <1> QED
    BY <1>1, <1>4, <1>6, <1>7, StandsStay DEF EventLeaves

LEMMA GoodTx ==
  ASSUME NEW s \in Good, NEW t \in Tx, NEW h, h = s.replayed_height + 1
  PROVE  /\ R!ReplayTx(s, h, t) \in Good
         /\ R!ReplayTx(s, h, t).replayed_height = s.replayed_height
  <1> DEFINE r == RP!ReplayTx(s, h, t)
             c == [u \in Tx |-> u.env]
  <1>0. r = R!ReplayTx(s, h, t)
    BY SameReplayTx
  <1>1. /\ s \in States /\ RP!StateInv(s) /\ EventLeaves(s) /\ RP!StateOK(s)
        /\ h = RP!NextBlock(s)
    BY DEF Good, RP!StateInv, RP!NextBlock
  <1>2. RP!StateInv(r) /\ RP!StateOK(r)
    <2>1. RP!StateInv(r)
      BY <1>1, Instance, RP!ReplayTxInv DEF RP!ReplayConstants
    <2> QED
      BY <2>1 DEF RP!StateInv
  <1>3. CASE r = s
    BY <1>0, <1>3
  <1>4. CASE t \in RP!Mints /\ r = RP!AcceptMint(s, h, t)
    <2>1. t \in MintsOf /\ c[t] = t.env
      BY <1>4, SameNames
    <2>2. RP!Extended(s, r, t, <<MintLeaf(t.env)>>, {})
      <3>1. RP!Extended(s, r, t, <<RP!MintLeaf(c[t])>>, {})
        BY <1>1, <1>4, Instance, RP!AcceptMintExtends DEF RP!ReplayConstants
      <3> QED
        BY <2>1, <3>1, SameNames
    <2>3. <<MintLeaf(t.env)>> \in Seq(Leaf)
      <3>1. t.env \in MintEnvelope
        BY <2>1 DEF MintsOf, Tx, Envelope, NoEnvelope, MintEnvelope, TransferEnvelope
      <3> QED
        BY <3>1 DEF MintLeaf, MintEnvelope, Leaf, Slots
    <2>4. EventLeaves(r)
      <3>1. t \notin TransfersOf
        BY <2>1 DEF MintsOf, TransfersOf
      <3> HIDE DEF r
      <3> QED
        BY <2>1, <2>2, <2>3, <3>1, ExtendedStands
    <2>5. r \in States /\ r.replayed_height = s.replayed_height
      <3> DEFINE l == Append(s.leaves, RP!MintLeaf(c[t]))
                 e == Append(s.events, [txid |-> t, height |-> h, pos |-> Len(s.leaves)])
      <3>1. r = [s EXCEPT !.leaves = l, !.events = e]
        BY <1>4 DEF RP!AcceptMint
      <3>2. r.leaves \in Seq(Leaf) /\ r.events \in Seq(RP!Event)
        BY <1>2, Instance DEF RP!StateOK
      <3> HIDE DEF l, e, r
      <3>3. r.leaves = l /\ r.events = e /\ r.replayed_height = s.replayed_height
        BY <1>1, <3>1 DEF States
      <3> QED
        BY <1>1, <3>1, <3>2, <3>3 DEF States
    <2> QED
      BY <1>0, <1>2, <2>4, <2>5 DEF Good
  <1>5. CASE t \in RP!Transfers /\ r = RP!AcceptTransfer(s, h, t)
    <2>1. t \in TransfersOf /\ c[t] = t.env
      BY <1>5, SameNames
    <2>2. RP!Extended(s, r, t, <<OutputLeaf(t.env, 0), OutputLeaf(t.env, 1)>>, Nfs(t.env))
      <3>1. RP!Extended(s, r, t, <<RP!OutputLeaf(c[t], 0), RP!OutputLeaf(c[t], 1)>>, RP!Nfs(c[t]))
        BY <1>1, <1>5, Instance, RP!AcceptTransferExtends DEF RP!ReplayConstants
      <3> QED
        BY <2>1, <3>1, SameNames
    <2>3. <<OutputLeaf(t.env, 0), OutputLeaf(t.env, 1)>> \in Seq(Leaf)
      <3>1. t.env \in TransferEnvelope
        BY <2>1 DEF TransfersOf, Tx, Envelope, NoEnvelope, MintEnvelope, TransferEnvelope
      <3> QED
        BY <3>1 DEF OutputLeaf, TransferEnvelope, Leaf, Slots
    <2>4. EventLeaves(r)
      <3>1. t \notin MintsOf
        BY <2>1 DEF MintsOf, TransfersOf
      <3> HIDE DEF r
      <3> QED
        BY <2>1, <2>2, <2>3, <3>1, ExtendedStands
    <2>5. r \in States /\ r.replayed_height = s.replayed_height
      <3> DEFINE l == s.leaves \o <<RP!OutputLeaf(c[t], 0), RP!OutputLeaf(c[t], 1)>>
                 n == s.nullifiers \cup RP!Nfs(c[t])
                 e == Append(s.events, [txid |-> t, height |-> h, pos |-> Len(s.leaves)])
      <3>1. r = [s EXCEPT !.leaves = l, !.nullifiers = n, !.events = e]
        BY <1>5 DEF RP!AcceptTransfer
      <3>2. /\ r.leaves \in Seq(Leaf) /\ r.events \in Seq(RP!Event)
            /\ r.nullifiers \in SUBSET Nullifier
        BY <1>2, Instance DEF RP!StateOK
      <3> HIDE DEF l, n, e, r
      <3>3. /\ r.leaves = l /\ r.events = e /\ r.nullifiers = n
            /\ r.replayed_height = s.replayed_height
        BY <1>1, <3>1 DEF States
      <3> QED
        BY <1>1, <3>1, <3>2, <3>3 DEF States
    <2> QED
      BY <1>0, <1>2, <2>4, <2>5 DEF Good
  <1>6. ASSUME NEW v \in RP!Reasons, r = RP!Reject(s, h, t, v)
        PROVE  r \in Good /\ r.replayed_height = s.replayed_height
    <2> DEFINE j == Append(s.rejections, [txid |-> t, height |-> h, reason |-> v])
    <2>1. r = [s EXCEPT !.rejections = j]
      BY <1>6 DEF RP!Reject
    <2>2. r.rejections \in Seq(RP!Rejection)
      BY <1>2 DEF RP!StateOK
    <2> HIDE DEF j, r
    <2>3. /\ r.rejections = j /\ r.replayed_height = s.replayed_height
          /\ r.leaves = s.leaves /\ r.events = s.events
      BY <1>1, <2>1 DEF States
    <2>4. r \in States
      BY <1>1, <2>1, <2>2, <2>3 DEF States
    <2>5. EventLeaves(r)
      BY <1>1, <2>3 DEF EventLeaves, StandsAt, LeafAt
    <2> QED
      BY <1>2, <2>3, <2>4, <2>5 DEF Good
  <1> HIDE DEF r
  <1>7. \/ r = s
        \/ t \in RP!Mints /\ r = RP!AcceptMint(s, h, t)
        \/ t \in RP!Transfers /\ r = RP!AcceptTransfer(s, h, t)
        \/ \E v \in RP!Reasons : r = RP!Reject(s, h, t, v)
    BY Instance, RP!ReplayTxCases DEF RP!ReplayConstants, r
  <1> QED
    BY <1>0, <1>3, <1>4, <1>5, <1>6, <1>7

(* What ends a block.                                                       *)
LEMMA GoodEnd ==
  ASSUME NEW s \in Good, NEW h, h = s.replayed_height + 1
  PROVE  R!EndBlock(s, h, <<>>) \in Good
  <1> DEFINE r == RP!EndBlock(s, h, <<>>)
  <1>0. r = R!EndBlock(s, h, <<>>)
    BY SameEndBlock
  <1>1. /\ s \in States /\ RP!StateInv(s) /\ EventLeaves(s) /\ RP!StateOK(s)
        /\ h = RP!NextBlock(s) /\ <<>> \in Seq(RP!Block)
    BY EmptySeq DEF Good, RP!StateInv, RP!NextBlock
  <1>2. RP!StateInv(r) /\ RP!StateOK(r)
    <2>1. RP!StateInv(r)
      BY <1>1, Instance, RP!EndBlockInv DEF RP!ReplayConstants
    <2> QED
      BY <2>1 DEF RP!StateInv
  <1> DEFINE o == RP!Keep(RP!Put(s.roots, h, s.leaves), RP!Recent(h) \cup {RP!Initial})
             c == RP!Keep(RP!Put(s.leaf_counts, h, Len(s.leaves)), RP!Recent(h) \cup {RP!Initial})
             b == RP!Keep(RP!Put(s.block_hashes, h, <<>>), RP!Recent(h))
             j == RP!LastRejections(s.rejections)
  <1>3. r = [s EXCEPT !.replayed_height = h, !.roots = o, !.leaf_counts = c,
                      !.block_hashes = b, !.rejections = j]
    BY DEF RP!EndBlock
  <1>4. /\ o = [k \in DOMAIN o |-> o[k]] /\ c = [k \in DOMAIN c |-> c[k]]
        /\ b = [k \in DOMAIN b |-> b[k]]
    BY DEF RP!Keep
  <1> HIDE DEF r, o, c, b, j
  <1>5. /\ r.replayed_height = h /\ r.roots = o /\ r.leaf_counts = c
        /\ r.block_hashes = b /\ r.rejections = j
        /\ r.leaves = s.leaves /\ r.events = s.events
    BY <1>1, <1>3 DEF States
  <1>6. r \in States
    <2>1. /\ h \in Nat /\ j \in Seq(RP!Rejection)
          /\ RP!HeightMap(o, Seq(Leaf)) /\ RP!HeightMap(c, Nat)
          /\ RP!HeightMap(b, Seq(RP!Block))
      BY <1>2, <1>5, Instance DEF RP!StateOK
    <2>2. o \in Maps(Seq(Leaf)) /\ c \in Maps(Nat) /\ b \in Maps(Seq(RP!Block))
      BY <1>4, <2>1, InMaps
    <2> QED
      BY <1>1, <1>3, <2>1, <2>2 DEF States
  <1>7. EventLeaves(r)
    BY <1>1, <1>5 DEF EventLeaves, StandsAt, LeafAt
  <1> QED
    BY <1>0, <1>2, <1>6, <1>7 DEF Good

LEMMA GoodFresh == R!Fresh \in Good
  <1> DEFINE s == RP!Fresh
  <1>1. RP!StateInv(s) /\ s = R!Fresh
    BY Instance, RP!FreshInv, SameFresh DEF RP!ReplayConstants
  <1>2. s \in States
    <2>1. RP!Initial \in Nat
      BY Instance, WalletConstants
    <2>2. /\ [h \in {RP!Initial} |-> <<>>] \in Maps(Seq(Leaf))
          /\ [h \in {RP!Initial} |-> 0] \in Maps(Nat)
          /\ [h \in {} |-> <<>>] \in Maps(Seq(RP!Block))
      <3>1. {RP!Initial} \in SUBSET Nat /\ {} \in SUBSET Nat
        BY <2>1
      <3>2. /\ [h \in {RP!Initial} |-> <<>>] \in [{RP!Initial} -> Seq(Leaf)]
            /\ [h \in {RP!Initial} |-> 0] \in [{RP!Initial} -> Nat]
            /\ [h \in {} |-> <<>>] \in [{} -> Seq(RP!Block)]
        BY EmptySeq
      <3> QED
        BY <3>1, <3>2 DEF Maps
    <2>3. <<>> \in Seq(Leaf) /\ <<>> \in Seq(RP!Event) /\ <<>> \in Seq(RP!Rejection)
      BY EmptySeq
    <2> QED
      BY <2>1, <2>2, <2>3 DEF RP!Fresh, States
  <1>3. EventLeaves(s)
    BY DEF EventLeaves, RP!Fresh
  <1> QED
    BY <1>1, <1>2, <1>3 DEF Good

(* The transactions of a block, one after the other.                        *)
LEMMA TxSteps ==
  ASSUME NEW base \in Good, NEW seq \in Seq(Tx), NEW h, h = base.replayed_height + 1
  PROVE  \E acc :
           /\ acc[0] = base /\ ReplayBlock(base, seq) = R!EndBlock(acc[Len(seq)], h, <<>>)
           /\ \A k \in 1..Len(seq) :
                acc[k] = R!ReplayTx(acc[k - 1], h, seq[k]) /\ seq[k] \in Tx
           /\ \A k \in 0..Len(seq) : acc[k] \in Good /\ h = acc[k].replayed_height + 1
  <1> DEFINE replay(acc, t) == R!ReplayTx(acc, h, t)
             X == {r \in Good : h = r.replayed_height + 1}
             D == DOMAIN seq
             n == Len(seq)
             Op(g, t) == IF t = {} THEN base ELSE replay(g[t \ {Max(t)}], seq[Max(t)])
             Eq(g) == g = [t \in SUBSET D |-> Op(g, t)]
             G == [p \in X \X Tx |-> replay(p[1], p[2])]
  <1>0. base \in X
    OBVIOUS
  <1>1. n \in Nat /\ D = 1..n
    BY LenProperties
  <1>2. \A a \in X, t \in Tx : replay(a, t) \in X
    BY GoodTx
  <1>3. \E g : Eq(g)
    <2>1. G \in [X \X Tx -> X]
      <3> HIDE DEF X, replay
      <3> QED
        BY <1>2
    <2>2. PICK g : /\ Over(g, D)
                   /\ \A t \in SUBSET D :
                        /\ g[t] = Row(g, G, base, seq, t)
                        /\ g[t] \in X
                        /\ t # {} => t \ {Max(t)} \in SUBSET D /\ seq[Max(t)] \in Tx
      <3> HIDE DEF G, X, replay
      <3> QED
        BY <1>0, <2>1, FoldTable, ZenonT(60)
    <2>3. \A t \in SUBSET D : g[t] = Op(g, t)
      BY <2>2 DEF Row
    <2> QED
      BY <2>2, <2>3 DEF Over
  <1> DEFINE g == CHOOSE g : Eq(g)
  <1>4. Eq(g)
    BY <1>3
  <1>5. ReplayBlock(base, seq) = R!EndBlock(g[D], h, <<>>)
    BY DEF ReplayBlock, FoldLeft, MapThenFoldSet
  <1> HIDE DEF g
  <1>6. \A t \in SUBSET D : g[t] = Op(g, t)
    BY <1>4
  <1> DEFINE acc == [k \in 0..n |-> g[1..k]]
             good == [k \in 0..n |-> X]
  <1>7. acc[0] = base
    <2>1. 1..0 = {} /\ {} \in SUBSET D /\ 0 \in 0..n
      BY <1>1
    <2>2. g[{}] = base
      BY <1>6, <2>1
    <2> QED
      BY <2>1, <2>2
  <1>8. ASSUME NEW k \in 1..n PROVE acc[k] = replay(acc[k - 1], seq[k]) /\ seq[k] \in Tx
    <2>1. 1..k \in SUBSET D /\ k \in Nat \ {0} /\ k \in 0..n /\ k - 1 \in 0..n
      BY <1>1
    <2>2. seq[k] \in Tx
      BY ElementOfSeq
    <2>3. Max(1..k) = k /\ (1..k) \ {k} = 1..(k - 1) /\ 1..k # {}
      BY <2>1, LastOf
    <2>4. g[1..k] = replay(g[1..(k - 1)], seq[k])
      BY <1>6, <2>1, <2>3
    <2>5. acc[k] = g[1..k] /\ acc[k - 1] = g[1..(k - 1)]
      BY <2>1
    <2> QED
      BY <2>2, <2>4, <2>5
  <1>9. \A k \in 0..n : acc[k] \in X
    <2>0. 0 \in 0..n /\ \A k \in 1..n : k \in 0..n /\ k - 1 \in 0..n
      BY <1>1
    <2>1. /\ acc[0] \in good[0]
          /\ \A k \in 1..n : acc[k - 1] \in good[k - 1] => acc[k] \in good[k]
      <3> HIDE DEF acc, X, replay
      <3> QED
        BY <1>0, <1>2, <1>7, <1>8, <2>0
    <2>2. \A k \in 0..n : acc[k] \in good[k]
      <3> HIDE DEF acc, good
      <3> QED
        BY <1>1, <2>1, Climb
    <2> QED
      BY <2>2
  <1>10. acc[n] = g[D]
    BY <1>1
  <1> HIDE DEF acc
  <1> QED
    BY <1>5, <1>7, <1>8, <1>9, <1>10

LEMMA GoodBlock ==
  ASSUME NEW s \in Good, NEW txs \in Seq(Tx)
  PROVE  ReplayBlock(s, txs) \in Good
  <1> DEFINE h == s.replayed_height + 1
  <1>1. PICK acc :
          /\ ReplayBlock(s, txs) = R!EndBlock(acc[Len(txs)], h, <<>>)
          /\ \A k \in 0..Len(txs) : acc[k] \in Good /\ h = acc[k].replayed_height + 1
    BY TxSteps
  <1>2. Len(txs) \in 0..Len(txs)
    BY LenProperties
  <1> QED
    BY <1>1, <1>2, GoodEnd

(* And block after block: every replayed state is a good one.               *)
LEMMA ReplayedSteps ==
  ASSUME NEW seq \in Seq(Seq(Tx))
  PROVE  \E acc :
           /\ acc[0] = R!Fresh /\ Replayed(seq) = acc[Len(seq)]
           /\ \A k \in 1..Len(seq) :
                acc[k] = ReplayBlock(acc[k - 1], seq[k]) /\ seq[k] \in Seq(Tx)
           /\ \A k \in 0..Len(seq) : acc[k] \in Good
  <1> DEFINE D == DOMAIN seq
             n == Len(seq)
             Op(g, t) == IF t = {} THEN R!Fresh ELSE ReplayBlock(g[t \ {Max(t)}], seq[Max(t)])
             Eq(g) == g = [t \in SUBSET D |-> Op(g, t)]
             G == [p \in Good \X Seq(Tx) |-> ReplayBlock(p[1], p[2])]
  <1>0. R!Fresh \in Good
    BY GoodFresh
  <1>1. n \in Nat /\ D = 1..n
    BY LenProperties
  <1>2. \A a \in Good, t \in Seq(Tx) : ReplayBlock(a, t) \in Good
    BY GoodBlock
  <1>3. \E g : Eq(g)
    <2>1. G \in [Good \X Seq(Tx) -> Good]
      BY <1>2
    <2>2. PICK g : /\ Over(g, D)
                   /\ \A t \in SUBSET D :
                        /\ g[t] = Row(g, G, R!Fresh, seq, t)
                        /\ g[t] \in Good
                        /\ t # {} => t \ {Max(t)} \in SUBSET D /\ seq[Max(t)] \in Seq(Tx)
      <3> HIDE DEF G
      <3> QED
        BY <1>0, <2>1, FoldTable
    <2>3. \A t \in SUBSET D : g[t] = Op(g, t)
      BY <2>2 DEF Row
    <2> QED
      BY <2>2, <2>3 DEF Over
  <1> DEFINE g == CHOOSE g : Eq(g)
  <1>4. Eq(g)
    BY <1>3
  <1>5. FoldLeft(ReplayBlock, R!Fresh, seq) = g[D]
    BY DEF FoldLeft, MapThenFoldSet
  <1> HIDE DEF g
  <1>6. \A t \in SUBSET D : g[t] = Op(g, t)
    BY <1>4
  <1> DEFINE acc == [k \in 0..n |-> g[1..k]]
             good == [k \in 0..n |-> Good]
  <1>7. acc[0] = R!Fresh
    <2>1. 1..0 = {} /\ {} \in SUBSET D /\ 0 \in 0..n
      BY <1>1
    <2>2. g[{}] = R!Fresh
      BY <1>6, <2>1
    <2> QED
      BY <2>1, <2>2
  <1>8. ASSUME NEW k \in 1..n PROVE acc[k] = ReplayBlock(acc[k - 1], seq[k]) /\ seq[k] \in Seq(Tx)
    <2>1. 1..k \in SUBSET D /\ k \in Nat \ {0} /\ k \in 0..n /\ k - 1 \in 0..n
      BY <1>1
    <2>2. seq[k] \in Seq(Tx)
      BY ElementOfSeq
    <2>3. Max(1..k) = k /\ (1..k) \ {k} = 1..(k - 1) /\ 1..k # {}
      BY <2>1, LastOf
    <2>4. g[1..k] = ReplayBlock(g[1..(k - 1)], seq[k])
      BY <1>6, <2>1, <2>3
    <2>5. acc[k] = g[1..k] /\ acc[k - 1] = g[1..(k - 1)]
      BY <2>1
    <2> QED
      BY <2>2, <2>4, <2>5
  <1>9. \A k \in 0..n : acc[k] \in Good
    <2>0. 0 \in 0..n /\ \A k \in 1..n : k \in 0..n /\ k - 1 \in 0..n
      BY <1>1
    <2>1. /\ acc[0] \in good[0]
          /\ \A k \in 1..n : acc[k - 1] \in good[k - 1] => acc[k] \in good[k]
      <3> HIDE DEF acc
      <3> QED
        BY <1>0, <1>2, <1>7, <1>8, <2>0
    <2>2. \A k \in 0..n : acc[k] \in good[k]
      <3> HIDE DEF acc, good
      <3> QED
        BY <1>1, <2>1, Climb
    <2> QED
      BY <2>2
  <1>10. acc[n] = g[D]
    BY <1>1
  <1> HIDE DEF acc
  <1> QED
    BY <1>5, <1>7, <1>8, <1>9, <1>10 DEF Replayed

LEMMA ReplayedGood ==
  ASSUME NEW seq \in Seq(Seq(Tx))
  PROVE  Replayed(seq) \in Good
  <1>1. Len(seq) \in 0..Len(seq)
    BY LenProperties
  <1> QED
    BY <1>1, ReplayedSteps

-----------------------------------------------------------------------------
(* What a scan reads out of the events.                                     *)

LEMMA FlattenSteps ==
  ASSUME NEW Y, NEW seq \in Seq(Seq(Y)), Len(seq) # 0
  PROVE  \E acc :
           /\ acc[1] = seq[1] /\ FlattenSeq(seq) = acc[Len(seq)]
           /\ \A k \in 2..Len(seq) : acc[k] = acc[k - 1] \o seq[k]
           /\ \A k \in 1..Len(seq) : acc[k] \in Seq(Y)
  <1> DEFINE n == Len(seq)
             Eq(f) == f = [i \in 1..n |-> IF i = 1 THEN seq[i] ELSE f[i - 1] \o seq[i]]
             X == Seq(Y)
             G == [p \in X \X X |-> p[1] \o p[2]]
  <1>1. /\ n \in Nat /\ DOMAIN seq = 1..n
        /\ seq \in Seq(X) /\ \A i \in 1..n : seq[i] \in X
    BY LenProperties, ElementOfSeq
  <1>2. G \in [X \X X -> X]
    BY ConcatProperties
  <1>3. <<>> \in X
    BY EmptySeq
  <1>4. PICK g : /\ Over(g, 1..n)
                 /\ \A t \in SUBSET (1..n) :
                      /\ g[t] = Row(g, G, <<>>, seq, t)
                      /\ g[t] \in X
                      /\ t # {} => t \ {Max(t)} \in SUBSET (1..n) /\ seq[Max(t)] \in X
    <2> HIDE DEF G, X
    <2>1. \E g : /\ Over(g, DOMAIN seq)
                 /\ \A t \in SUBSET (DOMAIN seq) :
                      /\ g[t] = Row(g, G, <<>>, seq, t)
                      /\ g[t] \in X
                      /\ t # {} => /\ t \ {Max(t)} \in SUBSET (DOMAIN seq)
                                   /\ seq[Max(t)] \in X
      BY <1>1, <1>2, <1>3, FoldTable
    <2> QED
      BY <1>1, <2>1
  <1> DEFINE f == [i \in 1..n |-> g[1..i]]
  <1>5. ASSUME NEW i \in 1..n
        PROVE  /\ g[1..i] \in X
               /\ g[1..i] = IF i = 1 THEN seq[i] ELSE g[1..(i - 1)] \o seq[i]
    <2>1. 1..i \in SUBSET (1..n) /\ 1..(i - 1) \in SUBSET (1..n) /\ i \in Nat \ {0}
      BY <1>1
    <2>2. Max(1..i) = i /\ (1..i) \ {i} = 1..(i - 1) /\ 1..i # {}
      BY <2>1, LastOf
    <2>3. g[1..i] \in X /\ g[1..(i - 1)] \in X /\ seq[i] \in X
      BY <1>1, <1>4, <2>1
    <2>4. g[1..i] = G[<<g[1..(i - 1)], seq[i]>>]
      <3> HIDE DEF G, X
      <3> QED
        BY <1>4, <2>1, <2>2 DEF Row
    <2>5. g[1..i] = g[1..(i - 1)] \o seq[i]
      BY <2>3, <2>4
    <2>6. CASE i = 1
      <3>1. 1..(i - 1) = {}
        BY <2>6
      <3>2. g[{}] = <<>>
        BY <1>4, <2>1, <3>1 DEF Row
      <3>3. <<>> \o seq[i] = seq[i]
        BY <2>3, ConcatEmptySeq
      <3> QED
        BY <2>3, <2>5, <2>6, <3>1, <3>2, <3>3
    <2> QED
      BY <2>3, <2>5, <2>6
  <1>6. Eq(f)
    <2>1. \A i \in 1..n : f[i] = g[1..i]
      OBVIOUS
    <2>2. \A i \in 1..n : i # 1 => i - 1 \in 1..n
      BY <1>1
    <2>3. \A i \in 1..n : f[i] = IF i = 1 THEN seq[i] ELSE f[i - 1] \o seq[i]
      <3> HIDE DEF f
      <3> QED
        BY <1>5, <2>1, <2>2
    <2>4. f = [i \in 1..n |-> f[i]]
      OBVIOUS
    <2> HIDE DEF f
    <2> QED
      BY <2>3, <2>4
  <1> DEFINE h == CHOOSE h : Eq(h)
  <1>7. Eq(h)
    <2> HIDE DEF f
    <2> QED
      BY <1>6
  <1>8. FlattenSeq(seq) = h[n]
    BY DEF FlattenSeq
  <1> HIDE DEF h
  <1>9. \A i \in 1..n : h[i] = IF i = 1 THEN seq[i] ELSE h[i - 1] \o seq[i]
    BY <1>7
  <1> DEFINE acc == [k \in 0..(n - 1) |-> h[k + 1]]
             good == [k \in 0..(n - 1) |-> X]
  <1>10. \A k \in 0..(n - 1) : acc[k] \in good[k]
    <2>1. n - 1 \in Nat
      BY <1>1
    <2>2. acc[0] \in good[0]
      <3>1. 0 \in 0..(n - 1) /\ 1 \in 1..n
        BY <2>1
      <3>2. h[1] = seq[1] /\ seq[1] \in X
        BY <1>1, <1>9, <3>1
      <3> QED
        BY <3>1, <3>2
    <2>3. ASSUME NEW k \in 1..(n - 1), acc[k - 1] \in good[k - 1] PROVE acc[k] \in good[k]
      <3>1. k - 1 \in 0..(n - 1) /\ k \in 0..(n - 1) /\ k + 1 \in 1..n /\ k + 1 # 1
            /\ (k + 1) - 1 = k /\ (k - 1) + 1 = k
        BY <1>1, <2>1
      <3>2. h[k] \in X
        BY <2>3, <3>1
      <3>3. h[k + 1] = h[k] \o seq[k + 1] /\ seq[k + 1] \in X
        BY <1>1, <1>9, <3>1
      <3>4. h[k + 1] \in X
        BY <3>2, <3>3, ConcatProperties
      <3> QED
        BY <3>1, <3>4
    <2> HIDE DEF acc, good
    <2> QED
      BY <2>1, <2>2, <2>3, Climb
  <1>11. \A k \in 1..n : h[k] \in X
    <2> TAKE k \in 1..n
    <2>1. k - 1 \in 0..(n - 1) /\ (k - 1) + 1 = k
      BY <1>1
    <2> QED
      BY <1>10, <2>1
  <1>12. \A k \in 2..n : h[k] = h[k - 1] \o seq[k]
    <2> TAKE k \in 2..n
    <2>1. k \in 1..n /\ k # 1
      BY <1>1
    <2> QED
      BY <1>9, <2>1
  <1>13. h[1] = seq[1]
    <2>1. 1 \in 1..n
      BY <1>1
    <2> QED
      BY <1>9, <2>1
  <1> QED
    BY <1>8, <1>11, <1>12, <1>13

LEMMA RangeConcat ==
  ASSUME NEW Y, NEW a \in Seq(Y), NEW b \in Seq(Y)
  PROVE  Range(a \o b) = Range(a) \cup Range(b)
  <1> DEFINE c == a \o b
             m == Len(a)
             n == Len(b)
  <1>1. /\ c \in Seq(Y) /\ Len(c) = m + n /\ m \in Nat /\ n \in Nat
        /\ DOMAIN a = 1..m /\ DOMAIN b = 1..n
        /\ \A i \in 1..m : c[i] = a[i]
        /\ \A i \in 1..n : c[m + i] = b[i]
    BY ConcatProperties, LenProperties
  <1>2. DOMAIN c = 1..(m + n)
    BY <1>1, LenProperties
  <1> HIDE DEF c, m, n
  <1>3. \A i \in DOMAIN c : c[i] \in Range(a) \cup Range(b)
    <2> TAKE i \in DOMAIN c
    <2>1. CASE i \in 1..m
      BY <1>1, <2>1 DEF Range
    <2>2. CASE i \notin 1..m
      <3>1. i - m \in 1..n /\ i = m + (i - m)
        BY <1>1, <1>2, <2>2
      <3> QED
        BY <1>1, <3>1 DEF Range
    <2> QED
      BY <2>1, <2>2
  <1>4. \A i \in DOMAIN a : a[i] \in Range(c)
    <2>1. \A i \in 1..m : i \in 1..(m + n)
      BY <1>1
    <2> QED
      BY <1>1, <1>2, <2>1 DEF Range
  <1>5. \A i \in DOMAIN b : b[i] \in Range(c)
    <2>1. \A i \in 1..n : m + i \in 1..(m + n)
      BY <1>1
    <2> QED
      BY <1>1, <1>2, <2>1 DEF Range
  <1> QED
    BY <1>3, <1>4, <1>5 DEF Range, c

LEMMA Flattened ==
  ASSUME NEW Y, NEW seq \in Seq(Seq(Y))
  PROVE  /\ FlattenSeq(seq) \in Seq(Y)
         /\ Range(FlattenSeq(seq)) = UNION {Range(seq[i]) : i \in DOMAIN seq}
  <1> DEFINE n == Len(seq)
             U(k) == UNION {Range(seq[i]) : i \in 1..(k + 1)}
  <1>1. n \in Nat /\ DOMAIN seq = 1..n /\ \A i \in 1..n : seq[i] \in Seq(Y)
    BY LenProperties, ElementOfSeq
  <1>2. CASE n = 0
    <2>1. seq = <<>>
      BY <1>2, EmptySeq
    <2>2. FlattenSeq(seq) = <<>>
      BY <2>1 DEF FlattenSeq
    <2> QED
      BY <1>1, <1>2, <2>2, EmptySeq DEF Range
  <1>3. CASE n # 0
    <2>1. PICK acc :
            /\ acc[1] = seq[1] /\ FlattenSeq(seq) = acc[n]
            /\ \A k \in 2..n : acc[k] = acc[k - 1] \o seq[k]
            /\ \A k \in 1..n : acc[k] \in Seq(Y)
      BY <1>3, FlattenSteps
    <2> DEFINE b == [k \in 0..(n - 1) |-> acc[k + 1]]
               good == [k \in 0..(n - 1) |-> {q \in Seq(Y) : Range(q) = U(k)}]
    <2>2. n - 1 \in Nat /\ 0 \in 0..(n - 1) /\ n - 1 \in 0..(n - 1) /\ 1 \in 1..n
      BY <1>1, <1>3
    <2>3. b[0] \in good[0]
      <3>1. 1..(0 + 1) = {1}
        OBVIOUS
      <3>2. U(0) = Range(seq[1])
        BY <3>1
      <3>3. b[0] = acc[1] /\ acc[1] \in Seq(Y)
        BY <2>1, <2>2
      <3> QED
        BY <2>1, <2>2, <3>2, <3>3
    <2>4. ASSUME NEW k \in 1..(n - 1), b[k - 1] \in good[k - 1]
          PROVE  b[k] \in good[k]
      <3>1. /\ k - 1 \in 0..(n - 1) /\ k \in 0..(n - 1) /\ k + 1 \in 2..n /\ k + 1 \in 1..n
            /\ (k + 1) - 1 = k /\ (k - 1) + 1 = k /\ k \in 1..n
        BY <1>1, <2>2
      <3>2. /\ b[k - 1] = acc[k] /\ b[k] = acc[k + 1] /\ acc[k + 1] = acc[k] \o seq[k + 1]
            /\ acc[k] \in Seq(Y) /\ acc[k + 1] \in Seq(Y) /\ seq[k + 1] \in Seq(Y)
        BY <1>1, <2>1, <3>1
      <3>3. Range(acc[k]) = U(k - 1)
        BY <2>4, <3>1, <3>2
      <3>4. Range(acc[k + 1]) = Range(acc[k]) \cup Range(seq[k + 1])
        BY <3>2, RangeConcat
      <3>5. 1..(k + 1) = 1..k \cup {k + 1}
        BY <3>1
      <3>6. U(k) = U(k - 1) \cup Range(seq[k + 1])
        BY <3>1, <3>5
      <3>7. b[k] \in Seq(Y) /\ Range(b[k]) = U(k)
        BY <3>2, <3>3, <3>4, <3>6
      <3> HIDE DEF b, U
      <3> QED
        BY <3>1, <3>7
    <2>5. b[n - 1] \in good[n - 1]
      <3> HIDE DEF b, good
      <3> QED
        BY <2>2, <2>3, <2>4, Climb
    <2>6. b[n - 1] = acc[n] /\ U(n - 1) = UNION {Range(seq[i]) : i \in 1..n}
      <3>1. (n - 1) + 1 = n
        BY <1>1
      <3> QED
        BY <2>2, <3>1
    <2> HIDE DEF b
    <2>7. acc[n] \in Seq(Y) /\ Range(acc[n]) = U(n - 1)
      BY <2>2, <2>5, <2>6
    <2> QED
      BY <1>1, <2>1, <2>6, <2>7
  <1> QED
    BY <1>2, <1>3

LEMMA ReceivedEnter ==
  ASSUME NEW s \in Good, NEW i \in DOMAIN s.events
  PROVE  Received(s.events[i]) \in Seq(Entering(s.leaves))
  <1> DEFINE e == s.events[i]
             N == Entering(s.leaves)
  <1>1. /\ s.leaves \in Seq(Leaf) /\ s.events \in Seq(RP!Event) /\ StandsAt(s, e)
    BY DEF Good, States, EventLeaves
  <1>2. e \in RP!Event
    BY <1>1, LenProperties, ElementOfSeq
  <1>3. e.txid \in Tx /\ e.pos \in Nat
    BY <1>2 DEF RP!Event
  <1>4. Len(s.leaves) \in Nat /\ DOMAIN s.leaves = 1..Len(s.leaves)
    BY <1>1, LenProperties
  <1> HIDE DEF e
  <1>5. ASSUME NEW leaf, NEW j \in Slots, NEW b \in BOOLEAN, LeafAt(s, e.pos + j, leaf)
        PROVE  FreshNote(e, leaf, j, b) \in N
    <2>1. /\ e.pos + j \in Nat /\ e.pos + j + 1 \in 1..Len(s.leaves)
          /\ s.leaves[e.pos + j + 1] = leaf
      BY <1>3, <1>4, <1>5 DEF LeafAt, Slots
    <2>2. leaf \in Leaf
      BY <1>1, <2>1, ElementOfSeq
    <2>3. FreshNote(e, leaf, j, b) \in Note
      BY <1>3, <2>1, <2>2 DEF FreshNote, Note
    <2>4. /\ FreshNote(e, leaf, j, b).pos = e.pos + j
          /\ FreshNote(e, leaf, j, b).leaf = leaf
      BY DEF FreshNote
    <2>5. e.pos + j < Len(s.leaves)
      BY <1>4, <2>1
    <2> QED
      BY <2>1, <2>3, <2>4, <2>5 DEF Entering, Enters
  <1>6. 0 \in Slots /\ 1 \in Slots /\ e.pos + 0 = e.pos
    BY <1>3 DEF Slots
  <1>7. CASE e.txid.env.kind = "mint"
    <2>1. e.txid \in MintsOf
      BY <1>3, <1>7 DEF MintsOf
    <2>2. FreshNote(e, MintLeaf(e.txid.env), 0, FALSE) \in N
      BY <1>1, <1>5, <1>6, <2>1 DEF StandsAt, e
    <2>3. Received(e) = <<>> \/ Received(e) = <<FreshNote(e, MintLeaf(e.txid.env), 0, FALSE)>>
      BY <1>7 DEF Received
    <2>4. Received(e) \in Seq(N)
      <3> DEFINE a == FreshNote(e, MintLeaf(e.txid.env), 0, FALSE)
      <3> HIDE DEF N, a
      <3>1. <<>> \in Seq(N)
        BY EmptySeq
      <3>2. a \in N
        BY <2>2 DEF a
      <3>3. <<a>> \in Seq(N)
        BY <3>2
      <3>4. Received(e) = <<>> \/ Received(e) = <<a>>
        BY <2>3 DEF a
      <3> QED
        BY <3>1, <3>3, <3>4
    <2> QED
      BY <2>4 DEF e
  <1>8. CASE e.txid.env.kind # "mint"
    <2>1. e.txid \in TransfersOf
      BY <1>1, <1>8 DEF StandsAt, MintsOf, e
    <2> DEFINE a == FreshNote(e, OutputLeaf(e.txid.env, 0), 0, TRUE)
               b == FreshNote(e, OutputLeaf(e.txid.env, 1), 1, FALSE)
    <2>2. \A j \in Slots : LeafAt(s, e.pos + j, OutputLeaf(e.txid.env, j))
      BY <1>1, <2>1 DEF StandsAt, e
    <2>3. a \in N /\ b \in N
      BY <1>5, <1>6, <2>2
    <2>4. Received(e) = <<b>> \/ Received(e) = <<a>> \o <<b>>
      BY <1>8 DEF Received
    <2>5. Received(e) \in Seq(N)
      <3> HIDE DEF a, b, N
      <3>1. <<a>> \in Seq(N) /\ <<b>> \in Seq(N)
        BY <2>3
      <3> QED
        BY <2>4, <3>1, ConcatProperties
    <2> QED
      BY <2>5 DEF e
  <1> QED
    BY <1>7, <1>8

LEMMA AllReceivedEnter ==
  ASSUME NEW s \in Good, NEW k \in Nat
  PROVE  LET events == SubSeq(s.events, k + 1, Len(s.events))
         IN  /\ AllReceived(events) \in Seq(Entering(s.leaves))
             /\ \A e \in Range(events) : e.txid \in Tx
  <1> DEFINE events == SubSeq(s.events, k + 1, Len(s.events))
             N == Entering(s.leaves)
             n == Len(s.events)
  <1>1. s.events \in Seq(RP!Event)
    BY DEF Good, States
  <1>2. n \in Nat /\ DOMAIN s.events = 1..n /\ \A i \in 1..n : s.events[i] \in RP!Event
    BY <1>1, LenProperties, ElementOfSeq
  <1>3. /\ events \in Seq(RP!Event)
        /\ Len(events) = IF k + 1 <= n THEN n - (k + 1) + 1 ELSE 0
        /\ \A i \in 1..(n - (k + 1) + 1) : events[i] = s.events[(k + 1) + i - 1]
    BY <1>2, SubSeqProperties
  <1>4. Len(events) \in Nat /\ DOMAIN events = 1..Len(events)
    BY <1>3, LenProperties
  <1>5. ASSUME NEW i \in DOMAIN events
        PROVE  \E m \in DOMAIN s.events : events[i] = s.events[m]
    <2>1. k + 1 <= n /\ i \in 1..(n - (k + 1) + 1)
      BY <1>2, <1>3, <1>4
    <2>2. (k + 1) + i - 1 \in DOMAIN s.events
      BY <1>2, <2>1
    <2> QED
      BY <1>3, <2>1, <2>2
  <1> HIDE DEF events, N
  <1>6. [i \in DOMAIN events |-> Received(events[i])] \in Seq(Seq(N))
    <2>1. \A i \in DOMAIN events : Received(events[i]) \in Seq(N)
      BY <1>5, ReceivedEnter DEF N
    <2> QED
      BY <1>4, <2>1, IsASeq
  <1>7. AllReceived(events) \in Seq(N)
    BY <1>6, Flattened DEF AllReceived
  <1>8. \A e \in Range(events) : e.txid \in Tx
    <2>1. \A i \in DOMAIN events : events[i] \in RP!Event
      BY <1>2, <1>5
    <2> QED
      BY <2>1 DEF Range, RP!Event
  <1> QED
    BY <1>7, <1>8 DEF events, N
-----------------------------------------------------------------------------
(* What each part of a scan does to the file.                               *)

FileOK(f) == f \in File /\ Placed(f.notes)

LEMMA FileParts ==
  ASSUME NEW f \in File
  PROVE  /\ f.notes \in Seq(Note) /\ f.sent \in SUBSET (Tx \X Slots)
         /\ f.scanned_events \in Nat /\ f.scanned_txid \in Tx \cup {NoTx}
         /\ Len(f.notes) \in Nat /\ DOMAIN f.notes = 1..Len(f.notes)
         /\ \A i \in 1..Len(f.notes) : f.notes[i] \in Note
  <1>1. /\ f.notes \in Seq(Note) /\ f.sent \in SUBSET (Tx \X Slots)
        /\ f.scanned_events \in Nat /\ f.scanned_txid \in Tx \cup {NoTx}
    BY DEF File
  <1> QED
    BY <1>1, LenProperties, ElementOfSeq

LEMMA EnteringNotes == \A leaves : Entering(leaves) \subseteq Note
  BY DEF Entering

LEMMA RestartOK ==
  ASSUME NEW f, FileOK(f), NEW s
  PROVE  FileOK(Restart(f, s))
  <1>1. [f EXCEPT !.notes = <<>>, !.sent = {}, !.scanned_events = 0] \in File
    BY EmptySeq DEF FileOK, File
  <1>2. [f EXCEPT !.notes = <<>>, !.sent = {}, !.scanned_events = 0].notes = <<>>
    BY DEF FileOK, File
  <1>3. Placed(<<>>)
    BY DEF Placed
  <1> QED
    BY <1>1, <1>2, <1>3 DEF Restart, FileOK

LEMMA DropStaleOK ==
  ASSUME NEW f, FileOK(f), NEW s
  PROVE  /\ FileOK(DropStale(f, s))
         /\ DropStale(f, s).notes \in Seq(Entering(s.leaves))
  <1>1. f.notes \in Seq(Note) /\ Placed(f.notes) /\ f \in File
    BY FileParts DEF FileOK
  <1>2. PICK kept \in Seq(Entering(s.leaves)) :
          /\ Placed(kept)
          /\ DropStale(f, s) = IF \A m \in Range(f.notes) : Enters(s.leaves, m) THEN f
                               ELSE [f EXCEPT !.notes = kept, !.scanned_events = 0]
    BY <1>1, KeepFold, ZenonT(60)
  <1>3. CASE \A m \in Range(f.notes) : Enters(s.leaves, m)
    <2>1. \A i \in 1..Len(f.notes) : f.notes[i] \in Entering(s.leaves)
      BY <1>1, <1>3, FileParts DEF Range, Entering
    <2>2. f.notes \in Seq(Entering(s.leaves))
      <3>1. Len(f.notes) \in Nat /\ f.notes \in [1..Len(f.notes) -> Entering(s.leaves)]
        BY <1>1, <2>1, LenProperties
      <3> QED
        BY <3>1, SeqDef
    <2>3. DropStale(f, s) = f
      BY <1>2, <1>3
    <2> QED
      BY <2>2, <2>3
  <1>4. CASE ~\A m \in Range(f.notes) : Enters(s.leaves, m)
    <2> DEFINE r == [f EXCEPT !.notes = kept, !.scanned_events = 0]
    <2>1. kept \in Seq(Note)
      BY EnteringNotes, SeqMonotonic
    <2>2. r \in File /\ r.notes = kept
      BY <1>1, <2>1 DEF File
    <2>3. DropStale(f, s) = r
      BY <1>2, <1>4
    <2> HIDE DEF r
    <2> QED
      BY <1>2, <2>2, <2>3 DEF FileOK
  <1> QED
    BY <1>3, <1>4

LEMMA RecordOK ==
  ASSUME NEW N, N \subseteq Note, NEW notes \in Seq(N), Placed(notes), NEW n \in N
  PROVE  Record(notes, n) \in Seq(N) /\ Placed(Record(notes, n))
  <1>1. CASE Record(notes, n) = notes
    BY <1>1
  <1>2. CASE Record(notes, n) # notes
    <2>1. /\ Record(notes, n) = Append(notes, n)
          /\ \A o \in Range(notes) : o.pos # n.pos
      BY <1>2 DEF Record
    <2>2. Len(notes) \in Nat /\ DOMAIN notes = 1..Len(notes)
      BY LenProperties
    <2>3. /\ Append(notes, n) \in Seq(N) /\ Len(Append(notes, n)) = Len(notes) + 1
          /\ \A i \in 1..Len(notes) : Append(notes, n)[i] = notes[i]
          /\ Append(notes, n)[Len(notes) + 1] = n
      BY AppendProperties
    <2>4. DOMAIN Append(notes, n) = 1..(Len(notes) + 1)
      BY <2>3, LenProperties
    <2>5. \A i \in 1..(Len(notes) + 1) : i \in 1..Len(notes) \/ i = Len(notes) + 1
      BY <2>2
    <2>6. \A i \in 1..Len(notes) : notes[i].pos # n.pos
      BY <2>1, <2>2 DEF Range
    <2>7. Placed(Append(notes, n))
      <3> SUFFICES ASSUME NEW i \in 1..(Len(notes) + 1), NEW j \in 1..(Len(notes) + 1), i # j
                   PROVE  Append(notes, n)[i].pos # Append(notes, n)[j].pos
        BY <2>4 DEF Placed
      <3> QED
        BY <2>2, <2>3, <2>5, <2>6 DEF Placed
    <2> QED
      BY <2>1, <2>3, <2>7
  <1> QED
    BY <1>1, <1>2

LEMMA ReadEventsOK ==
  ASSUME NEW f, FileOK(f), NEW s \in Good, f.notes \in Seq(Entering(s.leaves))
  PROVE  /\ FileOK(ReadEvents(f, s))
         /\ ReadEvents(f, s).notes \in Seq(Entering(s.leaves))
  <1> DEFINE events == SubSeq(s.events, f.scanned_events + 1, Len(s.events))
             N == Entering(s.leaves)
             X == {q \in Seq(N) : Placed(q)}
             notes == FoldLeft(Record, f.notes, AllReceived(events))
             mine(t) == \E n \in Range(notes) : OwnNullifier(n) \in Nfs(t.env)
             spends == {t \in {e.txid : e \in Range(events)} :
                          t.env.kind = "transfer" /\ mine(t)}
             sent == f.sent \cup (spends \X Slots)
             txid == IF s.events = <<>> THEN NoTx ELSE Last(s.events).txid
             r == ReadEvents(f, s)
  <1>1. f \in File /\ f.scanned_events \in Nat /\ f.sent \in SUBSET (Tx \X Slots)
    BY FileParts DEF FileOK
  <1>2. AllReceived(events) \in Seq(N) /\ \A e \in Range(events) : e.txid \in Tx
    BY <1>1, AllReceivedEnter
  <1>3. notes \in X
    <2>1. \A a \in X, y \in N : Record(a, y) \in X
      BY EnteringNotes, RecordOK
    <2>2. f.notes \in X
      BY DEF FileOK
    <2> HIDE DEF X, N, events
    <2> QED
      BY <1>2, <2>1, <2>2, RecordFold
  <1>4. notes \in Seq(N) /\ notes \in Seq(Note) /\ Placed(notes)
    <2> HIDE DEF notes
    <2> QED
      BY <1>3, EnteringNotes, SeqMonotonic
  <1>5. sent \in SUBSET (Tx \X Slots)
    <2> HIDE DEF notes, events, mine
    <2> QED
      BY <1>1, <1>2
  <1>6. Len(s.events) \in Nat /\ txid \in Tx \cup {NoTx}
    <2>1. s.events \in Seq(RP!Event)
      BY DEF Good, States
    <2>2. Len(s.events) \in Nat /\ \A i \in 1..Len(s.events) : s.events[i] \in RP!Event
      BY <2>1, LenProperties, ElementOfSeq
    <2>3. CASE s.events # <<>>
      <3>1. Len(s.events) # 0
        BY <2>1, <2>3, EmptySeq
      <3>2. s.events[Len(s.events)] \in RP!Event
        BY <2>2, <3>1
      <3> QED
        BY <2>2, <2>3, <3>2 DEF Last, RP!Event
    <2> QED
      BY <2>2, <2>3
  <1>7. r = [f EXCEPT !.notes = notes, !.sent = sent, !.scanned_events = Len(s.events),
                      !.scanned_txid = txid]
    BY DEF ReadEvents
  <1> HIDE DEF notes, sent, txid, r
  <1>8. r \in File /\ r.notes = notes
    BY <1>1, <1>4, <1>5, <1>6, <1>7 DEF File
  <1> QED
    BY <1>4, <1>8 DEF FileOK, r

(* A new note for every old one, at the same position.                      *)
LEMMA EachNoteOK ==
  ASSUME NEW f, FileOK(f), NEW g, g = [i \in DOMAIN f.notes |-> g[i]],
         \A i \in DOMAIN f.notes : g[i] \in Note /\ g[i].pos = f.notes[i].pos
  PROVE  /\ FileOK([f EXCEPT !.notes = g])
         /\ [f EXCEPT !.notes = g].notes = g
         /\ DOMAIN g = DOMAIN f.notes
  <1>1. f \in File /\ Len(f.notes) \in Nat /\ DOMAIN f.notes = 1..Len(f.notes)
    BY FileParts DEF FileOK
  <1>2. DOMAIN g = DOMAIN f.notes
    OBVIOUS
  <1>3. g \in [1..Len(f.notes) -> Note]
    BY <1>1
  <1>4. g \in Seq(Note)
    BY <1>1, <1>3, SeqDef
  <1>5. [f EXCEPT !.notes = g] \in File /\ [f EXCEPT !.notes = g].notes = g
    BY <1>1, <1>4 DEF File
  <1>6. Placed(g)
    BY <1>2 DEF FileOK, Placed
  <1> QED
    BY <1>2, <1>5, <1>6 DEF FileOK

Scanned(f, s) ==
  \A n \in Range(f.notes) : /\ Enters(s.leaves, n)
                            /\ OwnNullifier(n) \in s.nullifiers => n.spent

LEMMA UpdateNoteOK ==
  ASSUME NEW n \in Note, NEW s, Enters(s.leaves, n)
  PROVE  LET m == UpdateNote(n, s)
         IN  /\ m \in Note /\ m.pos = n.pos /\ Enters(s.leaves, m)
             /\ OwnNullifier(m) \in s.nullifiers => m.spent
  <1> DEFINE m == UpdateNote(n, s)
  <1>1. m \in Note /\ m.pos = n.pos /\ m.leaf = n.leaf
    BY DEF UpdateNote, Unlocked, Note
  <1>2. OwnNullifier(m) = OwnNullifier(n)
    <2> HIDE DEF m
    <2> QED
      BY <1>1 DEF OwnNullifier
  <1>3. OwnNullifier(n) \in s.nullifiers => m.spent
    BY DEF UpdateNote, Unlocked, Note
  <1> HIDE DEF m
  <1>4. Enters(s.leaves, m)
    BY <1>1 DEF Enters
  <1> QED
    BY <1>1, <1>2, <1>3, <1>4 DEF m

LEMMA UpdateNotesOK ==
  ASSUME NEW f, FileOK(f), NEW s \in Good, f.notes \in Seq(Entering(s.leaves))
  PROVE  FileOK(UpdateNotes(f, s)) /\ Scanned(UpdateNotes(f, s), s)
  <1> DEFINE g == [i \in DOMAIN f.notes |-> UpdateNote(f.notes[i], s)]
  <1>1. UpdateNotes(f, s) = [f EXCEPT !.notes = g]
    BY DEF UpdateNotes, EachNote
  <1>2. \A i \in DOMAIN f.notes : f.notes[i] \in Note /\ Enters(s.leaves, f.notes[i])
    <2>1. \A i \in DOMAIN f.notes : f.notes[i] \in Entering(s.leaves)
      BY LenProperties, ElementOfSeq
    <2> QED
      BY <2>1 DEF Entering
  <1>3. \A i \in DOMAIN f.notes :
          /\ g[i] \in Note /\ g[i].pos = f.notes[i].pos /\ Enters(s.leaves, g[i])
          /\ OwnNullifier(g[i]) \in s.nullifiers => g[i].spent
    <2> TAKE i \in DOMAIN f.notes
    <2>1. g[i] = UpdateNote(f.notes[i], s)
      OBVIOUS
    <2> HIDE DEF g
    <2> QED
      BY <1>2, <2>1, UpdateNoteOK
  <1>4. g = [i \in DOMAIN f.notes |-> g[i]]
    OBVIOUS
  <1> HIDE DEF g
  <1>5. /\ FileOK([f EXCEPT !.notes = g]) /\ [f EXCEPT !.notes = g].notes = g
        /\ DOMAIN g = DOMAIN f.notes
    BY <1>3, <1>4, EachNoteOK
  <1>6. Scanned([f EXCEPT !.notes = g], s)
    BY <1>3, <1>5 DEF Scanned, Range
  <1> QED
    BY <1>1, <1>5, <1>6

LEMMA ScanOK ==
  ASSUME NEW f, FileOK(f), NEW s \in Good
  PROVE  FileOK(Scan(f, s)) /\ Scanned(Scan(f, s), s)
  <1> DEFINE a == Restart(f, s)
             b == DropStale(a, s)
             c == ReadEvents(b, s)
  <1>1. FileOK(a)
    BY RestartOK
  <1>2. FileOK(b) /\ b.notes \in Seq(Entering(s.leaves))
    <2> HIDE DEF a
    <2> QED
      BY <1>1, DropStaleOK
  <1>3. FileOK(c) /\ c.notes \in Seq(Entering(s.leaves))
    <2> HIDE DEF b
    <2> QED
      BY <1>2, ReadEventsOK
  <1>4. FileOK(UpdateNotes(c, s)) /\ Scanned(UpdateNotes(c, s), s)
    <2> HIDE DEF c
    <2> QED
      BY <1>3, UpdateNotesOK
  <1> QED
    BY <1>4 DEF Scan
-----------------------------------------------------------------------------
(* The inductive invariant.                                                 *)

Busy(p) == pc[p] \notin {"idle", "synced"}

Types ==
  /\ chain \in Seq(Seq(Tx))
  /\ mempool \subseteq Tx /\ gone \subseteq Tx /\ orphans \subseteq Tx
  /\ dropped \in 0..MaxDropped /\ built \in 0..MaxTx /\ stored \in Nat
  /\ FileOK(file)
  /\ pc \in [Procs -> {"idle", "synced", "scanned", "built", "published", "unlock"}]
  /\ view \in [Procs -> Good]
  /\ tx \in [Procs -> Tx \cup {NoTx}]

(* A command about to broadcast or to lock has a transfer.                  *)
Carrying == \A p \in Procs : pc[p] \in {"built", "published"} => tx[p] \in TransfersOf

(* The lock: at most one command has the file open.                         *)
Alone == \A p, q \in Procs : Busy(p) /\ Busy(q) => p = q

JustScanned == \A p \in Procs : pc[p] = "scanned" => Scanned(file, view[p])

WalletInv == Types /\ Carrying /\ Alone /\ JustScanned

LEMMA OpeningTyped == PlainMints \subseteq Tx /\ Opening \in Seq(Seq(Tx))
  <1>1. PlainMints \subseteq Tx
    BY DEF PlainMints
  <1>2. Seq(PlainMints) \subseteq Seq(Tx)
    BY <1>1, SeqMonotonic
  <1>3. Seq(Seq(PlainMints)) \subseteq Seq(Seq(Tx))
    BY <1>2, SeqMonotonic
  <1> QED
    BY <1>1, <1>3, WalletConstants

LEMMA InitInv == Init => WalletInv
  <1> SUFFICES ASSUME Init PROVE WalletInv
    OBVIOUS
  <1> USE DEF Init
  <1>1. Types
    <2>1. FileOK(file)
      <3>1. file \in File
        BY EmptySeq DEF File
      <3>2. file.notes = <<>>
        OBVIOUS
      <3> QED
        BY <3>1, <3>2 DEF FileOK, Placed
    <2>2. stored \in Nat /\ 0 \in 0..MaxDropped /\ 0 \in 0..MaxTx
      BY WalletConstants
    <2>3. chain \in Seq(Seq(Tx))
      BY OpeningTyped DEF Init
    <2>4. view \in [Procs -> Good]
      BY GoodFresh
    <2> QED
      BY <2>1, <2>2, <2>3, <2>4 DEF Types
  <1>2. Carrying /\ Alone /\ JustScanned
    BY DEF Carrying, Alone, JustScanned, Busy
  <1> QED
    BY <1>1, <1>2 DEF WalletInv

LEMMA HeightNat == Types => Height \in Nat
  BY WalletConstants, LenProperties, SMTT(30) DEF Types, Height

LEMMA FileNotes ==
  ASSUME Types, NEW n \in Range(file.notes)
  PROVE  n \in Note
  BY FileParts DEF Types, FileOK, Range

LEMMA TransferOf ==
  ASSUME NEW t \in TransfersOf
  PROVE  t \in Tx /\ t.env \in TransferEnvelope /\ t.env.anchor \in Nat
  BY DEF TransfersOf, Tx, Envelope, NoEnvelope, MintEnvelope, TransferEnvelope

(* Steps that end a command, with the file rewritten or not.                *)
LEMMA EndInv ==
  ASSUME WalletInv, NEW p \in Procs, End(p),
         chain' \in Seq(Seq(Tx)), mempool' \subseteq Tx, gone' \subseteq Tx,
         orphans' \subseteq Tx,
         dropped' = dropped, built' = built, stored' = stored, FileOK(file'),
         file' = file \/ Busy(p)
  PROVE  WalletInv'
  <1>1. /\ pc' = [pc EXCEPT ![p] = "idle"]
        /\ view' = [view EXCEPT ![p] = R!Fresh]
        /\ tx' = [tx EXCEPT ![p] = NoTx]
    BY DEF End, Goto
  <1>2. Types'
    BY <1>1, GoodFresh DEF WalletInv, Types
  <1>3. /\ pc'[p] = "idle"
        /\ \A q \in Procs \ {p} : pc'[q] = pc[q] /\ view'[q] = view[q] /\ tx'[q] = tx[q]
    BY <1>1 DEF WalletInv, Types
  <1>4. Carrying'
    BY <1>3 DEF WalletInv, Carrying
  <1>5. Alone'
    BY <1>3 DEF WalletInv, Alone, Busy
  <1>6. JustScanned'
    <2> SUFFICES ASSUME NEW q \in Procs, pc'[q] = "scanned"
                 PROVE  Scanned(file', view'[q])
      BY DEF JustScanned
    <2>1. q # p /\ pc[q] = "scanned" /\ view'[q] = view[q]
      BY <1>3
    <2>2. file' = file
      BY <2>1 DEF WalletInv, Alone, Busy
    <2> QED
      BY <2>1, <2>2 DEF WalletInv, JustScanned
  <1> QED
    BY <1>2, <1>4, <1>5, <1>6 DEF WalletInv

LEMMA SyncInv ==
  ASSUME WalletInv, NEW p \in Procs, Sync(p)
  PROVE  WalletInv'
  <1>1. /\ pc' = [pc EXCEPT ![p] = "synced"] /\ stored' = Height
        /\ view' = [view EXCEPT ![p] = Replayed(chain)]
        /\ pc[p] = "idle"
        /\ UNCHANGED <<network, built, file, tx>>
    BY DEF Sync, CanSync, Goto
  <1>2. Replayed(chain) \in Good /\ Height \in Nat
    BY ReplayedGood, HeightNat DEF WalletInv, Types
  <1>3. Types'
    BY <1>1, <1>2 DEF WalletInv, Types, network
  <1>4. /\ pc'[p] = "synced" /\ tx' = tx /\ file' = file
        /\ \A q \in Procs \ {p} : pc'[q] = pc[q] /\ view'[q] = view[q]
    BY <1>1 DEF WalletInv, Types
  <1>5. Carrying' /\ Alone' /\ JustScanned'
    BY <1>4 DEF WalletInv, Carrying, Alone, JustScanned, Busy
  <1> QED
    BY <1>3, <1>5 DEF WalletInv

LEMMA OpenAndScanInv ==
  ASSUME WalletInv, NEW p \in Procs, OpenAndScan(p)
  PROVE  WalletInv'
  <1>1. /\ pc' = [pc EXCEPT ![p] = "scanned"] /\ file' = Scan(file, view[p])
        /\ \A q \in Procs : ~Busy(q)
        /\ UNCHANGED <<network, built, stored, view, tx>>
    BY DEF OpenAndScan, Goto, Free, Busy
  <1>2. FileOK(file') /\ Scanned(file', view[p])
    BY <1>1, ScanOK DEF WalletInv, Types
  <1>3. Types'
    BY <1>1, <1>2 DEF WalletInv, Types, network
  <1>4. /\ pc'[p] = "scanned" /\ tx' = tx /\ view' = view
        /\ \A q \in Procs \ {p} : pc'[q] = pc[q] /\ pc[q] \in {"idle", "synced"}
    BY <1>1 DEF WalletInv, Types, Busy
  <1>5. Carrying' /\ Alone' /\ JustScanned'
    BY <1>2, <1>4 DEF WalletInv, Carrying, Alone, JustScanned, Busy
  <1> QED
    BY <1>3, <1>5 DEF WalletInv

(* What build_transfer chooses: one or two notes that cover the amount.     *)
LEMMA InputsCover ==
  ASSUME Types, NEW s, NEW in \in Inputs(file, s)
  PROVE  /\ Total(in) \in Nat /\ Total(in) - Amount \in Nat
         /\ Len(in) \in {1, 2}
         /\ \A i \in 1..Len(in) : in[i] \in Note
  <1>1. Candidates(file, s) \subseteq Note
    BY FileNotes DEF Candidates
  <1>2. /\ Total(in) >= Amount
        /\ \/ \E a \in Note : in = <<a>>
           \/ \E a, b \in Note : in = <<a, b>>
    BY <1>1 DEF Inputs, Largest
  <1>3. Amount \in Nat
    BY WalletConstants
  <1>4. CASE \E a \in Note : in = <<a>>
    <2>1. PICK a \in Note : in = <<a>>
      BY <1>4
    <2>2. Len(in) = 1 /\ in[1] = a
      BY <2>1
    <2>3. Total(in) \in Nat
      BY <2>2 DEF Total, Note, Leaf
    <2> QED
      BY <1>2, <1>3, <2>2, <2>3
  <1>5. CASE \E a, b \in Note : in = <<a, b>>
    <2>1. PICK a \in Note, b \in Note : in = <<a, b>>
      BY <1>5
    <2>2. Len(in) = 2 /\ in[1] = a /\ in[2] = b
      BY <2>1
    <2>3. Total(in) \in Nat
      BY <2>2 DEF Total, Note, Leaf
    <2>4. \A i \in 1..Len(in) : i = 1 \/ i = 2
      BY <2>2
    <2> QED
      BY <1>2, <1>3, <2>2, <2>3, <2>4
  <1> QED
    BY <1>2, <1>4, <1>5

LEMMA TransferTyped ==
  ASSUME Types, NEW s \in Good, NEW in \in Inputs(file, s), built < MaxTx,
         HAnchor(s) \in DOMAIN s.roots
  PROVE  Transfer(built + 1, s, in) \in TransfersOf
  <1> DEFINE n == built + 1
             t == Transfer(n, s, in)
             ins == [i \in Slots |-> IF i < Len(in) THEN Enabled(in[i + 1]) ELSE Dummy(n)]
             outs == [j \in Slots |-> IF j = 0 THEN Amount ELSE Total(in) - Amount]
             root == s.roots[HAnchor(s)]
             anchor == HAnchor(s)
  <1>1. n \in 1..MaxTx /\ n \in Nat
    BY WalletConstants DEF Types
  <1>2. <<"body", n>> \in Source /\ <<"dummy", n>> \in Source
    BY <1>1, WalletConstants
  <1>3. Amount \in Nat
    BY WalletConstants
  <1>4. ins \in [Slots -> Input]
    <2>1. \A m \in Note : Enabled(m) \in Input
      BY DEF Enabled, Note, Input
    <2>2. Dummy(n) \in Input
      BY <1>2 DEF Dummy, Input, Leaf, Slots
    <2>3. \A i \in Slots : i < Len(in) => i + 1 \in 1..Len(in)
      BY InputsCover DEF Slots
    <2>4. \A i \in Slots : i < Len(in) => in[i + 1] \in Note
      BY <2>3, InputsCover
    <2> QED
      BY <2>1, <2>2, <2>4
  <1>5. outs \in [Slots -> Nat]
    BY <1>3, InputsCover
  <1>6. root \in Seq(Leaf) /\ anchor \in Nat
    <2>1. s.roots \in Maps(Seq(Leaf)) /\ s.replayed_height \in Nat
      BY DEF Good, States
    <2>2. PICK D \in SUBSET Nat : s.roots \in [D -> Seq(Leaf)]
      BY <2>1 DEF Maps
    <2> QED
      BY <2>2
  <1>7. t = [id |-> n, env |-> [kind |-> "transfer", body |-> <<"body", n>>,
                                anchor |-> anchor, root |-> root,
                                ins |-> ins, outs |-> outs]]
    BY DEF Transfer
  <1> HIDE DEF n, t, ins, outs, root, anchor
  <1>8. t.env \in TransferEnvelope /\ t.env.kind = "transfer" /\ t \in [id : Nat, env : TransferEnvelope]
    BY <1>1, <1>2, <1>4, <1>5, <1>6, <1>7 DEF TransferEnvelope
  <1>9. t \in TransfersOf
    BY <1>8 DEF TransfersOf, Tx, Envelope
  <1> QED
    BY <1>9 DEF t, n

LEMMA BuildTransferInv ==
  ASSUME WalletInv, NEW p \in Procs, BuildTransfer(p)
  PROVE  WalletInv'
  <1>1. PICK in \in Inputs(file, view[p]) :
          tx' = [tx EXCEPT ![p] = Transfer(built + 1, view[p], in)]
    BY DEF BuildTransfer
  <1>2. /\ pc[p] = "scanned" /\ built < MaxTx /\ built' = built + 1
        /\ HAnchor(view[p]) \in DOMAIN view[p].roots
        /\ pc' = [pc EXCEPT ![p] = "built"]
        /\ UNCHANGED <<network, stored, file, view>>
    BY DEF BuildTransfer, Goto
  <1>3. Transfer(built + 1, view[p], in) \in TransfersOf
    <2>1. Types /\ view[p] \in Good
      BY DEF WalletInv, Types
    <2> QED
      BY <1>2, <2>1, TransferTyped
  <1>4. built' \in 0..MaxTx
    BY <1>2, WalletConstants DEF WalletInv, Types
  <1>5. Types'
    <2>1. Transfer(built + 1, view[p], in) \in Tx
      BY <1>3, TransferOf
    <2>2. tx' \in [Procs -> Tx \cup {NoTx}]
      BY <1>1, <2>1 DEF WalletInv, Types
    <2>3. pc' \in [Procs -> {"idle", "synced", "scanned", "built", "published", "unlock"}]
      BY <1>2 DEF WalletInv, Types
    <2> QED
      BY <1>2, <1>4, <2>2, <2>3 DEF WalletInv, Types, network
  <1>6. /\ pc'[p] = "built" /\ tx'[p] \in TransfersOf /\ view' = view /\ file' = file
        /\ \A q \in Procs \ {p} : pc'[q] = pc[q] /\ tx'[q] = tx[q]
    BY <1>1, <1>2, <1>3 DEF WalletInv, Types
  <1>7. Carrying'
    BY <1>6 DEF WalletInv, Carrying
  <1>8. Alone' /\ JustScanned'
    BY <1>2, <1>6 DEF WalletInv, Alone, JustScanned, Busy
  <1> QED
    BY <1>5, <1>7, <1>8 DEF WalletInv

LEMMA RelayTypes ==
  ASSUME Types, NEW t \in Tx, Relay(t)
  PROVE  /\ chain' = chain /\ gone' = gone /\ orphans' = orphans /\ dropped' = dropped
         /\ mempool' \subseteq Tx
  BY DEF Relay, Types

LEMMA BroadcastInv ==
  ASSUME WalletInv, NEW p \in Procs, Broadcast(p)
  PROVE  WalletInv'
  <1>1. /\ pc[p] = "built" /\ pc' = [pc EXCEPT ![p] = "published"] /\ Relay(tx[p])
        /\ UNCHANGED <<built, stored, file, view, tx>>
    BY DEF Broadcast, Goto
  <1>2. tx[p] \in TransfersOf /\ tx[p] \in Tx
    BY <1>1, TransferOf DEF WalletInv, Carrying
  <1>3. Types'
    BY <1>1, <1>2, RelayTypes DEF WalletInv, Types
  <1>4. /\ pc'[p] = "published" /\ tx' = tx /\ view' = view /\ file' = file
        /\ \A q \in Procs \ {p} : pc'[q] = pc[q]
    BY <1>1 DEF WalletInv, Types
  <1>5. Carrying' /\ Alone' /\ JustScanned'
    BY <1>1, <1>2, <1>4 DEF WalletInv, Carrying, Alone, JustScanned, Busy
  <1> QED
    BY <1>3, <1>5 DEF WalletInv

LEMMA BroadcastLostInv ==
  ASSUME WalletInv, NEW p \in Procs, BroadcastLost(p)
  PROVE  WalletInv'
  <1>1. /\ pc[p] = "built" /\ Relay(tx[p]) /\ End(p) /\ UNCHANGED <<built, stored, file>>
    BY DEF BroadcastLost
  <1>2. tx[p] \in Tx
    BY <1>1, TransferOf DEF WalletInv, Carrying
  <1>3. Types
    BY DEF WalletInv
  <1>4. /\ chain' = chain /\ gone' = gone /\ orphans' = orphans /\ dropped' = dropped
        /\ mempool' \subseteq Tx
    BY <1>1, <1>2, <1>3, RelayTypes
  <1> QED
    BY <1>1, <1>3, <1>4, EndInv DEF Types

LEMMA LockInputsInv ==
  ASSUME WalletInv, NEW p \in Procs, LockInputs(p)
  PROVE  WalletInv'
  <1> DEFINE old == file.notes
             g == [i \in DOMAIN old |-> IF Spends(tx[p], old[i]) THEN Locked(tx[p], old[i])
                                                             ELSE old[i]]
  <1>1. /\ pc[p] = "published" /\ file' = [file EXCEPT !.notes = g] /\ End(p)
        /\ UNCHANGED <<network, built, stored>>
    BY DEF LockInputs, EachNote
  <1>2. tx[p] \in Tx /\ tx[p].env.anchor \in Nat
    BY <1>1, TransferOf DEF WalletInv, Carrying
  <1>3. FileOK(file) /\ Types
    BY DEF WalletInv, Types
  <1>4. \A n \in Note : Locked(tx[p], n) \in Note /\ Locked(tx[p], n).pos = n.pos
    BY <1>2 DEF Locked, Note
  <1>5. \A i \in DOMAIN old : old[i] \in Note
    BY <1>3, FileParts DEF FileOK
  <1>6. \A i \in DOMAIN old : g[i] \in Note /\ g[i].pos = old[i].pos
    BY <1>4, <1>5
  <1>7. g = [i \in DOMAIN file.notes |-> g[i]]
    OBVIOUS
  <1> HIDE DEF g
  <1>8. FileOK(file')
    BY <1>1, <1>3, <1>6, <1>7, EachNoteOK
  <1>9. Busy(p)
    BY <1>1 DEF Busy
  <1> QED
    BY <1>1, <1>3, <1>8, <1>9, EndInv DEF Types, network

LEMMA UnlockInv ==
  ASSUME WalletInv, NEW p \in Procs, Unlock(p)
  PROVE  WalletInv'
  <1> DEFINE old == file.notes
             g == [i \in DOMAIN old |-> IF old[i].locked_by = tx[p] THEN Unlocked(old[i])
                                                                ELSE old[i]]
  <1>1. /\ pc[p] = "unlock" /\ file' = [file EXCEPT !.notes = g] /\ End(p)
        /\ UNCHANGED <<network, built, stored>>
    BY DEF Unlock, EachNote
  <1>2. FileOK(file) /\ Types
    BY DEF WalletInv, Types
  <1>3. \A n \in Note : Unlocked(n) \in Note /\ Unlocked(n).pos = n.pos
    BY DEF Unlocked, Note
  <1>4. \A i \in DOMAIN old : old[i] \in Note
    BY <1>2, FileParts DEF FileOK
  <1>5. \A i \in DOMAIN old : g[i] \in Note /\ g[i].pos = old[i].pos
    BY <1>3, <1>4
  <1>6. g = [i \in DOMAIN file.notes |-> g[i]]
    OBVIOUS
  <1> HIDE DEF g
  <1>7. FileOK(file')
    BY <1>1, <1>2, <1>5, <1>6, EachNoteOK
  <1>8. Busy(p)
    BY <1>1 DEF Busy
  <1> QED
    BY <1>1, <1>2, <1>7, <1>8, EndInv DEF Types, network

LEMMA QuitInv ==
  ASSUME WalletInv, NEW p \in Procs, Quit(p) \/ CrashUnsaved(p)
  PROVE  WalletInv'
  <1>1. End(p) /\ UNCHANGED <<network, built, stored, file>>
    BY DEF Quit, CrashUnsaved
  <1> QED
    BY <1>1, EndInv DEF WalletInv, Types, network

LEMMA AskCarrierInv ==
  ASSUME WalletInv, NEW p \in Procs,
         NEW t \in {n.locked_by : n \in Range(file.notes)} \ {NoTx}, AskCarrier(p, t)
  PROVE  WalletInv'
  <1>1. /\ pc' = [pc EXCEPT ![p] = "unlock"] /\ tx' = [tx EXCEPT ![p] = t]
        /\ \A q \in Procs : ~Busy(q)
        /\ UNCHANGED <<network, built, stored, file, view>>
    BY DEF AskCarrier, Goto, Free, Busy
  <1>2. t \in Tx
    <2>1. PICK n \in Range(file.notes) : t = n.locked_by /\ t # NoTx
      OBVIOUS
    <2>2. n \in Note
      BY FileNotes DEF WalletInv
    <2> QED
      BY <2>1, <2>2 DEF Note
  <1>3. Types'
    BY <1>1, <1>2 DEF WalletInv, Types, network
  <1>4. /\ pc'[p] = "unlock" /\ view' = view /\ file' = file
        /\ \A q \in Procs \ {p} : /\ pc'[q] = pc[q] /\ tx'[q] = tx[q]
                                 /\ pc[q] \in {"idle", "synced"}
    BY <1>1 DEF WalletInv, Types, Busy
  <1>5. Carrying' /\ Alone' /\ JustScanned'
    BY <1>4 DEF Carrying, Alone, JustScanned, Busy
  <1> QED
    BY <1>3, <1>5 DEF WalletInv

(* Steps of the network leave the commands and the file alone.              *)
LEMMA NetworkInv ==
  ASSUME WalletInv, UNCHANGED <<built, stored, file, pc, view, tx>>,
         chain' \in Seq(Seq(Tx)), mempool' \subseteq Tx, gone' \subseteq Tx,
         orphans' \subseteq Tx, dropped' \in 0..MaxDropped
  PROVE  WalletInv'
  <1>1. Types'
    BY DEF WalletInv, Types
  <1>2. Carrying' /\ Alone' /\ JustScanned'
    BY DEF WalletInv, Carrying, Alone, JustScanned, Busy
  <1> QED
    BY <1>1, <1>2 DEF WalletInv

LEMMA MineInv ==
  ASSUME WalletInv, MineAny
  PROVE  WalletInv'
  <1>1. Foreign \subseteq Tx
    BY WalletConstants, OpeningTyped
  <1>2. Minable \subseteq Tx
    BY <1>1 DEF WalletInv, Types, Minable
  <1>3. \A txs \in Seq(Tx) : Mine(txs) => WalletInv'
    <2> TAKE txs \in Seq(Tx)
    <2> HAVE Mine(txs)
    <2>1. /\ chain' = Append(chain, txs) /\ mempool' = mempool \ Range(txs)
          /\ UNCHANGED <<gone, orphans, dropped, built, stored, file, pc, view, tx>>
      BY DEF Mine
    <2>2. chain' \in Seq(Seq(Tx))
      BY <2>1, AppendProperties DEF WalletInv, Types
    <2> QED
      BY <2>1, <2>2, NetworkInv DEF WalletInv, Types
  <1>4. <<>> \in Seq(Tx) /\ \A t \in Minable : <<t>> \in Seq(Tx)
    BY <1>2, EmptySeq
  <1> QED
    BY <1>3, <1>4 DEF MineAny

LEMMA DisconnectInv ==
  ASSUME WalletInv, Disconnect
  PROVE  WalletInv'
  <1>1. /\ dropped < MaxDropped /\ Len(chain) > Len(Opening)
        /\ dropped' = dropped + 1 /\ chain' = Front(chain)
        /\ mempool' \subseteq mempool \cup Range(Last(chain))
        /\ orphans' \subseteq orphans \cup Range(Last(chain))
        /\ UNCHANGED <<gone, built, stored, file, pc, view, tx>>
    BY DEF Disconnect
  <1>2. /\ chain \in Seq(Seq(Tx)) /\ Len(chain) \in Nat /\ Len(Opening) \in Nat
        /\ \A i \in 1..Len(chain) : chain[i] \in Seq(Tx)
    BY OpeningTyped, LenProperties, ElementOfSeq DEF WalletInv, Types
  <1>3. Len(chain) \in 1..Len(chain)
    BY <1>1, <1>2
  <1>4. Range(Last(chain)) \subseteq Tx
    <2>1. Last(chain) \in Seq(Tx)
      BY <1>2, <1>3 DEF Last
    <2> QED
      BY <2>1, RangeOfSeq DEF Range
  <1>5. chain' \in Seq(Seq(Tx))
    <2>1. \A i \in 1..(Len(chain) - 1) : chain[i] \in Seq(Tx)
      BY <1>2
    <2>2. SubSeq(chain, 1, Len(chain) - 1) \in Seq(Seq(Tx))
      BY <1>2, <2>1, SubSeqProperties
    <2> QED
      BY <1>1, <2>2 DEF Front
  <1>6. dropped' \in 0..MaxDropped
    BY <1>1, WalletConstants DEF WalletInv, Types
  <1> QED
    BY <1>1, <1>4, <1>5, <1>6, NetworkInv DEF WalletInv, Types

LEMMA EvictInv ==
  ASSUME WalletInv,
         (\E t \in mempool : Evict(t)) \/ (\E t \in gone : Return(t))
  PROVE  WalletInv'
  <1>1. /\ UNCHANGED <<chain, orphans, dropped, built, stored, file, pc, view, tx>>
        /\ mempool' \cup gone' \subseteq mempool \cup gone
    BY DEF Evict, Return
  <1> QED
    BY <1>1, NetworkInv DEF WalletInv, Types

LEMMA NextInv ==
  ASSUME WalletInv, [Next]_vars
  PROVE  WalletInv'
  <1>1. CASE UNCHANGED vars
    BY <1>1, NetworkInv DEF vars, network, WalletInv, Types
  <1>2. CASE \E p \in Procs : Step(p)
    <2>1. PICK p \in Procs : Step(p)
      BY <1>2
    <2>2. CASE Sync(p)
      BY <2>2, SyncInv
    <2>3. CASE OpenAndScan(p)
      BY <2>3, OpenAndScanInv
    <2>4. CASE BuildTransfer(p)
      BY <2>4, BuildTransferInv
    <2>5. CASE Broadcast(p)
      BY <2>5, BroadcastInv
    <2>6. CASE BroadcastLost(p)
      BY <2>6, BroadcastLostInv
    <2>7. CASE LockInputs(p)
      BY <2>7, LockInputsInv
    <2>8. CASE Quit(p) \/ CrashUnsaved(p)
      BY <2>8, QuitInv
    <2>9. CASE \E t \in {n.locked_by : n \in Range(file.notes)} \ {NoTx} : AskCarrier(p, t)
      BY <2>9, AskCarrierInv
    <2>10. CASE Unlock(p)
      BY <2>10, UnlockInv
    <2> QED
      BY <2>1, <2>2, <2>3, <2>4, <2>5, <2>6, <2>7, <2>8, <2>9, <2>10 DEF Step
  <1>3. CASE MineAny
    BY <1>3, MineInv
  <1>4. CASE Disconnect
    BY <1>4, DisconnectInv
  <1>5. CASE (\E t \in mempool : Evict(t)) \/ (\E t \in gone : Return(t))
    BY <1>5, EvictInv
  <1> QED
    BY <1>1, <1>2, <1>3, <1>4, <1>5 DEF Next

LEMMA AlwaysInv == Spec => []WalletInv
  <1>1. Init => WalletInv
    BY InitInv
  <1>2. WalletInv /\ [Next]_vars => WalletInv'
    BY NextInv
  <1> QED
    BY <1>1, <1>2, PTL DEF Spec

-----------------------------------------------------------------------------
(* Theorems.                                                                *)

LEMMA AtMostOne ==
  ASSUME NEW S, \A x, y \in S : x = y
  PROVE  Cardinality(S) <= 1
  <1>1. CASE S = {}
    BY <1>1, FS_EmptySet
  <1>2. CASE S # {}
    <2>1. PICK x \in S : S = {x}
      BY <1>2
    <2> QED
      BY <2>1, FS_Singleton
  <1> QED
    BY <1>1, <1>2

(* Every state, file and carrier has its type, and at most one command has  *)
(* the wallet file open: Wallet::open's lock, held to the end of a command. *)
THEOREM TypesAndLock == Spec => []TypeOK
  <1>1. WalletInv => TypeOK
    <2> SUFFICES ASSUME WalletInv PROVE TypeOK
      OBVIOUS
    <2>1. Types
      BY DEF WalletInv
    <2>2. \A p \in Procs : R!StateOK(view[p])
      <3>1. \A p \in Procs : view[p] \in Good
        BY <2>1 DEF Types
      <3>2. \A s \in Good : RP!StateOK(s)
        BY DEF Good, RP!StateInv
      <3> QED
        BY <3>1, <3>2, SameStateOK
    <2>3. Cardinality({p \in Procs : pc[p] \notin {"idle", "synced"}}) <= 1
      <3> DEFINE open == {p \in Procs : pc[p] \notin {"idle", "synced"}}
      <3>1. \A p, q \in open : p = q
        BY DEF WalletInv, Alone, Busy
      <3> HIDE DEF open
      <3>2. Cardinality(open) <= 1
        BY <3>1, AtMostOne
      <3> QED
        BY <3>2 DEF open
    <2> QED
      BY <2>1, <2>2, <2>3 DEF Types, TypeOK, FileOK
  <1> QED
    BY <1>1, AlwaysInv, PTL

(* Wallet::scan: when it has run, every note in the file is a leaf of the   *)
(* replayed tree at its position, no position is listed twice, and no note  *)
(* whose nullifier was published counts as unspent, whatever the chain did  *)
(* since the last scan, and whatever else commands did to the file.         *)
THEOREM ScansAreSpendable == Spec => []NoPhantomNotes
  <1>1. WalletInv => NoPhantomNotes
    BY DEF WalletInv, Types, FileOK, Placed, JustScanned, Scanned, NoPhantomNotes
  <1> QED
    BY <1>1, AlwaysInv, PTL
=============================================================================
