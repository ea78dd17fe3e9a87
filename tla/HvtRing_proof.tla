---------------------------- MODULE HvtRing_proof ----------------------------
(***************************************************************************)
(* Machine-checked proofs about the network ring of HvtRing, for every     *)
(* ring size and every index width it divides.                             *)
(***************************************************************************)
EXTENDS HvtRingFifo, TLAPS

-----------------------------------------------------------------------------
(* Arithmetic of the free-running uint32_t indices.                        *)

(* Subtraction and addition of two indices wrap at most once.              *)
LEMMA SubDef ==
    ASSUME NEW a \in Index, NEW b \in Index
    PROVE  Sub(a, b) = IF a >= b THEN a - b ELSE a - b + Word
BY RingAssumption DEF Index, Sub

LEMMA AddDef ==
    ASSUME NEW a \in Index, NEW n \in Index
    PROVE  Add(a, n) = IF a + n < Word THEN a + n ELSE a + n - Word
BY RingAssumption DEF Index, Add

(* The ring is no larger than the index space.                             *)
LEMMA SizeBound == HVT_RING_SIZE <= Word
<1>1. PICK k \in 1 .. Word : Word = k * HVT_RING_SIZE
  BY RingAssumption
<1>2. QED
  BY <1>1, RingAssumption

LEMMA SubType ==
    ASSUME NEW a \in Index, NEW b \in Index
    PROVE  Sub(a, b) \in Index
BY RingAssumption DEF Index, Sub

LEMMA AddType ==
    ASSUME NEW a \in Index, NEW n \in Index
    PROVE  Add(a, n) \in Index
BY RingAssumption, AddDef DEF Index

(* Indices at the same distance from h are equal.                          *)
LEMMA SubInj ==
    ASSUME NEW a \in Index, NEW b \in Index, NEW h \in Index,
           Sub(a, h) = Sub(b, h)
    PROVE  a = b
BY RingAssumption, SubDef DEF Index

(* Advancing an index advances its distance from h ...                     *)
LEMMA SubAdd ==
    ASSUME NEW a \in Index, NEW h \in Index, NEW n \in Index,
           Sub(a, h) + n < Word
    PROVE  Sub(Add(a, n), h) = Sub(a, h) + n
<1> DEFINE s == Add(a, n)
<1>1. s \in Index
  BY AddType
<1>2. Sub(s, h) = IF s >= h THEN s - h ELSE s - h + Word
  BY <1>1, SubDef
<1>3. Sub(a, h) = IF a >= h THEN a - h ELSE a - h + Word
  BY SubDef
<1>4. s = IF a + n < Word THEN a + n ELSE a + n - Word
  BY AddDef
<1> HIDE DEF s
<1>5. Sub(s, h) = Sub(a, h) + n
  BY <1>1, <1>2, <1>3, <1>4, RingAssumption DEF Index
<1>6. QED
  BY <1>5 DEF s

(* ... and advancing h shortens it.                                        *)
LEMMA SubMove ==
    ASSUME NEW a \in Index, NEW h \in Index, NEW n \in Index,
           n <= Sub(a, h)
    PROVE  Sub(a, Add(h, n)) = Sub(a, h) - n
<1> DEFINE s == Add(h, n)
<1>1. s \in Index
  BY AddType
<1>2. Sub(a, s) = IF a >= s THEN a - s ELSE a - s + Word
  BY <1>1, SubDef
<1>3. Sub(a, h) = IF a >= h THEN a - h ELSE a - h + Word
  BY SubDef
<1>4. s = IF h + n < Word THEN h + n ELSE h + n - Word
  BY AddDef
<1> HIDE DEF s
<1>5. Sub(a, s) = Sub(a, h) - n
  BY <1>1, <1>2, <1>3, <1>4, RingAssumption DEF Index
<1>6. QED
  BY <1>5 DEF s

(* The distance between two indices, from their distances to h.            *)
LEMMA SubDiff ==
    ASSUME NEW a \in Index, NEW b \in Index, NEW h \in Index
    PROVE  Sub(a, b) = IF Sub(a, h) >= Sub(b, h)
                         THEN Sub(a, h) - Sub(b, h)
                         ELSE Sub(a, h) - Sub(b, h) + Word
BY RingAssumption, SubDef DEF Index

(* A multiple of s strictly between -s and s is zero.                      *)
LEMMA SmallMultiple ==
    ASSUME NEW q \in Int, NEW s \in Nat, s > 0, q * s < s, - s < q * s
    PROVE  q = 0
OBVIOUS

LEMMA SlotType ==
    ASSUME NEW a \in Index
    PROVE  Slot(a) \in Slots
BY RingAssumption DEF Index, Slot, Slots

(* Indices less than a ring apart occupy different slots.                  *)
LEMMA SlotInj ==
    ASSUME NEW a \in Index, NEW b \in Index, NEW h \in Index,
           Sub(a, h) < HVT_RING_SIZE, Sub(b, h) < HVT_RING_SIZE,
           Slot(a) = Slot(b)
    PROVE  a = b
<1> DEFINE S == HVT_RING_SIZE
           p == a \div S
           q == b \div S
<1>0. PICK k \in 1 .. Word : Word = k * S
  BY RingAssumption
<1>1. /\ p \in Int /\ a = p * S + Slot(a)
      /\ q \in Int /\ b = q * S + Slot(b)
      /\ Slot(a) \in Int /\ Slot(b) \in Int
  BY RingAssumption DEF Index, Slot
<1> HIDE DEF p, q
<1>2. a - b = (p - q) * S
  BY <1>1, RingAssumption DEF Index
<1>3. \E w \in {0, 1, -1} : a - b - w * Word \in -(S - 1) .. S - 1
  BY RingAssumption, SubDef DEF Index
<1>4. PICK w \in {0, 1, -1} : a - b - w * Word \in -(S - 1) .. S - 1
  BY <1>3
<1>5. w * Word = (w * k) * S
  BY <1>0, <1>4, RingAssumption
<1>6. (p - q - w * k) * S = a - b - w * Word
  BY <1>0, <1>1, <1>2, <1>4, <1>5, RingAssumption
<1>7. p - q - w * k = 0
  <2>1. p - q - w * k \in Int
    BY <1>0, <1>1, <1>4
  <2>2. (p - q - w * k) * S \in -(S - 1) .. S - 1
    BY <1>6, <1>4
  <2>3. QED
    BY <2>1, <2>2, SmallMultiple, RingAssumption
<1>8. a - b = w * Word
  BY <1>6, <1>7, <1>4, RingAssumption DEF Index
<1>9. QED
  BY <1>8, <1>4, RingAssumption DEF Index
(* What the proofs below use of the constants and of the index arithmetic. *)
LEMMA ConstFacts ==
    /\ Word \in Nat /\ HVT_RING_SIZE \in Nat
    /\ HVT_RING_SIZE >= 2 /\ HVT_RING_SIZE <= Word
BY SizeBound, RingAssumption

LEMMA IndexFacts ==
    /\ 0 \in Index /\ 1 \in Index
    /\ \A n \in 0 .. HVT_RING_SIZE - 1 : n \in Index
    /\ \A a \in Index : a \in Nat /\ a < Word
    /\ \A a, b \in Index : Add(a, b) \in Index /\ Sub(a, b) \in Index
    /\ \A a, b \in Index : \A n \in 1 .. Sub(a, b) : n \in Index
<1>1. \A a, b \in Index : Add(a, b) \in Index /\ Sub(a, b) \in Index
  BY AddType, SubType
<1>2. \A a \in Index : a \in Nat /\ a < Word
  BY ConstFacts DEF Index
<1>3. /\ 0 \in Index /\ 1 \in Index
      /\ \A n \in 0 .. HVT_RING_SIZE - 1 : n \in Index
  BY ConstFacts DEF Index
<1>4. ASSUME NEW a \in Index, NEW b \in Index, NEW n \in 1 .. Sub(a, b)
      PROVE  n \in Index
  <2>1. Sub(a, b) \in Nat /\ Sub(a, b) < Word
    BY <1>1, <1>2
  <2>2. QED
    BY <2>1, ConstFacts DEF Index
<1>5. QED
  BY <1>1, <1>2, <1>3, <1>4

-----------------------------------------------------------------------------
(* The entry the I/O thread looks at next, measured from ent_head.         *)
LEMMA NextDist ==
    ASSUME IInv
    PROVE  /\ Next_ent \in Index
           /\ Dist(Next_ent) = Dist(ent_head_h) + processed
           /\ Add(processed, 1) = processed + 1 \/ processed + 1 = HVT_RING_SIZE
           /\ hpc \in {"batch", "com_tail", "ent_head"} /\ Next_ent # tail_snap =>
                 Dist(Next_ent) < Dist(tail_snap)
<1> USE DEF IInv, TypeOK
<1>1. processed \in Index /\ Next_ent \in Index
  BY IndexFacts DEF Next_ent
<1>2. /\ Dist(ent_head_h) \in Nat /\ Dist(ent_tail) \in Nat
      /\ Dist(ent_tail_g) \in Nat /\ Dist(tail_snap) \in Nat
  BY IndexFacts DEF Dist
<1>3. Dist(ent_head_h) + processed < Word
  BY <1>2, ConstFacts DEF OrderInv
<1>4. Dist(Next_ent) = Dist(ent_head_h) + processed
  BY <1>1, <1>3, SubAdd DEF Next_ent, Dist
<1>5. Add(processed, 1) = processed + 1 \/ processed + 1 = HVT_RING_SIZE
  BY <1>1, AddDef, IndexFacts, ConstFacts
<1>6. ASSUME hpc \in {"batch", "com_tail", "ent_head"}, Next_ent # tail_snap
      PROVE  Dist(Next_ent) < Dist(tail_snap)
  <2>1. Dist(Next_ent) # Dist(tail_snap)
    BY <1>1, <1>6, SubInj DEF Dist
  <2>2. QED
    BY <2>1, <1>2, <1>4, <1>6 DEF OrderInv
<1>7. QED
  BY <1>1, <1>4, <1>5, <1>6

(* Advancing by one is injective.                                          *)
LEMMA AddInj ==
    ASSUME NEW a \in Index, NEW b \in Index, Add(a, 1) = Add(b, 1)
    PROVE  a = b
<1>1. Add(a, 1) = IF a + 1 < Word THEN a + 1 ELSE a + 1 - Word
  BY AddDef, IndexFacts
<1>2. Add(b, 1) = IF b + 1 < Word THEN b + 1 ELSE b + 1 - Word
  BY AddDef, IndexFacts, Zenon
<1>3. QED
  BY <1>1, <1>2, ConstFacts DEF Index

LEMMA AddZero ==
    ASSUME NEW a \in Index
    PROVE  Add(a, 0) = a
<1>1. Add(a, 0) = IF a + 0 < Word THEN a + 0 ELSE a + 0 - Word
  BY AddDef, IndexFacts
<1>2. QED
  BY <1>1, IndexFacts

-----------------------------------------------------------------------------
(* One lemma per step that moves an index or writes a slot.                *)

LEMMA FillEntryStep ==
    ASSUME IInv, FillEntry
    PROVE  IInv'
<1> USE DEF IInv, TypeOK
<1> USE DEF FillEntry, GuestStep, memory, host, ring_h, locals_h
<1>1. Slot(ent_tail_g) \in Slots /\ Slot(ent_tail_g)' = Slot(ent_tail_g)
  BY SlotType
<1>2. ring_req_id = ent_tail_g
  BY DEF EntryInv
<1>3. ASSUME NEW i \in Index, Dist(i) < Dist(ent_tail_g)
      PROVE  entries'[Slot(i)] = entries[Slot(i)]
  <2>1. Dist(i) < HVT_RING_SIZE /\ Dist(ent_tail_g) < HVT_RING_SIZE
    BY <1>3, IndexFacts, ConstFacts DEF OrderInv, Dist
  <2>2. i # ent_tail_g
    BY <1>3, IndexFacts DEF Dist
  <2>3. Slot(i) # Slot(ent_tail_g)
    BY <2>1, <2>2, SlotInj DEF Dist
  <2>4. QED
    BY <2>3, <1>1, SlotType
<1>4. TypeOK'
  BY <1>1, IndexFacts DEF GuestPcs, Ops
<1>5. OrderInv'
  BY DEF OrderInv, Dist
<1>6. EntryInv'
  BY <1>1, <1>2, <1>3 DEF EntryInv, Dist
<1>7. CommitInv'
  <2>1. hpc = "com_tail" => Dist(ent_head_h) < Dist(ent_tail_g)
    BY NextDist, AddZero, IndexFacts DEF OrderInv, Next_ent, Dist
  <2>2. QED
    BY <1>3, <2>1 DEF CommitInv, InRead, Dist
<1>8. KickInv'
  BY DEF KickInv, NoLostKick
<1>9. QED
  BY <1>4, <1>5, <1>6, <1>7, <1>8

LEMMA SubmitStep ==
    ASSUME IInv, Submit
    PROVE  IInv'
<1> USE DEF IInv, TypeOK
<1> USE DEF Submit, GuestStep, memory, arrays, host, ring_h, locals_h
<1>1. Dist(ent_tail_g)' = Dist(ent_tail_g) + 1
  BY SubAdd, IndexFacts, ConstFacts DEF OrderInv, Dist
<1>2. ASSUME NEW i \in Index, Dist(i) < Dist(ent_tail_g)'
      PROVE  Dist(i) < Dist(ent_tail_g) \/ i = ent_tail_g
  <2>1. Dist(i) \in Nat /\ Dist(ent_tail_g) \in Nat
    BY IndexFacts DEF Dist
  <2>2. Dist(i) < Dist(ent_tail_g) \/ Dist(i) = Dist(ent_tail_g)
    BY <2>1, <1>1, <1>2
  <2>3. QED
    BY <2>2, SubInj DEF Dist
<1>3. TypeOK'
  BY IndexFacts DEF GuestPcs
<1>4. OrderInv'
  BY <1>1, IndexFacts, ConstFacts DEF OrderInv, Dist
<1>5. EntryInv'
  BY <1>2 DEF EntryInv, Dist
<1>6. CommitInv'
  BY <1>2 DEF CommitInv, EntryInv, InRead, Dist
<1>7. KickInv'
  BY DEF KickInv, NoLostKick
<1>8. QED
  BY <1>3, <1>4, <1>5, <1>6, <1>7

LEMMA ReadReturnStep ==
    ASSUME IInv, ReadReturn
    PROVE  IInv'
<1> USE DEF IInv, TypeOK
<1> USE DEF ReadReturn, GuestStep, memory, host, ring_h, locals_h
<1>1. com_tail_h # com_head /\ com_tail_h = com_head' /\ com_tail = com_tail_h
  BY DEF CommitInv
<1>2. TypeOK'
  BY IndexFacts, SlotType, Zenon DEF GuestPcs
<1>3. OrderInv'
  BY DEF OrderInv, Dist
<1>4. EntryInv'
  BY DEF EntryInv, Dist
<1>5. CommitInv'
  <2>1. hpc # "com_tail"
    <3>1. SUFFICES ASSUME hpc = "com_tail" PROVE FALSE
      OBVIOUS
    <3>2. processed = 0 /\ Dist(ent_head_h) < Dist(ent_tail_g)
      BY <3>1, NextDist, AddZero, IndexFacts DEF OrderInv, Next_ent, Dist
    <3>3. QED
      BY <3>1, <3>2, <1>1, IndexFacts DEF CommitInv, Dist
  <2>2. QED
    BY <1>1, <2>1 DEF CommitInv, Dist
<1>6. KickInv'
  BY DEF KickInv, NoLostKick
<1>7. QED
  BY <1>2, <1>3, <1>4, <1>5, <1>6

LEMMA BatchWriteStep ==
    ASSUME IInv, BatchWrite
    PROVE  IInv'
<1> USE DEF IInv, TypeOK
<1> USE DEF BatchWrite, HostStep, memory, guest, ring_g, ring_h
<1>1. /\ Dist(ent_head_h) \in Nat /\ Dist(tail_snap) \in Nat
      /\ Dist(ent_tail) \in Nat /\ Dist(ent_tail_g) \in Nat
  BY IndexFacts DEF Dist
<1>2. Dist(ent_head_h) + processed < Dist(tail_snap)
  BY NextDist
<1>3. processed + 1 < HVT_RING_SIZE
  BY <1>1, <1>2, ConstFacts DEF OrderInv
<1>4. processed' = processed + 1
  BY <1>3, NextDist, ConstFacts
<1>5. TypeOK'
  BY <1>3, <1>4, ConstFacts
<1>6. OrderInv'
  BY <1>1, <1>2, <1>4 DEF OrderInv, Dist
<1>7. EntryInv'
  BY DEF EntryInv, Dist
<1>8. CommitInv'
  <2>1. ASSUME NEW i \in Index, Dist(ent_head_h) + (processed + 1) <= Dist(i)
        PROVE  Dist(ent_head_h) + processed <= Dist(i)
    BY <2>1, <1>1, IndexFacts DEF Dist
  <2>2. QED
    BY <1>4, <2>1 DEF CommitInv, InRead, Dist
<1>9. KickInv'
  BY DEF KickInv, NoLostKick
<1>10. QED
  BY <1>5, <1>6, <1>7, <1>8, <1>9

LEMMA BatchFlushStep ==
    ASSUME IInv, BatchFlush
    PROVE  IInv'
<1> USE DEF IInv, TypeOK
<1> USE DEF BatchFlush, HostStep, memory, guest, ring_g
<1>1. Dist(ent_head_h)' = Dist(ent_head_h) + processed /\ ent_head_h' \in Index
  BY NextDist DEF Dist
<1>2. /\ Dist(ent_head_h) \in Nat /\ Dist(ent_head_h)' \in Nat
      /\ Dist(ent_head_h)' + 0 = Dist(ent_head_h)'
  BY <1>1, IndexFacts DEF Dist
<1>3. TypeOK'
  BY <1>1, ConstFacts
<1>4. OrderInv'
  BY <1>1, <1>2 DEF OrderInv, Dist
<1>5. EntryInv'
  BY DEF EntryInv, Dist
<1>6. CommitInv'
  BY <1>1, <1>2 DEF CommitInv, InRead, Dist
<1>7. KickInv'
  BY DEF KickInv, NoLostKick
<1>8. QED
  BY <1>3, <1>4, <1>5, <1>6, <1>7

(* While a read is served, its entry is the last of the ring.              *)
LEMMA HeadPending ==
    ASSUME IInv, hpc \in {"batch", "com_tail", "ent_head"}, processed = 0,
           ent_head_h # tail_snap
    PROVE  /\ Dist(ent_head_h) \in Nat
           /\ Dist(ent_head_h) + processed = Dist(ent_head_h)
           /\ Next_ent = ent_head_h
           /\ Dist(ent_head_h) < Dist(tail_snap)
           /\ Dist(ent_head_h) < Dist(ent_tail_g)
<1> USE DEF IInv, TypeOK
<1>1. /\ Dist(ent_head_h) \in Nat /\ Dist(tail_snap) \in Nat
      /\ Dist(ent_tail) \in Nat /\ Dist(ent_tail_g) \in Nat
  BY IndexFacts DEF Dist
<1>2. Next_ent = ent_head_h
  BY AddZero DEF Next_ent
<1>3. Dist(ent_head_h) < Dist(tail_snap)
  BY <1>2, NextDist
<1>4. QED
  BY <1>1, <1>2, <1>3 DEF OrderInv

LEMMA PostCommitStep ==
    ASSUME IInv, PostCommit
    PROVE  IInv'
<1> USE DEF IInv, TypeOK
<1> USE DEF PostCommit, HostStep, memory, guest, ring_g, ring_h, locals_h
<1>1. /\ Dist(ent_head_h) + processed <= Dist(ent_head_h)
      /\ Dist(ent_head_h) < Dist(ent_tail_g)
      /\ Next_ent = ent_head_h
  BY HeadPending
<1>2. entries[Slot(ent_head_h)].op = "read" /\ entries[Slot(ent_head_h)].id = ent_head_h
  BY <1>1 DEF Current, EntryInv
<1>3. com_tail_h = com_head
  BY <1>1, <1>2 DEF CommitInv
<1>4. commits' = [commits EXCEPT ![Slot(com_head)] = ent_head_h]
  BY <1>1, <1>2, <1>3 DEF Current
<1>5. TypeOK'
  BY <1>4, Zenon DEF HostPcs
<1>6. OrderInv'
  BY DEF OrderInv, Dist
<1>7. EntryInv'
  BY DEF EntryInv, Dist
<1>8. CommitInv'
  BY <1>2, <1>3, <1>4, SlotType DEF CommitInv, InRead, Dist
<1>9. KickInv'
  BY DEF KickInv, NoLostKick
<1>10. QED
  BY <1>5, <1>6, <1>7, <1>8, <1>9

LEMMA BumpComTailStep ==
    ASSUME IInv, BumpComTail
    PROVE  IInv'
<1> USE DEF IInv, TypeOK
<1> USE DEF BumpComTail, HostStep, memory, guest, ring_g, locals_h
<1>1. /\ Dist(ent_head_h) + processed <= Dist(ent_head_h)
      /\ Dist(ent_head_h) < Dist(ent_tail_g)
  BY HeadPending DEF OrderInv
<1>2. InRead /\ Add(ent_head_h, 1) = ent_tail_g /\ com_tail_h = com_head
  BY <1>1 DEF CommitInv
<1>3. TypeOK'
  BY IndexFacts DEF HostPcs
<1>4. OrderInv'
  BY DEF OrderInv, Dist
<1>5. EntryInv'
  BY DEF EntryInv, Dist
<1>6. CommitInv'
  <2>1. ASSUME NEW i \in Index, Add(i, 1) = ent_tail_g
        PROVE  i = ent_head_h
    BY <2>1, <1>2, AddInj
  <2>2. QED
    BY <1>2, <2>1 DEF CommitInv, InRead, Dist
<1>7. KickInv'
  BY DEF KickInv, NoLostKick
<1>8. QED
  BY <1>3, <1>4, <1>5, <1>6, <1>7

LEMMA BumpEntHeadStep ==
    ASSUME IInv, BumpEntHead
    PROVE  IInv'
<1> USE DEF IInv, TypeOK
<1> USE DEF BumpEntHead, HostStep, memory, guest, ring_g, locals_h
<1>1. /\ Dist(ent_head_h) \in Nat /\ Dist(tail_snap) \in Nat
      /\ Dist(ent_tail) \in Nat /\ Dist(ent_tail_g) \in Nat
  BY IndexFacts DEF Dist
<1>2. processed = 0 /\ Dist(ent_head_h) < Dist(tail_snap)
  BY HeadPending DEF OrderInv
<1>3. Dist(ent_head_h) + 1 < Word
  BY <1>1, <1>2, ConstFacts DEF OrderInv
<1>4. Dist(ent_head_h)' = Dist(ent_head_h) + 1
  BY <1>3, SubAdd, IndexFacts DEF Dist
<1>5. TypeOK'
  BY IndexFacts DEF HostPcs
<1>6. OrderInv'
  BY <1>1, <1>2, <1>4 DEF OrderInv, Dist
<1>7. EntryInv'
  BY DEF EntryInv, Dist
<1>8. CommitInv'
  <2>1. ASSUME NEW i \in Index, Dist(ent_head_h) + 1 + processed <= Dist(i)
        PROVE  Dist(ent_head_h) + processed <= Dist(i) /\ i # ent_head_h
    BY <2>1, <1>1, <1>2, IndexFacts DEF Dist
  <2>2. QED
    BY <1>4, <2>1 DEF CommitInv, InRead, Dist
<1>9. KickInv'
  BY DEF KickInv, NoLostKick
<1>10. QED
  BY <1>5, <1>6, <1>7, <1>8, <1>9

LEMMA FlushEntTailStep ==
    ASSUME IInv, FlushEntTail
    PROVE  IInv'
<1> USE DEF IInv, TypeOK
<1> USE DEF FlushEntTail, arrays, guest, ring_g, host, ring_h, locals_h
<1>1. /\ Dist(ent_head_h) \in Nat /\ Dist(tail_snap) \in Nat
      /\ Dist(ent_tail) \in Nat /\ Dist(ent_tail_g) \in Nat
  BY IndexFacts DEF Dist
<1>2. gpc = "fence" /\ Dist(ent_tail) < Dist(ent_tail_g)
  <2>1. Dist(ent_tail) # Dist(ent_tail_g)
    BY SubInj DEF Dist
  <2>2. QED
    BY <1>1, <2>1 DEF OrderInv
<1>3. Dist(ent_tail)' = Dist(ent_tail) + 1
  BY <1>1, <1>2, SubAdd, IndexFacts, ConstFacts DEF OrderInv, Dist
<1>4. TypeOK'
  BY IndexFacts
<1>5. OrderInv'
  BY <1>1, <1>2, <1>3 DEF OrderInv, Dist
<1>6. EntryInv' /\ CommitInv' /\ KickInv'
  BY DEF EntryInv, CommitInv, InRead, KickInv, NoLostKick, Dist
<1>7. QED
  BY <1>4, <1>5, <1>6

(* Publishing ent_head moves the origin of every distance.                 *)
LEMMA FlushEntHeadStep ==
    ASSUME IInv, FlushEntHead
    PROVE  IInv'
<1> USE DEF IInv, TypeOK
<1> USE DEF FlushEntHead, arrays, guest, ring_g, host, ring_h, locals_h
<1>1. PICK n \in 1 .. Dist(ent_head_h) : ent_head' = Add(ent_head, n)
  BY DEF Dist
<1>2. n \in Index /\ n \in Nat /\ ent_head' \in Index
  BY <1>1, IndexFacts DEF Dist
<1>3. Dist(ent_head') = n
  <2>1. Dist(ent_head) = 0
    BY SubDef, IndexFacts DEF Dist
  <2>2. QED
    BY <1>1, <1>2, <2>1, SubAdd, IndexFacts DEF Dist
<1>4. ASSUME NEW i \in Index
      PROVE  /\ Dist(i) \in Nat /\ Dist(i) < Word
             /\ Sub(i, ent_head') = IF Dist(i) >= n THEN Dist(i) - n
                                                    ELSE Dist(i) - n + Word
  <2>1. Dist(i) \in Nat /\ Dist(i) < Word
    BY IndexFacts DEF Dist
  <2>2. Sub(i, ent_head') = IF Sub(i, ent_head) >= Sub(ent_head', ent_head)
                              THEN Sub(i, ent_head) - Sub(ent_head', ent_head)
                              ELSE Sub(i, ent_head) - Sub(ent_head', ent_head) + Word
    BY <1>2, SubDiff, IndexFacts
  <2> QED
    BY <1>3, <2>1, <2>2 DEF Dist
<1>5. /\ n <= Dist(ent_head_h) /\ Dist(ent_head_h) <= Dist(ent_tail)
      /\ Dist(ent_tail) <= Dist(ent_tail_g)
  BY <1>1, <1>4 DEF OrderInv
<1>6. /\ Sub(ent_head_h, ent_head') = Dist(ent_head_h) - n
      /\ Sub(ent_tail, ent_head') = Dist(ent_tail) - n
      /\ Sub(ent_tail_g, ent_head') = Dist(ent_tail_g) - n
  BY <1>2, <1>4, <1>5
<1>7. hpc \in {"batch", "com_tail", "ent_head"} =>
        Sub(tail_snap, ent_head') = Dist(tail_snap) - n
  BY <1>2, <1>4, <1>5 DEF OrderInv
<1>8. ASSUME NEW i \in Index, Sub(i, ent_head') < Sub(ent_tail_g, ent_head')
      PROVE  Dist(i) < Dist(ent_tail_g) /\ Sub(i, ent_head') = Dist(i) - n
  BY <1>2, <1>4, <1>6, <1>8, ConstFacts
<1>9. TypeOK'
  BY <1>2
<1>10. OrderInv'
  BY <1>2, <1>4, <1>5, <1>6, <1>7, ConstFacts DEF OrderInv, Dist
<1>11. EntryInv'
  BY <1>8 DEF EntryInv, Dist
<1>12. CommitInv'
  <2>1. ASSUME NEW i \in Index,
               Sub(ent_head_h, ent_head') + processed <= Sub(i, ent_head'),
               Sub(i, ent_head') < Sub(ent_tail_g, ent_head')
        PROVE  /\ Dist(ent_head_h) + processed <= Dist(i)
               /\ Dist(i) < Dist(ent_tail_g)
    BY <1>2, <1>4, <1>6, <1>8, <2>1
  <2>2. QED
    BY <2>1 DEF CommitInv, InRead, Dist
<1>13. KickInv'
  BY DEF KickInv, NoLostKick
<1>14. QED
  BY <1>9, <1>10, <1>11, <1>12, <1>13

LEMMA FlushComTailStep ==
    ASSUME IInv, FlushComTail
    PROVE  IInv'
<1> USE DEF IInv, TypeOK
<1> USE DEF FlushComTail, arrays, guest, ring_g, host, ring_h, locals_h
<1>1. com_tail' = com_tail_h
  BY DEF CommitInv
<1>2. TypeOK'
  BY <1>1
<1>3. OrderInv' /\ EntryInv'
  BY DEF OrderInv, EntryInv, Dist
<1>4. CommitInv' /\ KickInv'
  BY <1>1 DEF CommitInv, InRead, KickInv, NoLostKick, Dist
<1>5. QED
  BY <1>2, <1>3, <1>4

(* The other steps move no index: each changes program counters, the       *)
(* eventfd, needs_kick or the snapshot of ent_tail.                        *)
LEMMA QuietGuestStep ==
    ASSUME IInv,
           Call \/ Exit \/ WriteFlowControl \/ ReadAssert \/ SubmitFence \/
           SubmitCheck \/ SubmitKick \/ KillStop \/ KillKick \/ KillJoin
    PROVE  IInv'
<1> USE DEF IInv, TypeOK, GuestStep, memory, arrays, ring_g, host, ring_h, locals_h
<1> USE DEF Call, Exit, WriteFlowControl, ReadAssert, SubmitFence, SubmitCheck,
            SubmitKick, KillStop, KillKick, KillJoin
<1>1. TypeOK'
  BY ZenonT(30) DEF GuestPcs, Ops, Submitted
<1>2. OrderInv'
  BY IndexFacts, ConstFacts DEF OrderInv, Dist, Used, Submitted
<1>3. EntryInv'
  BY DEF EntryInv, Dist, Submitted
<1>4. CommitInv'
  BY DEF CommitInv, InRead, Dist, Submitted
<1>5. KickInv'
  BY DEF KickInv, NoLostKick, OrderInv, Submitted
<1>6. QED
  BY <1>1, <1>2, <1>3, <1>4, <1>5

LEMMA QuietHostStep ==
    ASSUME IInv,
           LoopTop \/ Poll \/ Arm \/ ArmFence \/ Recheck \/ Wake \/ Interrupted \/
           Disarm \/ Snapshot \/ BatchDone \/ FlushNeedsKick
    PROVE  IInv'
<1> USE DEF IInv, TypeOK, HostStep, memory, arrays, guest, ring_g, host, ring_h,
            locals_h
<1> USE DEF LoopTop, Poll, Arm, ArmFence, Recheck, Wake, Interrupted, Disarm,
            Snapshot, BatchDone, FlushNeedsKick
<1>1. TypeOK'
  <2>1. processed' \in 0 .. HVT_RING_SIZE - 1
    BY ConstFacts
  <2>2. hpc' \in HostPcs
    BY DEF HostPcs
  <2>3. /\ needs_kick' \in BOOLEAN /\ needs_kick_h' \in BOOLEAN
        /\ kick_net_efd' \in BOOLEAN /\ tail_snap' \in Index
    BY Zenon
  <2>4. QED
    BY <2>1, <2>2, <2>3
<1>2. OrderInv'
  BY IndexFacts DEF OrderInv, Dist
<1>3. EntryInv'
  BY DEF EntryInv, Dist
<1>4. CommitInv'
  BY DEF CommitInv, OrderInv, InRead, Dist
<1>5. KickInv'
  BY DEF KickInv, NoLostKick, OrderInv, HostDrained
<1>6. QED
  BY <1>1, <1>2, <1>3, <1>4, <1>5

LEMMA InitInv == Init => IInv
<1> SUFFICES ASSUME Init PROVE IInv
  OBVIOUS
<1> USE DEF Init
<1>1. Sub(0, 0) = 0
  BY SubDef, IndexFacts
<1>2. TypeOK
  <2>1. processed \in 0 .. HVT_RING_SIZE - 1
    BY ConstFacts
  <2>2. entries \in [Slots -> [op : Ops, id : Index]] /\ commits \in [Slots -> Index]
    BY IndexFacts DEF Ops
  <2>3. QED
    BY <2>1, <2>2, IndexFacts, Zenon DEF TypeOK, GuestPcs, HostPcs, Ops
<1>3. OrderInv
  BY <1>1, ConstFacts DEF OrderInv, Dist
<1>4. EntryInv
  BY <1>1, IndexFacts DEF EntryInv, Dist
<1>5. CommitInv
  BY <1>1, IndexFacts DEF CommitInv, Dist
<1>6. KickInv
  BY DEF KickInv, NoLostKick
<1>7. QED
  BY <1>2, <1>3, <1>4, <1>5, <1>6 DEF IInv

(* IInv is preserved by every step of Next.                                *)
LEMMA NextInv == IInv /\ [Next]_vars => IInv'
<1> SUFFICES ASSUME IInv, [Next]_vars PROVE IInv'
  OBVIOUS
<1>1. CASE \/ FillEntry \/ Submit \/ ReadReturn \/ BatchWrite \/ BatchFlush
           \/ PostCommit \/ BumpComTail \/ BumpEntHead
           \/ FlushEntTail \/ FlushEntHead \/ FlushComTail
  BY <1>1, FillEntryStep, SubmitStep, ReadReturnStep, BatchWriteStep,
     BatchFlushStep, PostCommitStep, BumpComTailStep, BumpEntHeadStep,
     FlushEntTailStep, FlushEntHeadStep, FlushComTailStep
<1>2. CASE \/ Call \/ Exit \/ WriteFlowControl \/ ReadAssert \/ SubmitFence
           \/ SubmitCheck \/ SubmitKick \/ KillStop \/ KillKick \/ KillJoin
  BY <1>2, QuietGuestStep
<1>3. CASE \/ LoopTop \/ Poll \/ Arm \/ ArmFence \/ Recheck \/ Wake \/ Interrupted
           \/ Disarm \/ Snapshot \/ BatchDone \/ FlushNeedsKick
  BY <1>3, QuietHostStep, SMTT(30)
<1>4. CASE UNCHANGED vars
  BY <1>4 DEF IInv, TypeOK, OrderInv, EntryInv, CommitInv, KickInv, NoLostKick,
     Dist, InRead, vars, memory, arrays, guest, ring_g, host, ring_h, locals_h
<1>5. QED
  BY <1>1, <1>2, <1>3, <1>4 DEF Next, GuestRuns, HostRuns, Flush, Halted

(* The invariant of struct hvt_ring and of both sides' views of it holds   *)
(* in every reachable state, whatever the ring size and the index width.   *)
THEOREM Invariance == Spec => []IInv
BY InitInv, NextInv, PTL DEF Spec

(* Every word, entry and commit of the ring keeps its type, and a batch of *)
(* process_ring_commits never counts a whole ring.                         *)
THEOREM TypeCorrect == Spec => []TypeOK
<1>1. IInv => TypeOK
  BY DEF IInv
<1>2. QED
  BY <1>1, Invariance, PTL

(* No entry the I/O thread has yet to take is overwritten by a later       *)
(* solo5_net_write or solo5_net_read.                                      *)
THEOREM SlotsIntact == Spec => []SlotIntegrity
<1>1. IInv => SlotIntegrity
  <2> SUFFICES ASSUME IInv, NEW i \in Index, IsPending(i)
               PROVE  entries[Slot(i)].id = i
    BY DEF SlotIntegrity
  <2> USE DEF IInv, TypeOK
  <2>1. Next_ent \in Index
    BY NextDist
  <2>2. /\ Dist(i) \in Nat /\ Dist(Next_ent) \in Nat /\ Dist(ent_tail_g) \in Nat
        /\ Dist(i) < Word /\ Dist(Next_ent) < Word
    BY <2>1, IndexFacts DEF Dist
  <2>3. Dist(Next_ent) <= Dist(ent_tail_g)
    <3>1. Dist(Next_ent) = Dist(ent_head_h) + processed /\ Dist(ent_tail) \in Nat
      BY NextDist, IndexFacts DEF Dist
    <3>2. QED
      BY <3>1, <2>2 DEF OrderInv
  <2>4. Sub(ent_tail_g, Next_ent) = Dist(ent_tail_g) - Dist(Next_ent)
    BY <2>1, <2>2, <2>3, SubDiff DEF Dist
  <2>5. Sub(i, Next_ent) = IF Dist(i) >= Dist(Next_ent)
                             THEN Dist(i) - Dist(Next_ent)
                             ELSE Dist(i) - Dist(Next_ent) + Word
    BY <2>1, SubDiff DEF Dist
  <2>6. Dist(ent_tail_g) < Word
    BY IndexFacts DEF Dist
  <2>7. Dist(i) < Dist(ent_tail_g)
    BY <2>2, <2>3, <2>4, <2>5, <2>6, ConstFacts DEF IsPending
  <2>8. QED
    BY <2>7 DEF EntryInv
<1>2. QED
  BY <1>1, Invariance, PTL

(* solo5_net_read takes the commit of its own request, and no other is     *)
(* there to take.                                                          *)
THEOREM RepliesMatch == Spec => []ReplyMatchesRequest
<1>1. IInv => ReplyMatchesRequest
  <2> SUFFICES ASSUME IInv PROVE ReplyMatchesRequest
    OBVIOUS
  <2> USE DEF IInv, TypeOK
  <2>1. \A a \in Index : Sub(a, a) = 0 /\ Sub(Add(a, 1), a) = 1
    <3> TAKE a \in Index
    <3>1. Sub(a, a) = 0
      BY SubDef, IndexFacts
    <3>2. Sub(a, a) + 1 < Word /\ 1 \in Index
      BY <3>1, IndexFacts, ConstFacts
    <3>3. Sub(Add(a, 1), a) = Sub(a, a) + 1
      BY <3>2, SubAdd
    <3>4. QED
      BY <3>1, <3>3
  <2>2. Sub(com_tail_h, com_head) <= 1
    BY <2>1 DEF CommitInv
  <2>3. ASSUME gpc = "wait", com_head # com_tail
        PROVE  commits[Slot(com_head)] = Sub(ring_req_id, 1)
    <3>1. /\ Add(commits[Slot(com_head)], 1) = ring_req_id
          /\ commits[Slot(com_head)] \in Index
      BY <2>3, SlotType DEF CommitInv, EntryInv
    <3>2. \A a \in Index : Sub(Add(a, 1), 1) = a
      <4> TAKE a \in Index
      <4>1. Add(a, 1) = IF a + 1 < Word THEN a + 1 ELSE a + 1 - Word
        BY AddDef, IndexFacts
      <4>2. Add(a, 1) \in Index
        BY IndexFacts
      <4>3. Sub(Add(a, 1), 1) = IF Add(a, 1) >= 1 THEN Add(a, 1) - 1
                                                  ELSE Add(a, 1) - 1 + Word
        BY <4>2, SubDef, IndexFacts
      <4>4. QED
        BY <4>1, <4>3, ConstFacts DEF Index
    <3>3. QED
      BY <3>1, <3>2
  <2>4. QED
    BY <2>2, <2>3 DEF ReplyMatchesRequest
<1>2. QED
  BY <1>1, Invariance, PTL

(* The I/O thread never sleeps through a submitted entry: ring_submit has  *)
(* signalled the eventfd or is still about to.                             *)
THEOREM KickNeverLost == Spec => []NoLostKick
<1>1. IInv => NoLostKick
  BY DEF IInv, KickInv
<1>2. QED
  BY <1>1, Invariance, PTL

-----------------------------------------------------------------------------
(* The refinement: the ring implements the queue of NetFifo under the      *)
(* mapping of HvtRingFifo.                                                 *)

(* What a slot of entries[] holds.                                         *)
Entry == [op : Ops, id : Index]

(* Append, Tail and equality of sequences, element by element.             *)
LEMMA AppendIs ==
    ASSUME NEW S, NEW s \in Seq(S), NEW e \in S, NEW t \in Seq(S),
           Len(t) = Len(s) + 1, t[Len(s) + 1] = e,
           \A k \in 1 .. Len(s) : t[k] = s[k]
    PROVE  t = Append(s, e)
OBVIOUS

LEMMA TailIs ==
    ASSUME NEW S, NEW s \in Seq(S), NEW t \in Seq(S),
           Len(s) = Len(t) + 1,
           \A k \in 1 .. Len(t) : t[k] = s[k + 1]
    PROVE  t = Tail(s) /\ s # <<>> /\ Head(s) = s[1]
OBVIOUS

(* Where the queue starts and how long it is, measured from ent_head.      *)
FrontFact ==
    /\ FirstPending \in Index
    /\ Dist(FirstPending) \in Nat /\ Dist(ent_tail_g) \in Nat
    /\ Dist(FirstPending) = Dist(ent_head_h) + processed
                              + (IF hpc = "ent_head" THEN 1 ELSE 0)
    /\ Dist(FirstPending) <= Dist(ent_tail_g)
    /\ Sub(ent_tail_g, FirstPending) = Dist(ent_tail_g) - Dist(FirstPending)
    /\ Dist(ent_tail_g) < HVT_RING_SIZE

LEMMA FrontFacts == IInv => FrontFact
<1> SUFFICES ASSUME IInv PROVE FrontFact
  OBVIOUS
<1> USE DEF FrontFact
<1> USE DEF IInv, TypeOK
<1>1. /\ Dist(ent_head_h) \in Nat /\ Dist(tail_snap) \in Nat
      /\ Dist(ent_tail) \in Nat /\ Dist(ent_tail_g) \in Nat
  BY IndexFacts DEF Dist
<1>2. Dist(ent_tail_g) < HVT_RING_SIZE
  BY <1>1, ConstFacts DEF OrderInv
<1>3. CASE hpc = "ent_head"
  <2>1. processed = 0 /\ Dist(ent_head_h) < Dist(ent_tail_g)
    BY <1>3, HeadPending DEF OrderInv
  <2>2. FirstPending \in Index /\ Dist(FirstPending) = Dist(ent_head_h) + 1
    BY <1>1, <1>2, <1>3, <2>1, SubAdd, IndexFacts, ConstFacts
       DEF FirstPending, Dist
  <2>3. Sub(ent_tail_g, FirstPending) = Dist(ent_tail_g) - Dist(FirstPending)
    BY <1>1, <2>1, <2>2, SubDiff DEF Dist
  <2>4. QED
    BY <1>1, <1>2, <1>3, <2>1, <2>2, <2>3
<1>4. CASE hpc # "ent_head"
  <2>1. FirstPending = Next_ent
    BY <1>4 DEF FirstPending
  <2>2. FirstPending \in Index /\ Dist(FirstPending) = Dist(ent_head_h) + processed
    BY <2>1, NextDist
  <2>3. Dist(FirstPending) <= Dist(ent_tail_g)
    BY <1>1, <2>2 DEF OrderInv
  <2>4. Sub(ent_tail_g, FirstPending) = Dist(ent_tail_g) - Dist(FirstPending)
    BY <1>1, <2>2, <2>3, SubDiff DEF Dist
  <2>5. QED
    BY <1>1, <1>2, <1>4, <2>2, <2>3, <2>4
<1>5. QED
  BY <1>3, <1>4

(* The requests of the queue are those at the indices from FirstPending.   *)
PendingFact ==
    /\ Pending \in Seq(Entry)
    /\ Len(Pending) = Sub(ent_tail_g, FirstPending)
    /\ Len(Pending) \in Nat /\ Len(Pending) < HVT_RING_SIZE
    /\ \A k \in 1 .. Len(Pending) :
          /\ Add(FirstPending, k - 1) \in Index
          /\ Dist(Add(FirstPending, k - 1)) = Dist(FirstPending) + (k - 1)
          /\ Pending[k] = entries[Slot(Add(FirstPending, k - 1))]

LEMMA PendingFacts == IInv => PendingFact
<1> SUFFICES ASSUME IInv PROVE PendingFact
  OBVIOUS
<1> USE FrontFacts DEF FrontFact, PendingFact
<1> DEFINE n == Sub(ent_tail_g, FirstPending)
<1> USE DEF IInv, TypeOK
<1>1. n \in Nat /\ n < HVT_RING_SIZE
  BY FrontFacts, ConstFacts
<1>2. ASSUME NEW k \in 1 .. n
      PROVE  /\ Add(FirstPending, k - 1) \in Index
             /\ Dist(Add(FirstPending, k - 1)) = Dist(FirstPending) + (k - 1)
             /\ entries[Slot(Add(FirstPending, k - 1))] \in Entry
  <2>1. k - 1 \in Index /\ Dist(FirstPending) + (k - 1) < Word
    BY <1>1, FrontFacts, ConstFacts DEF Index
  <2>2. Add(FirstPending, k - 1) \in Index
    BY <2>1, FrontFacts, IndexFacts
  <2>3. Dist(Add(FirstPending, k - 1)) = Dist(FirstPending) + (k - 1)
    BY <2>1, FrontFacts, SubAdd DEF Dist
  <2>4. QED
    BY <2>2, <2>3, SlotType DEF Entry
<1>3. Pending \in Seq(Entry) /\ Len(Pending) = n
  BY <1>1, <1>2 DEF Pending
<1>4. QED
  BY <1>1, <1>2, <1>3 DEF Pending

(* A waiting reader's request is the last entry.                           *)
ReadInv == InRead => entries[Slot(Sub(ent_tail_g, 1))].op = "read"

(* The index before the next one, and the next of the one before.          *)
LEMMA SubOfAdd ==
    ASSUME NEW a \in Index
    PROVE  Sub(Add(a, 1), 1) = a
<1>1. Add(a, 1) = IF a + 1 < Word THEN a + 1 ELSE a + 1 - Word
  BY AddDef, IndexFacts
<1>2. Add(a, 1) \in Index
  BY AddType, IndexFacts
<1>3. Sub(Add(a, 1), 1) = IF Add(a, 1) >= 1 THEN Add(a, 1) - 1
                                            ELSE Add(a, 1) - 1 + Word
  BY <1>2, SubDef, IndexFacts
<1>4. QED
  BY <1>1, <1>3, ConstFacts, IndexFacts

(* Advancing by n + 1 is advancing by n and once more.                     *)
LEMMA AddNext ==
    ASSUME NEW a \in Index, NEW n \in Index, n + 1 \in Index
    PROVE  Add(a, n + 1) = Add(Add(a, n), 1)
<1> DEFINE b == Add(a, n)
<1>1. b = IF a + n < Word THEN a + n ELSE a + n - Word
  BY AddDef
<1>2. b \in Index
  BY AddType
<1> HIDE DEF b
<1>3. Add(b, 1) = IF b + 1 < Word THEN b + 1 ELSE b + 1 - Word
  BY <1>2, AddDef, IndexFacts
<1>4. Add(a, n + 1) = IF a + (n + 1) < Word THEN a + (n + 1)
                                            ELSE a + (n + 1) - Word
  BY AddDef
<1>5. Add(a, n + 1) = Add(b, 1)
  BY <1>1, <1>3, <1>4, ConstFacts DEF Index
<1>6. QED
  BY <1>5 DEF b

LEMMA AddSub ==
    ASSUME NEW a \in Index
    PROVE  Sub(a, 1) \in Index /\ Add(Sub(a, 1), 1) = a
<1>1. Sub(a, 1) = IF a >= 1 THEN a - 1 ELSE a - 1 + Word
  BY SubDef, IndexFacts
<1>2. Sub(a, 1) \in Index
  BY SubType, IndexFacts
<1>3. Add(Sub(a, 1), 1) = IF Sub(a, 1) + 1 < Word THEN Sub(a, 1) + 1
                                                  ELSE Sub(a, 1) + 1 - Word
  BY <1>2, AddDef, IndexFacts
<1>4. QED
  BY <1>1, <1>2, <1>3, ConstFacts DEF Index

(* The index before a is one step nearer to h.                             *)
LEMMA LastDist ==
    ASSUME NEW a \in Index, NEW h \in Index, Sub(a, h) >= 1
    PROVE  Sub(Sub(a, 1), h) = Sub(a, h) - 1
<1> DEFINE b == Sub(a, 1)
<1>1. b = IF a >= 1 THEN a - 1 ELSE a - 1 + Word
  BY SubDef, IndexFacts
<1>2. b \in Index
  BY SubType, IndexFacts
<1> HIDE DEF b
<1>3. Sub(b, h) = IF b >= h THEN b - h ELSE b - h + Word
  BY <1>2, SubDef
<1>4. Sub(a, h) = IF a >= h THEN a - h ELSE a - h + Word
  BY SubDef
<1>5. Sub(b, h) = Sub(a, h) - 1
  BY <1>1, <1>3, <1>4, ConstFacts DEF Index
<1>6. QED
  BY <1>5 DEF b

(* Only FillEntry writes a slot and only Submit moves ent_tail, neither    *)
(* inside a read that waits.                                               *)
LEMMA ReadInvStep ==
    ASSUME IInv, ReadInv, [Next]_vars
    PROVE  ReadInv'
<1> USE DEF IInv, TypeOK, ReadInv, InRead, memory, arrays, guest, ring_g, host,
            ring_h, locals_h, GuestStep, HostStep
<1>1. CASE FillEntry
  BY <1>1 DEF FillEntry
<1>2. CASE Submit
  BY <1>2, SubOfAdd, SMTT(30) DEF Submit, EntryInv
<1>3. CASE Call \/ Exit \/ WriteFlowControl \/ ReadAssert \/ SubmitFence \/
           SubmitCheck \/ SubmitKick \/ ReadReturn \/ KillStop \/ KillKick \/
           KillJoin
  BY <1>3, SMTT(30) DEF Call, Exit, WriteFlowControl, ReadAssert, SubmitFence, SubmitCheck,
     SubmitKick, Submitted, ReadReturn, KillStop, KillKick, KillJoin
<1>4. CASE HostRuns \/ Interrupted
  BY <1>4 DEF HostRuns, LoopTop, Poll, Arm, ArmFence, Recheck, Wake, Disarm,
     Snapshot, BatchWrite, BatchFlush, PostCommit, BumpComTail, BumpEntHead,
     BatchDone, Interrupted
<1>5. CASE Flush \/ UNCHANGED vars
  BY <1>5 DEF Flush, FlushEntTail, FlushEntHead, FlushComTail, FlushNeedsKick, vars
<1>6. QED
  BY <1>1, <1>2, <1>3, <1>4, <1>5 DEF Next, GuestRuns, Halted

(* Steps that leave the indices and slots that the queue is made of alone. *)
LEMMA QuietGuestFifo ==
    ASSUME IInv,
           Call \/ Exit \/ WriteFlowControl \/ ReadAssert \/ SubmitFence \/
           SubmitCheck \/ SubmitKick \/ KillStop \/ KillKick \/ KillJoin
    PROVE  UNCHANGED Fifo!vars
<1> USE DEF GuestStep, memory, arrays, ring_g, host, ring_h, locals_h
<1> USE DEF Call, Exit, WriteFlowControl, ReadAssert, SubmitFence, SubmitCheck,
            SubmitKick, KillStop, KillKick, KillJoin
<1>1. Pending' = Pending /\ Reply' = Reply
  BY DEF Pending, FirstPending, Next_ent, Reply
<1>2. NextRequest' = NextRequest
  BY DEF NextRequest, Submitted
<1>3. InRead' = InRead
  BY DEF InRead, Submitted, IInv, TypeOK, Ops
<1>4. QED
  BY <1>1, <1>2, <1>3, SMTT(30) DEF Fifo!vars

LEMMA QuietHostFifo ==
    ASSUME IInv,
           LoopTop \/ Poll \/ Arm \/ ArmFence \/ Recheck \/ Wake \/ Interrupted \/
           Disarm \/ Snapshot \/ BatchDone
    PROVE  UNCHANGED Fifo!vars
<1> USE DEF HostStep, memory, guest, ring_g, ring_h, locals_h
<1> USE DEF LoopTop, Poll, Arm, ArmFence, Recheck, Wake, Interrupted, Disarm,
            Snapshot, BatchDone
<1>1. FirstPending' = FirstPending
  BY DEF FirstPending, Next_ent, IInv, OrderInv
<1>2. Pending' = Pending
  BY <1>1 DEF Pending
<1>3. Reply' = Reply /\ NextRequest' = NextRequest /\ InRead' = InRead
  BY DEF Reply, NextRequest, InRead
<1>4. QED
  BY <1>2, <1>3 DEF Fifo!vars

LEMMA FlushFifo ==
    ASSUME Flush \/ UNCHANGED vars
    PROVE  UNCHANGED Fifo!vars
BY Zenon DEF Flush, FlushEntTail, FlushEntHead, FlushComTail, FlushNeedsKick, vars,
   memory, arrays, guest, ring_g, host, ring_h, locals_h, Fifo!vars, Pending,
   FirstPending, Next_ent, Reply, NextRequest, InRead

(* Serving: when the front moves on by one the queue loses its head.       *)
LEMMA FrontMoves ==
    ASSUME IInv, IInv', FirstPending' = Add(FirstPending, 1),
           Dist(FirstPending) < Dist(ent_tail_g),
           UNCHANGED <<entries, ent_head, ent_tail_g>>
    PROVE  /\ Pending # <<>> /\ Pending' = Tail(Pending)
           /\ Head(Pending) = entries[Slot(FirstPending)]
<1>0. FrontFact /\ PendingFact /\ FrontFact' /\ PendingFact'
  <2>1. (IInv => FrontFact)' /\ (IInv => PendingFact)'
    BY FrontFacts, PendingFacts, PTL
  <2>2. QED
    BY <2>1, FrontFacts, PendingFacts
<1> DEFINE s == Pending
           t == Pending'
           f == FirstPending
           g == FirstPending'
<1>1. Dist(g) = Dist(f) + 1 /\ g \in Index /\ f \in Index /\ Dist(f) \in Nat
  <2>1. Dist(f) + 1 < Word
    BY <1>0, ConstFacts DEF FrontFact, PendingFact
  <2>2. QED
    BY <2>1, <1>0, SubAdd, IndexFacts DEF Dist, FrontFact, IInv, TypeOK
<1>2. /\ s \in Seq(Entry) /\ t \in Seq(Entry)
      /\ Len(s) \in Nat /\ Len(t) \in Nat
      /\ Len(s) = Dist(ent_tail_g) - Dist(f)
  BY <1>0 DEF Entry, FrontFact, PendingFact
<1>3. Len(t) = Dist(ent_tail_g) - Dist(g)
  BY <1>0 DEF Dist, FrontFact, PendingFact
<1>4. Len(s) = Len(t) + 1
  BY <1>1, <1>2, <1>3, <1>0 DEF FrontFact, PendingFact
<1>5. ASSUME NEW k \in 1 .. Len(t)
      PROVE  t[k] = s[k + 1]
  <2>1. k \in Int /\ k >= 1 /\ k + 1 \in 1 .. Len(s) /\ (k + 1) - 1 = k
    BY <1>2, <1>4
  <2>2. /\ Add(f, k) \in Index /\ Dist(Add(f, k)) = Dist(f) + k
        /\ s[k + 1] = entries[Slot(Add(f, k))]
    BY <2>1, <1>0 DEF FrontFact, PendingFact
  <2>3. /\ Add(g, k - 1) \in Index /\ Dist(Add(g, k - 1)) = Dist(g) + (k - 1)
        /\ t[k] = entries[Slot(Add(g, k - 1))]
    BY <1>0 DEF Dist, Add, Slot, Index, FrontFact, PendingFact
  <2>4. Dist(Add(f, k)) = Dist(Add(g, k - 1))
    BY <2>1, <2>2, <2>3, <1>1, SMTT(30)
  <2>5. Add(f, k) = Add(g, k - 1)
    BY <2>2, <2>3, <2>4, <1>1, SubInj, ZenonT(30) DEF Dist, IInv, TypeOK
  <2>6. QED
    BY <2>2, <2>3, <2>5
<1>6. s[1] = entries[Slot(f)]
  <2>1. 1 \in 1 .. Len(s) /\ 1 - 1 = 0
    BY <1>2, <1>4
  <2>2. s[1] = entries[Slot(Add(f, 0))]
    BY <2>1, <1>0 DEF FrontFact, PendingFact
  <2>3. QED
    BY <2>2, <1>1, AddZero
<1> HIDE DEF s, t
<1>7. t = Tail(s) /\ s # <<>> /\ Head(s) = s[1]
  BY <1>2, <1>4, <1>5, TailIs
<1>8. QED
  BY <1>6, <1>7 DEF s, t

(* A NET_WRITE of the batch takes the head of the queue to the device.     *)
LEMMA BatchWriteFifo ==
    ASSUME IInv, BatchWrite
    PROVE  Fifo!Serve
<1> USE DEF BatchWrite, HostStep, memory, guest, ring_g, ring_h
<1>1. IInv'
  BY BatchWriteStep
<1>2. FirstPending = Next_ent /\ FirstPending' = Next_ent'
  BY DEF FirstPending
<1>3. Dist(FirstPending) < Dist(ent_tail_g)
  <2>1. Dist(Next_ent) < Dist(tail_snap)
    BY NextDist
  <2>2. /\ Dist(Next_ent) \in Nat /\ Dist(tail_snap) \in Nat
        /\ Dist(ent_tail) \in Nat /\ Dist(ent_tail_g) \in Nat
    BY NextDist, IndexFacts DEF Dist, IInv, TypeOK
  <2>3. QED
    BY <1>2, <2>1, <2>2 DEF IInv, OrderInv
<1>4. FirstPending' = Add(FirstPending, 1)
  <2>1. Dist(ent_head_h) \in Nat /\ processed \in Nat
    BY IndexFacts, ConstFacts DEF Dist, IInv, TypeOK
  <2>2. processed + 1 < HVT_RING_SIZE
    BY <1>2, <1>3, <2>1, NextDist, FrontFacts, ConstFacts DEF FrontFact
  <2>3. processed' = processed + 1
    BY <2>1, <2>2, NextDist, ConstFacts
  <2>4. processed + 1 \in Index /\ processed \in Index
    BY <2>1, <2>2, ConstFacts DEF Index
  <2>5. QED
    BY <1>2, <2>3, <2>4, AddNext DEF Next_ent, IInv, TypeOK
<1>5. /\ Pending # <<>> /\ Pending' = Tail(Pending)
      /\ Head(Pending) = entries[Slot(FirstPending)]
  BY <1>1, <1>3, <1>4, FrontMoves
<1>6. Head(Pending).op = "write"
  BY <1>2, <1>5 DEF Current
<1>7. Reply' = Reply /\ NextRequest' = NextRequest /\ InRead' = InRead
  BY DEF Reply, NextRequest, InRead
<1>8. QED
  BY <1>5, <1>6, <1>7 DEF Fifo!Serve

(* Publishing the commit of a NET_READ serves it: its answer is ready.     *)
LEMMA BumpComTailFifo ==
    ASSUME IInv, BumpComTail
    PROVE  Fifo!Serve
<1> USE DEF BumpComTail, HostStep, memory, guest, ring_g, locals_h
<1>1. IInv'
  BY BumpComTailStep
<1>2. /\ Next_ent = ent_head_h /\ Dist(ent_head_h) < Dist(ent_tail_g)
      /\ Dist(ent_head_h) + processed = Dist(ent_head_h)
      /\ Dist(ent_head_h) \in Nat
      /\ ent_head_h \in Index
  BY HeadPending DEF IInv, TypeOK, OrderInv
<1>3. FirstPending = ent_head_h /\ FirstPending' = Add(ent_head_h, 1)
  BY <1>2 DEF FirstPending
<1>4. /\ Pending # <<>> /\ Pending' = Tail(Pending)
      /\ Head(Pending) = entries[Slot(ent_head_h)]
  BY <1>1, <1>2, <1>3, FrontMoves, SMTT(30)
<1>5. /\ entries[Slot(ent_head_h)].op = "read"
      /\ entries[Slot(ent_head_h)].id = ent_head_h
      /\ commits[Slot(com_head)] = ent_head_h
      /\ com_tail_h = com_head
  BY <1>2 DEF IInv, EntryInv, CommitInv
<1>6. com_tail_h' # com_head
  <2>1. com_head \in Index
    BY DEF IInv, TypeOK
  <2>2. Add(com_head, 1) = IF com_head + 1 < Word THEN com_head + 1
                                                  ELSE com_head + 1 - Word
    BY <2>1, AddDef, IndexFacts
  <2>3. QED
    BY <1>5, <2>1, <2>2, ConstFacts DEF Index
<1>7. Reply' = ent_head_h
  BY <1>5, <1>6 DEF Reply
<1>8. NextRequest' = NextRequest /\ InRead' = InRead
  BY DEF NextRequest, InRead
<1>9. QED
  BY <1>4, <1>5, <1>7, <1>8 DEF Fifo!Serve

(* Advancing ent_head, after a batch of writes or after a read, and        *)
(* writing a commit nobody looks for yet, change nothing of the queue.     *)
LEMMA SettleFifo ==
    ASSUME IInv, BatchFlush \/ PostCommit \/ BumpEntHead
    PROVE  UNCHANGED Fifo!vars
<1> USE DEF HostStep, memory, guest, ring_g, ring_h, locals_h
<1>1. /\ Next_ent \in Index /\ ent_head_h \in Index
      /\ Add(ent_head_h, 1) \in Index
  BY NextDist, IndexFacts DEF IInv, TypeOK
<1>2. CASE BatchFlush
  <2>1. FirstPending' = Add(Next_ent, 0) /\ FirstPending = Next_ent
    BY <1>2 DEF BatchFlush, FirstPending, Next_ent
  <2>2. FirstPending' = FirstPending
    BY <2>1, <1>1, AddZero
  <2>3. QED
    BY <1>2, <2>2 DEF BatchFlush, Fifo!vars, Pending, Reply, NextRequest, InRead
<1>3. CASE BumpEntHead
  <2>1. processed = 0 /\ processed' = 0
    BY <1>3 DEF BumpEntHead, IInv, OrderInv
  <2>2. FirstPending' = Add(Add(ent_head_h, 1), 0)
        /\ FirstPending = Add(ent_head_h, 1)
    BY <1>3, <2>1 DEF BumpEntHead, FirstPending, Next_ent
  <2>3. FirstPending' = FirstPending
    BY <2>2, <1>1, AddZero
  <2>4. QED
    BY <1>3, <2>3 DEF BumpEntHead, Fifo!vars, Pending, Reply, NextRequest, InRead
<1>4. CASE PostCommit
  <2>1. /\ Dist(ent_head_h) + processed <= Dist(ent_head_h)
        /\ Dist(ent_head_h) < Dist(ent_tail_g)
        /\ Next_ent = ent_head_h
    BY <1>4, HeadPending DEF PostCommit
  <2>2. entries[Slot(ent_head_h)].op = "read"
    BY <1>4, <2>1 DEF PostCommit, Current
  <2>3. com_tail_h = com_head
    BY <1>1, <1>4, <2>1, <2>2 DEF PostCommit, IInv, CommitInv
  <2>4. Reply' = Reply
    BY <1>4, <2>3 DEF PostCommit, Reply
  <2>5. FirstPending' = FirstPending
    BY <1>4 DEF PostCommit, FirstPending, Next_ent
  <2>6. QED
    BY <1>4, <2>4, <2>5 DEF PostCommit, Fifo!vars, Pending, NextRequest, InRead
<1>5. QED
  BY <1>2, <1>3, <1>4

(* Filling the free slot at ent_tail touches no request of the queue.      *)
LEMMA FillEntryFifo ==
    ASSUME IInv, FillEntry
    PROVE  UNCHANGED Fifo!vars
<1> USE DEF FillEntry, GuestStep, memory, host, ring_h, locals_h
<1>1. FirstPending' = FirstPending /\ FirstPending \in Index
  BY FrontFacts DEF FrontFact, FirstPending, Next_ent
<1>2. ASSUME NEW k \in 1 .. Sub(ent_tail_g, FirstPending)
      PROVE  entries'[Slot(Add(FirstPending, k - 1))] =
               entries[Slot(Add(FirstPending, k - 1))]
  <2> DEFINE i == Add(FirstPending, k - 1)
  <2>1. /\ i \in Index /\ Dist(i) = Dist(FirstPending) + (k - 1)
        /\ Sub(ent_tail_g, FirstPending) = Dist(ent_tail_g) - Dist(FirstPending)
        /\ Dist(ent_tail_g) \in Nat /\ Dist(FirstPending) \in Nat
        /\ Dist(ent_tail_g) < HVT_RING_SIZE
    BY PendingFacts, FrontFacts DEF PendingFact, FrontFact
  <2> HIDE DEF i
  <2>2. Dist(i) < Dist(ent_tail_g) /\ Dist(i) < HVT_RING_SIZE
    BY <2>1, ConstFacts
  <2>3. i # ent_tail_g
    BY <2>1, <2>2
  <2>4. Slot(i) # Slot(ent_tail_g)
    BY <2>1, <2>2, <2>3, SlotInj DEF Dist, IInv, TypeOK
  <2>5. entries'[Slot(i)] = entries[Slot(i)]
    BY <2>1, <2>4, SlotType DEF IInv, TypeOK
  <2>6. QED
    BY <2>5 DEF i
<1>3. Pending' = Pending
  BY <1>1, <1>2 DEF Pending
<1>4. NextRequest' = NextRequest
  BY SubOfAdd DEF NextRequest, IInv, TypeOK
<1>5. Reply' = Reply /\ InRead' = InRead
  BY DEF Reply, InRead
<1>6. QED
  BY <1>3, <1>4, <1>5 DEF Fifo!vars

(* Moving ent_tail in ring_submit appends the request to the queue.        *)
LEMMA SubmitFifo ==
    ASSUME IInv, Submit
    PROVE  Fifo!Submit(gop)
<1> USE DEF Submit, GuestStep, memory, arrays, host, ring_h, locals_h
<1>0. IInv'
  BY SubmitStep
<1>1. FrontFact /\ PendingFact /\ FrontFact' /\ PendingFact'
  <2>1. (IInv => FrontFact)' /\ (IInv => PendingFact)'
    BY FrontFacts, PendingFacts, PTL
  <2>2. QED
    BY <1>0, <2>1, FrontFacts, PendingFacts
<1> DEFINE s == Pending
           t == Pending'
           f == FirstPending
<1>2. FirstPending' = f /\ f \in Index
  BY <1>1 DEF FrontFact, FirstPending, Next_ent
<1>3. /\ ent_tail_g \in Index /\ ent_head \in Index
      /\ Dist(ent_tail_g) \in Nat /\ Dist(f) \in Nat
      /\ Dist(ent_tail_g) < HVT_RING_SIZE - 1
  BY <1>1 DEF IInv, TypeOK, OrderInv, FrontFact
<1>4. Dist(ent_tail_g') = Dist(ent_tail_g) + 1
  BY <1>3, SubAdd, IndexFacts, ConstFacts DEF Dist
<1>5. /\ Len(s) = Dist(ent_tail_g) - Dist(f)
      /\ s \in Seq(Entry) /\ t \in Seq(Entry)
      /\ Len(s) \in Nat /\ Len(t) \in Nat
  BY <1>1, SMTT(30) DEF FrontFact, PendingFact, Entry
<1>6. Len(t) = Dist(ent_tail_g') - Dist(f)
  BY <1>1, <1>2 DEF FrontFact, PendingFact, Dist
<1>7. Len(t) = Len(s) + 1 /\ Len(s) < HVT_RING_SIZE - 1
  BY <1>3, <1>4, <1>5, <1>6, ConstFacts, SMTT(30)
<1>8. ASSUME NEW k \in 1 .. Len(s)
      PROVE  t[k] = s[k]
  <2>1. k \in 1 .. Len(t)
    BY <1>5, <1>7
  <2>2. t[k] = entries[Slot(Add(f, k - 1))]
    BY Zenon, <2>1, <1>1, <1>2 DEF PendingFact, Add, Slot
  <2>3. QED
    BY <2>2, <1>1 DEF PendingFact
<1>9. t[Len(s) + 1] = entries[Slot(ent_tail_g)]
  <2> DEFINE n == Len(s)
             i == Add(f, (n + 1) - 1)
  <2>1. n + 1 \in 1 .. Len(t)
    BY <1>5, <1>7
  <2>2. /\ t[n + 1] = entries[Slot(i)]
        /\ i \in Index /\ Dist(i) = Dist(f) + ((n + 1) - 1)
    BY <2>1, <1>1, <1>2 DEF PendingFact, Add, Slot, Dist, Index
  <2>3. Dist(i) = Dist(ent_tail_g)
    BY <2>2, <1>3, <1>5
  <2>4. i = ent_tail_g
    BY <2>2, <2>3, <1>3, SubInj DEF Dist
  <2>5. QED
    BY <2>2, <2>4
<1>10. entries[Slot(ent_tail_g)] = [op |-> gop, id |-> ent_tail_g]
       /\ ring_req_id = Add(ent_tail_g, 1)
  BY Zenon DEF IInv, EntryInv
<1>11. NextRequest = ent_tail_g /\ NextRequest' = Add(ent_tail_g, 1)
  BY <1>3, <1>10, SubOfAdd DEF NextRequest
<1>12. [op |-> gop, id |-> ent_tail_g] \in Entry
  BY DEF IInv, TypeOK, Entry
<1>13. Pending' = Append(Pending, [op |-> gop, id |-> NextRequest])
  <2> HIDE DEF s, t
  <2>1. t = Append(s, [op |-> gop, id |-> ent_tail_g])
    BY <1>5, <1>7, <1>8, <1>9, <1>10, <1>12, AppendIs
  <2>2. QED
    BY <2>1, <1>11 DEF s, t
<1>14. ~InRead /\ InRead' = (gop = "read") /\ Reply' = Reply
  BY DEF InRead, Reply
<1>15. QED
  BY <1>7, <1>11, <1>13, <1>14 DEF Fifo!Submit

(* solo5_net_read returns when its answer is ready and nothing is pending. *)
LEMMA ReadReturnFifo ==
    ASSUME IInv, ReadInv, ReadReturn
    PROVE  Fifo!Return
<1> USE DEF ReadReturn, GuestStep, memory, host, ring_h, locals_h
<1>1. /\ com_tail_h # com_head /\ com_tail_h = com_head' /\ InRead
      /\ Add(commits[Slot(com_head)], 1) = ent_tail_g
  BY DEF IInv, CommitInv
<1>2. Reply = commits[Slot(com_head)] /\ Reply' = NoReply
  BY <1>1 DEF Reply
<1>3. Reply # NoReply
  BY <1>2, SlotType, IndexFacts DEF IInv, TypeOK, NoReply
<1>4. NextRequest = ent_tail_g /\ NextRequest' = NextRequest
  BY DEF NextRequest, IInv, EntryInv
<1>5. ~InRead'
  BY DEF InRead
<1>6. FirstPending' = FirstPending
  BY DEF FirstPending, Next_ent
<1>7. Pending' = Pending
  BY <1>6 DEF Pending
<1>8. Pending = <<>>
  <2>1. FrontFact /\ PendingFact
    BY FrontFacts, PendingFacts
  <2>2. SUFFICES ASSUME Dist(FirstPending) # Dist(ent_tail_g) PROVE FALSE
    BY <2>1 DEF FrontFact, PendingFact
  <2> DEFINE i == Sub(ent_tail_g, 1)
  <2>3. i \in Index /\ Add(i, 1) = ent_tail_g
    BY AddSub, IndexFacts DEF IInv, TypeOK
  <2>4. Dist(i) = Dist(ent_tail_g) - 1
    <3>1. Dist(ent_tail_g) >= 1
      BY <2>1, <2>2 DEF FrontFact
    <3>2. QED
      BY <2>3, <3>1, LastDist DEF Dist, IInv, TypeOK
  <2>5. Dist(FirstPending) <= Dist(i) /\ Dist(i) < Dist(ent_tail_g)
    BY <2>1, <2>2, <2>4 DEF FrontFact
  <2>6. /\ Dist(ent_head_h) + processed <= Dist(i)
        /\ ~(hpc = "ent_head" /\ i = ent_head_h)
    BY <2>1, <2>4, <2>5, IndexFacts, ConstFacts DEF FrontFact, IInv, TypeOK, Dist
  <2>7. entries[Slot(i)].op = "read"
    BY <1>1 DEF ReadInv
  <2>8. QED
    BY <1>1, <2>3, <2>5, <2>6, <2>7 DEF IInv, CommitInv
<1>9. QED
  BY <1>1, <1>2, <1>3, <1>4, <1>5, <1>7, <1>8 DEF Fifo!Return

(* The initial state is the empty queue.                                   *)
LEMMA InitFifo ==
    ASSUME Init
    PROVE  Fifo!Init /\ ReadInv
<1>1. FirstPending = 0
  BY AddZero, IndexFacts DEF Init, FirstPending, Next_ent
<1>2. Sub(0, 0) = 0
  BY SubDef, IndexFacts
<1>3. Pending = <<>>
  BY <1>1, <1>2 DEF Init, Pending
<1>4. QED
  BY <1>3, IndexFacts DEF Init, Fifo!Init, NextRequest, InRead, Reply, ReadInv

(* Every step of the ring is a step of the queue or leaves it alone.       *)
LEMMA StepFifo ==
    ASSUME IInv, ReadInv, [Next]_vars
    PROVE  [Fifo!Next]_(Fifo!vars)
<1>1. CASE FillEntry \/ BatchFlush \/ PostCommit \/ BumpEntHead
  BY <1>1, FillEntryFifo, SettleFifo
<1>2. CASE Submit
  BY <1>2, SubmitFifo DEF Fifo!Next, IInv, TypeOK, Ops
<1>3. CASE BatchWrite \/ BumpComTail \/ ReadReturn
  BY <1>3, BatchWriteFifo, BumpComTailFifo, ReadReturnFifo DEF Fifo!Next
<1>4. CASE \/ Call \/ Exit \/ WriteFlowControl \/ ReadAssert \/ SubmitFence
           \/ SubmitCheck \/ SubmitKick \/ KillStop \/ KillKick \/ KillJoin
  BY <1>4, QuietGuestFifo
<1>5. CASE \/ LoopTop \/ Poll \/ Arm \/ ArmFence \/ Recheck \/ Wake \/ Interrupted
           \/ Disarm \/ Snapshot \/ BatchDone
  BY <1>5, QuietHostFifo
<1>6. CASE Flush \/ UNCHANGED vars
  BY <1>6, FlushFifo
<1>7. QED
  BY <1>1, <1>2, <1>3, <1>4, <1>5, <1>6 DEF Next, GuestRuns, HostRuns, Halted

(* The shared ring, its store buffers and its two threads implement the    *)
(* queue of NetFifo: every entry ring_submit publishes reaches the TAP     *)
(* device once and in order, at most HVT_RING_SIZE - 1 are outstanding,    *)
(* and solo5_net_read returns the answer to its own request, after         *)
(* everything before it, for every ring size and index width.              *)
THEOREM RingIsFifo == Spec => ImplementsFifo
<1>1. Init => Fifo!Init /\ ReadInv
  BY InitFifo
<1>2. IInv /\ ReadInv /\ [Next]_vars => ReadInv' /\ [Fifo!Next]_(Fifo!vars)
  BY ReadInvStep, StepFifo
<1>3. QED
  BY <1>1, <1>2, Invariance, PTL DEF Spec, ImplementsFifo, Fifo!Spec

=============================================================================
