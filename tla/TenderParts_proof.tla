-------------------------- MODULE TenderParts_proof --------------------------
(***************************************************************************)
(* Two parts of the tender and the bindings, each by itself.               *)
(*                                                                         *)
(* Loading stays inside guest memory and keeps every segment it has        *)
(* loaded, and a note is read from its program header, whatever the        *)
(* executable says and for every word, memory and page size.               *)
(*                                                                         *)
(* The clock of the hvt bindings, for every frequency, shift and width of  *)
(* the multiplier and any number of calls, is never ahead of the CPU,      *)
(* loses a bounded amount and never goes back.  And what solo5_yield()     *)
(* promises, for every manifest: it reports what is readable, and returns  *)
(* empty-handed no earlier than it was asked to.                           *)
(***************************************************************************)
EXTENDS ElfLoad, HostWait, Arithmetic, FiniteSetTheorems

-----------------------------------------------------------------------------
(* Loading an executable.                                                  *)

(* A segment that has been loaded: what SegmentsKept says of it, at any    *)
(* time during loading.                                                    *)
Kept(s) ==
    LET h == s.hdr IN
    /\ h \in Phdrs /\ h.filesz <= h.memsz
    /\ \A a \in h.vaddr .. h.vaddr + h.filesz - 1 : elf_mem[a] = s.i
    /\ \A a \in h.vaddr + h.filesz .. h.vaddr + h.memsz - 1 : elf_mem[a] = -s.i
    /\ \A a \in h.vaddr .. h.vaddr + h.memsz - 1 :
          a \div PageSize \in Pages /\ prot[a \div PageSize] = hvt_guest_mprotect(h.flags)
    /\ h.vaddr + h.memsz <= e_end

ElfInv ==
    /\ ElfTypeOK /\ LoadConfined /\ NoteInside
    /\ DOMAIN elf_mem = ElfWords /\ DOMAIN prot = Pages
    /\ \A s \in segs : Kept(s)

(* The page of an address that lies between page boundaries lies between   *)
(* them too.                                                               *)
LEMMA PageBetween ==
    ASSUME NEW a \in Nat, NEW start \in Nat, NEW end \in Nat, NEW b \in Nat \ {0},
           start % b = 0, end % b = 0, start <= a, a < end
    PROVE  (a \div b) * b >= start /\ (a \div b + 1) * b <= end
<1> DEFINE p == a \div b
<1>1. p \in Nat /\ p * b \in Nat /\ p * b <= a /\ a < p * b + b /\ (p + 1) * b = p * b + b
  BY Multiple
<1>2. start = (start \div b) * b /\ start \div b \in Nat
  BY start = b * (start \div b) + (start % b)
<1>3. end = (end \div b) * b /\ end \div b \in Nat
  BY end = b * (end \div b) + (end % b)
<1> HIDE DEF p
<1>4. p * b >= start
  <2>1. CASE p >= start \div b
    BY <1>1, <1>2, <2>1, Scaled
  <2>2. CASE p + 1 <= start \div b
    <3>1. (p + 1) * b <= start
      BY <1>1, <1>2, <2>2, Scaled, p + 1 \in Nat
    <3> QED
      BY <3>1, <1>1
  <2> QED
    BY <1>1, <1>2, <2>1, <2>2
<1>5. (p + 1) * b <= end
  <2>1. CASE p + 1 <= end \div b
    BY <1>1, <1>3, <2>1, Scaled, p + 1 \in Nat
  <2>2. CASE end \div b <= p
    <3>1. end <= p * b
      BY <1>1, <1>3, <2>2, Scaled
    <3> QED
      BY <3>1, <1>1
  <2> QED
    BY <1>1, <1>3, <2>1, <2>2
<1> QED
  BY <1>4, <1>5 DEF p

(* A segment that passes the checks of the loader lies, with the range its *)
(* protection is applied to, behind those before it and in memory.         *)
LEMMA SegmentPlace ==
    ASSUME NEW h \in Phdrs, StartOk(h), EndOk(h), e_end \in Nat
    PROVE  /\ align_down(h.vaddr, h.align) \in Nat
           /\ e_end <= align_down(h.vaddr, h.align)
           /\ MinLoadAddr <= align_down(h.vaddr, h.align)
           /\ align_down(h.vaddr, h.align) <= h.vaddr
           /\ h.vaddr + h.memsz < ElfWord /\ (h.vaddr + h.memsz) % ElfWord = h.vaddr + h.memsz
           /\ h.vaddr + h.memsz <= align_up(h.vaddr + h.memsz, h.align)
           /\ align_up(h.vaddr + h.memsz, h.align) \in Nat
           /\ align_up(h.vaddr + h.memsz, h.align) <= MemSize
<1>1. h.vaddr \in Nat /\ h.memsz \in Nat /\ h.filesz \in Nat /\ h.align \in Nat \ {0}
      /\ ElfWord \in Nat /\ MemSize \in Nat /\ MinLoadAddr \in Nat /\ MemSize < ElfWord
  BY ElfAssumption DEF ElfWords, StartOk, PowerOf2
<1>2. align_down(h.vaddr, h.align) \in Nat /\ align_down(h.vaddr, h.align) <= h.vaddr
  BY <1>1, Multiple, SMTT(30) DEF align_down
<1>3. e_end <= align_down(h.vaddr, h.align) /\ MinLoadAddr <= align_down(h.vaddr, h.align)
  BY <1>1, <1>2 DEF StartOk
<1>4. h.vaddr + h.memsz < ElfWord /\ align_up(h.vaddr + h.memsz, h.align) <= MemSize
  BY DEF EndOk
<1>5. (h.vaddr + h.memsz) % ElfWord = h.vaddr + h.memsz
  BY <1>1, <1>4
<1>6. h.vaddr + h.memsz + h.align - 1 < ElfWord
  BY <1>1, <1>4 DEF align_up
<1>7. /\ align_up(h.vaddr + h.memsz, h.align) \in Nat
      /\ h.vaddr + h.memsz <= align_up(h.vaddr + h.memsz, h.align)
  <2> DEFINE x == h.vaddr + h.memsz + h.align - 1
  <2>1. x \in Nat /\ x = h.vaddr + h.memsz + (h.align - 1)
    BY <1>1
  <2>2. align_up(h.vaddr + h.memsz, h.align) = (x \div h.align) * h.align
    BY <1>6, <1>1 DEF align_up
  <2> HIDE DEF x
  <2>3. (x \div h.align) * h.align \in Nat /\ x < (x \div h.align) * h.align + h.align
    BY <1>1, <2>1, Multiple, Zenon
  <2> QED
    BY <1>1, <2>1, <2>2, <2>3
<1> QED
  BY <1>2, <1>3, <1>4, <1>5, <1>7

(* An unsigned difference below zero wraps around.                         *)
LEMMA Wrapped ==
    ASSUME NEW a \in Nat, NEW v \in Nat, a < v, v < ElfWord
    PROVE  (a - v) % ElfWord = a - v + ElfWord
<1> DEFINE x == a - v
           q == x \div ElfWord
           r == x % ElfWord
<1>0. ElfWord \in Nat \ {0}
  BY ElfAssumption
<1>1. x \in Int /\ x < 0 /\ x > -ElfWord
  BY <1>0
<1>2. q \in Int /\ r \in 0 .. ElfWord - 1 /\ x = ElfWord * q + r
  BY <1>0, <1>1
<1> HIDE DEF x, q, r
<1>3. q = -1
  <2>1. CASE q >= 0
    <3>1. ElfWord * q >= 0
      BY <1>0, <1>2, <2>1
    <3> QED
      BY <1>0, <1>1, <1>2, <3>1
  <2>2. CASE q <= -2
    <3>1. (-q) \in Nat /\ 2 * ElfWord <= (-q) * ElfWord
      BY <1>0, <1>2, <2>2, Scaled
    <3>2. (-q) * ElfWord = -(ElfWord * q)
      BY <1>0, <1>2
    <3> QED
      BY <1>0, <1>1, <1>2, <3>1, <3>2
  <2> QED
    BY <1>2, <2>1, <2>2
<1>4. ElfWord * q = -ElfWord
  BY <1>0, <1>3
<1>5. r = x + ElfWord
  BY <1>0, <1>1, <1>2, <1>4
<1> QED
  BY <1>5 DEF x, r

(* Such a difference is too large for any segment.                         *)
LEMMA InSegment ==
    ASSUME NEW a \in ElfWords, NEW v \in Nat, NEW n \in Nat, v + n < ElfWord
    PROVE  (a - v) % ElfWord < n <=> v <= a /\ a < v + n
<1>1. ElfWord \in Nat \ {0} /\ a \in Nat /\ a < ElfWord
  BY ElfAssumption DEF ElfWords
<1>2. CASE v <= a
  <2>1. (a - v) % ElfWord = a - v
    BY <1>1, <1>2
  <2> QED
    BY <1>1, <1>2, <2>1
<1>3. CASE a < v
  <2>0. v < ElfWord
    BY <1>1
  <2>1. (a - v) % ElfWord = a - v + ElfWord
    BY <1>1, <1>3, <2>0, Wrapped
  <2> QED
    BY <1>1, <1>3, <2>1
<1> QED
  BY <1>1, <1>2, <1>3

(* Reading the note found keeps within its header.                         *)
LEMMA NoteStep == ASSUME NEW h \in NoteHdrs, NoteInside, LoadNote(h) PROVE NoteInside'
<1>1. CASE Give_up
  BY <1>1 DEF Give_up, NoteInside
<1>2. CASE /\ h.descsz \in 1 .. MaxNote /\ h.filesz >= NhdrSize + h.descsz
           /\ NoteSizeOk(h.descsz)
           /\ note' = [from |-> NoteOffset, size |-> NoteSize(h.descsz), filesz |-> h.filesz]
  <2> DEFINE x == NhdrSize + NoteAlign - 1
             pad == NoteOffset - NhdrSize
  <2>1. x \in Nat /\ (x \div NoteAlign) * NoteAlign \in Nat
        /\ (x \div NoteAlign) * NoteAlign <= x /\ x < (x \div NoteAlign) * NoteAlign + NoteAlign
    BY NoteAssumption, Multiple
  <2>2. NoteOffset \in Nat /\ pad \in 0 .. NoteAlign - 1
    BY NoteAssumption, <2>1 DEF NoteOffset
  <2> HIDE DEF pad
  <2>3. h.descsz \in Nat /\ h.descsz < ElfWord /\ ElfWord \in Nat \ {0} /\ pad < ElfWord
    BY <1>2, <2>2, ElfAssumption, NoteAssumption
  <2>4. NoteSize(h.descsz) = (h.descsz - pad) % ElfWord
    BY DEF NoteSize, pad
  <2>5. pad <= h.descsz
    <3>1. CASE h.descsz < pad
      <4>1. pad \in Nat
        BY <2>2, NoteAssumption
      <4>2. NoteSize(h.descsz) = h.descsz - pad + ElfWord
        BY <2>3, <2>4, <3>1, <4>1, Wrapped
      <4>3. NoteSize(h.descsz) <= h.descsz
        BY <1>2 DEF NoteSizeOk
      <4> QED
        BY <2>3, <4>1, <4>2, <4>3
    <3> QED
      BY <3>1, <2>2, <2>3
  <2>6. NoteSize(h.descsz) = h.descsz - pad
    BY <2>2, <2>3, <2>4, <2>5, NoteAssumption
  <2>7. NoteOffset + NoteSize(h.descsz) = NhdrSize + h.descsz
    BY <2>2, <2>3, <2>6, NoteAssumption DEF pad
  <2> QED
    BY <1>2, <2>7 DEF NoteInside
<1> QED
  BY <1>1, <1>2 DEF LoadNote

(* The invariant holds of fresh memory.                                    *)
LEMMA ElfInitInv == ElfInit => ElfInv
BY ElfAssumption
   DEF ElfInit, ElfInv, ElfTypeOK, LoadConfined, NoteInside, ElfWords

(* Loading a segment keeps the invariant.                                  *)
LEMMA LoadStepInv == ASSUME NEW h \in Phdrs, ElfInv, LoadPhdr(h) PROVE ElfInv'
<1> DEFINE start == align_down(h.vaddr, h.align)
           end == align_up(h.vaddr + h.memsz, h.align)
<1>0. /\ h.vaddr \in ElfWords /\ h.vaddr \in Nat /\ h.memsz \in Nat /\ h.filesz \in Nat /\ MemSize \in Nat
      /\ e_end \in Nat /\ e_end <= MemSize /\ ph_i \in Nat /\ ph_i < MaxPhdrs /\ MaxPhdrs \in Nat
      /\ MinLoadAddr \in Nat /\ PageSize \in Nat \ {0} /\ h.memsz >= h.filesz
  BY ElfAssumption DEF ElfInv, ElfTypeOK, LoadPhdr, ElfWords, EndOk
<1>1. /\ start \in Nat /\ end \in Nat /\ e_end <= start /\ MinLoadAddr <= start /\ start <= h.vaddr
      /\ h.vaddr + h.memsz < ElfWord /\ (h.vaddr + h.memsz) % ElfWord = h.vaddr + h.memsz
      /\ h.vaddr + h.memsz <= end /\ end <= MemSize
  BY <1>0, SegmentPlace DEF LoadPhdr
<1>2. /\ ph_i' = ph_i + 1 /\ plast_vaddr' = h.vaddr /\ UNCHANGED note
      /\ e_end' = IF end > e_end THEN end ELSE e_end
      /\ elf_mem' = [a \in DOMAIN elf_mem |->
                        IF (a - h.vaddr) % ElfWord < h.filesz THEN ph_i'
                        ELSE IF (a - h.vaddr) % ElfWord < h.memsz THEN -ph_i' ELSE elf_mem[a]]
      /\ \/ /\ ProtOk(h)
            /\ prot' = [p \in Pages |-> IF p \in PagesOf(start, end) THEN hvt_guest_mprotect(h.flags) ELSE prot[p]]
            /\ segs' = segs \cup {[i |-> ph_i', hdr |-> h]}
            /\ elf' = elf
         \/ elf' = "exited" /\ UNCHANGED <<prot, segs>>
  BY <1>1 DEF LoadPhdr
<1> HIDE DEF start, end
<1>3. e_end' = end /\ e_end' \in Nat /\ e_end <= e_end' /\ e_end' <= MemSize
  BY <1>0, <1>1, <1>2
<1>4. \A a \in ElfWords :
         /\ h.vaddr <= a /\ a < h.vaddr + h.filesz => elf_mem'[a] = ph_i'
         /\ h.vaddr + h.filesz <= a /\ a < h.vaddr + h.memsz => elf_mem'[a] = -ph_i'
         /\ ~(h.vaddr <= a /\ a < h.vaddr + h.memsz) => elf_mem'[a] = elf_mem[a]
  <2> SUFFICES ASSUME NEW a \in ElfWords
               PROVE  /\ h.vaddr <= a /\ a < h.vaddr + h.filesz => elf_mem'[a] = ph_i'
                      /\ h.vaddr + h.filesz <= a /\ a < h.vaddr + h.memsz => elf_mem'[a] = -ph_i'
                      /\ ~(h.vaddr <= a /\ a < h.vaddr + h.memsz) => elf_mem'[a] = elf_mem[a]
    OBVIOUS
  <2>1. (a - h.vaddr) % ElfWord < h.filesz <=> h.vaddr <= a /\ a < h.vaddr + h.filesz
    BY <1>0, <1>1, ElfAssumption, InSegment
  <2>2. (a - h.vaddr) % ElfWord < h.memsz <=> h.vaddr <= a /\ a < h.vaddr + h.memsz
    BY <1>0, <1>1, InSegment
  <2>3. a \in DOMAIN elf_mem /\ a \in Nat
    BY ElfAssumption DEF ElfInv, ElfWords
  <2>4. elf_mem'[a] = IF (a - h.vaddr) % ElfWord < h.filesz THEN ph_i'
                      ELSE IF (a - h.vaddr) % ElfWord < h.memsz THEN -ph_i' ELSE elf_mem[a]
    BY <1>2, <2>3
  <2> QED
    BY <1>0, <2>1, <2>2, <2>3, <2>4
<1>5. ElfTypeOK'
  BY <1>0, <1>2, <1>3 DEF ElfTypeOK, ElfInv
<1>6. LoadConfined'
  <2> SUFFICES ASSUME NEW a \in ElfWords, elf_mem'[a] # 0
               PROVE  a >= MinLoadAddr /\ a < e_end'
    BY <1>2, <1>3 DEF LoadConfined, ElfInv
  <2>0. a \in Nat
    BY ElfAssumption DEF ElfWords
  <2>1. CASE h.vaddr <= a /\ a < h.vaddr + h.memsz
    BY <1>0, <1>1, <1>3, <2>0, <2>1
  <2>2. CASE ~(h.vaddr <= a /\ a < h.vaddr + h.memsz)
    <3>1. elf_mem[a] # 0 /\ a \in DOMAIN elf_mem
      BY <1>4, <2>2 DEF ElfInv
    <3>2. a >= MinLoadAddr /\ a < e_end
      BY <3>1 DEF ElfInv, LoadConfined
    <3> QED
      BY <1>0, <1>3, <2>0, <3>2
  <2> QED
    BY <2>1, <2>2
<1>7. NoteInside' /\ DOMAIN elf_mem' = ElfWords /\ DOMAIN prot' = Pages
  BY <1>2 DEF ElfInv, NoteInside
<1>8. ASSUME NEW s \in segs PROVE Kept(s)'
  <2>k. Kept(s)
    BY <1>8 DEF ElfInv
  <2>h. s.hdr \in Phdrs /\ s.hdr.filesz <= s.hdr.memsz /\ s.hdr.vaddr + s.hdr.memsz <= e_end
    BY <2>k DEF Kept
  <2>0. s.hdr.vaddr \in Nat /\ s.hdr.memsz \in Nat /\ s.hdr.filesz \in Nat
    BY <2>h, ElfAssumption DEF ElfWords
  <2>1. \A a \in s.hdr.vaddr .. s.hdr.vaddr + s.hdr.memsz - 1 :
           a \in ElfWords /\ a \in Nat /\ a < e_end
    BY <1>0, <2>h, <2>0, ElfAssumption DEF ElfWords
  <2>2. \A a \in ElfWords : a < e_end => elf_mem'[a] = elf_mem[a]
    <3> SUFFICES ASSUME NEW a \in ElfWords, a < e_end PROVE elf_mem'[a] = elf_mem[a]
      OBVIOUS
    <3>1. a \in Nat /\ ~(h.vaddr <= a /\ a < h.vaddr + h.memsz)
      BY <1>0, <1>1, ElfAssumption DEF ElfWords
    <3> QED
      BY <1>4, <3>1
  <2>3. \A a \in s.hdr.vaddr .. s.hdr.vaddr + s.hdr.filesz - 1 : elf_mem'[a] = s.i
    <3> SUFFICES ASSUME NEW a \in s.hdr.vaddr .. s.hdr.vaddr + s.hdr.filesz - 1
                 PROVE  elf_mem'[a] = s.i
      OBVIOUS
    <3>1. elf_mem[a] = s.i
      BY <2>k DEF Kept
    <3>2. a \in s.hdr.vaddr .. s.hdr.vaddr + s.hdr.memsz - 1
      BY <2>h, <2>0
    <3> QED
      BY <2>1, <2>2, <3>1, <3>2
  <2>4. \A a \in s.hdr.vaddr + s.hdr.filesz .. s.hdr.vaddr + s.hdr.memsz - 1 : elf_mem'[a] = -s.i
    <3> SUFFICES ASSUME NEW a \in s.hdr.vaddr + s.hdr.filesz .. s.hdr.vaddr + s.hdr.memsz - 1
                 PROVE  elf_mem'[a] = -s.i
      OBVIOUS
    <3>1. elf_mem[a] = -s.i
      BY <2>k DEF Kept
    <3>2. a \in s.hdr.vaddr .. s.hdr.vaddr + s.hdr.memsz - 1
      BY <2>h, <2>0
    <3> QED
      BY <2>1, <2>2, <3>1, <3>2
  <2>5. \A a \in s.hdr.vaddr .. s.hdr.vaddr + s.hdr.memsz - 1 :
           a \div PageSize \in Pages /\ prot'[a \div PageSize] = hvt_guest_mprotect(s.hdr.flags)
    <3> SUFFICES ASSUME NEW a \in s.hdr.vaddr .. s.hdr.vaddr + s.hdr.memsz - 1
                 PROVE  a \div PageSize \in Pages /\ prot'[a \div PageSize] = hvt_guest_mprotect(s.hdr.flags)
      OBVIOUS
    <3>1. a \div PageSize \in Pages /\ prot[a \div PageSize] = hvt_guest_mprotect(s.hdr.flags)
      BY <2>k DEF Kept
    <3>2. CASE UNCHANGED prot
      BY <3>1, <3>2
    <3>3. CASE prot' = [p \in Pages |-> IF p \in PagesOf(start, end) THEN hvt_guest_mprotect(h.flags) ELSE prot[p]]
      <4>1. a \in Nat /\ a < e_end
        BY <2>1
      <4>2. a \div PageSize \in Nat /\ (a \div PageSize) * PageSize \in Nat
            /\ (a \div PageSize) * PageSize <= a /\ a < (a \div PageSize) * PageSize + PageSize
            /\ (a \div PageSize + 1) * PageSize = (a \div PageSize) * PageSize + PageSize
        BY <1>0, <4>1, Multiple
      <4>3. a \div PageSize \notin PagesOf(start, end)
        <5>1. ~((a \div PageSize) * PageSize >= start)
          BY <1>0, <1>1, <4>1, <4>2
        <5> QED
          BY <5>1 DEF PagesOf
      <4> QED
        BY <3>1, <3>3, <4>3
    <3> QED
      BY <1>2, <3>2, <3>3
  <2>6. s.hdr.vaddr + s.hdr.memsz <= e_end'
    BY <1>0, <1>3, <2>h, <2>0
  <2> QED
    BY <2>h, <2>3, <2>4, <2>5, <2>6 DEF Kept
<1>9. ASSUME NEW s, s.hdr = h, s.i = ph_i', ProtOk(h),
             prot' = [p \in Pages |-> IF p \in PagesOf(start, end) THEN hvt_guest_mprotect(h.flags) ELSE prot[p]]
      PROVE  Kept(s)'
  <2>1. \A a \in h.vaddr .. h.vaddr + h.memsz - 1 : a \in ElfWords /\ a \in Nat /\ start <= a /\ a < end
    BY <1>0, <1>1, ElfAssumption DEF ElfWords
  <2>2. \A a \in h.vaddr .. h.vaddr + h.filesz - 1 : elf_mem'[a] = ph_i'
    <3> SUFFICES ASSUME NEW a \in h.vaddr .. h.vaddr + h.filesz - 1 PROVE elf_mem'[a] = ph_i'
      OBVIOUS
    <3>1. a \in h.vaddr .. h.vaddr + h.memsz - 1 /\ h.vaddr <= a /\ a < h.vaddr + h.filesz
      BY <1>0
    <3> QED
      BY <1>4, <2>1, <3>1
  <2>3. \A a \in h.vaddr + h.filesz .. h.vaddr + h.memsz - 1 : elf_mem'[a] = -ph_i'
    <3> SUFFICES ASSUME NEW a \in h.vaddr + h.filesz .. h.vaddr + h.memsz - 1 PROVE elf_mem'[a] = -ph_i'
      OBVIOUS
    <3>1. /\ a \in h.vaddr .. h.vaddr + h.memsz - 1
          /\ h.vaddr + h.filesz <= a /\ a < h.vaddr + h.memsz
      BY <1>0
    <3> QED
      BY <1>4, <2>1, <3>1
  <2>4. \A a \in h.vaddr .. h.vaddr + h.memsz - 1 :
           a \div PageSize \in Pages /\ prot'[a \div PageSize] = hvt_guest_mprotect(h.flags)
    <3> SUFFICES ASSUME NEW a \in h.vaddr .. h.vaddr + h.memsz - 1
                 PROVE  a \div PageSize \in Pages /\ prot'[a \div PageSize] = hvt_guest_mprotect(h.flags)
      OBVIOUS
    <3>1. start % PageSize = 0 /\ end % PageSize = 0
      BY <1>9 DEF ProtOk, start, end
    <3>2. a \in Nat /\ start <= a /\ a < end
      BY <2>1
    <3>3. (a \div PageSize) * PageSize >= start /\ (a \div PageSize + 1) * PageSize <= end
      BY <1>0, <1>1, <3>1, <3>2, PageBetween, Zenon
    <3>4. a \div PageSize \in Pages
      <4>1. a \div PageSize \in Nat /\ MemSize \div PageSize \in Nat
            /\ MemSize < (MemSize \div PageSize + 1) * PageSize
        BY <1>0, <3>2, Multiple
      <4>2. a \div PageSize + 1 <= MemSize \div PageSize
        <5>1. CASE MemSize \div PageSize + 1 <= a \div PageSize + 1
          <6>1. (MemSize \div PageSize + 1) * PageSize <= (a \div PageSize + 1) * PageSize
            BY <1>0, <4>1, <5>1, Scaled, MemSize \div PageSize + 1 \in Nat, a \div PageSize + 1 \in Nat
          <6>2. (MemSize \div PageSize + 1) * PageSize \in Nat /\ (a \div PageSize + 1) * PageSize \in Nat
            BY <1>0, <4>1
          <6> QED
            BY <1>0, <1>1, <3>3, <4>1, <6>1, <6>2
        <5> QED
          BY <4>1, <5>1
      <4> QED
        BY <4>1, <4>2 DEF Pages
    <3>5. a \div PageSize \in PagesOf(start, end)
      BY <3>3, <3>4 DEF PagesOf
    <3> QED
      BY <1>9, <3>4, <3>5
  <2>5. h.vaddr + h.memsz <= e_end'
    BY <1>0, <1>1, <1>3
  <2> QED
    BY <1>0, <1>9, <2>2, <2>3, <2>4, <2>5 DEF Kept
<1>10. ASSUME NEW s \in segs' PROVE Kept(s)'
  <2>1. CASE s \in segs
    BY <1>8, <2>1
  <2>2. CASE s \notin segs
    BY <1>2, <1>9, <1>10, <2>2
  <2> QED
    BY <2>1, <2>2
<1> QED
  BY <1>5, <1>6, <1>7, <1>10 DEF ElfInv

(* Every step of elf_load_note() and elf_load() keeps the invariant.       *)
LEMMA ElfNextInv == ElfInv /\ [ElfNext]_elfVars => ElfInv'
<1> SUFFICES ASSUME ElfInv, [ElfNext]_elfVars PROVE ElfInv'
  OBVIOUS
<1>s. UNCHANGED <<plast_vaddr, e_end, elf_mem, prot, segs>> =>
         /\ \A s \in segs' : Kept(s)'
         /\ LoadConfined' /\ DOMAIN elf_mem' = ElfWords /\ DOMAIN prot' = Pages
  BY DEF ElfInv, Kept, LoadConfined
<1>1. CASE \E h \in NoteHdrs : LoadNote(h)
  <2>1. PICK h \in NoteHdrs : LoadNote(h)
    BY <1>1
  <2>2. NoteInside'
    BY <2>1, NoteStep DEF ElfInv
  <2>3. UNCHANGED <<ph_i, plast_vaddr, e_end, elf_mem, prot, segs>> /\ elf' \in {"exited", "header"}
    BY <2>1 DEF LoadNote, Give_up
  <2> QED
    BY <1>s, <2>2, <2>3 DEF ElfInv, ElfTypeOK
<1>2. CASE NoteMissing
  BY <1>s, <1>2 DEF NoteMissing, Give_up, ElfInv, ElfTypeOK, NoteInside
<1>3. CASE \E entry \in EntryPoints : ElfHeader(entry)
  BY <1>s, <1>3 DEF ElfHeader, Give_up, ElfInv, ElfTypeOK, NoteInside
<1>4. CASE \E h \in Phdrs : SkipPhdr(h) \/ RefusePhdr(h)
  <2>1. PICK h \in Phdrs : SkipPhdr(h) \/ RefusePhdr(h)
    BY <1>4
  <2>2. CASE SkipPhdr(h)
    BY <1>s, <2>2, ElfAssumption DEF SkipPhdr, ElfInv, ElfTypeOK, NoteInside
  <2>3. CASE RefusePhdr(h)
    BY <1>s, <2>3 DEF RefusePhdr, Give_up, ElfInv, ElfTypeOK, NoteInside
  <2> QED
    BY <2>1, <2>2, <2>3
<1>5. CASE \E h \in Phdrs : LoadPhdr(h)
  BY <1>5, LoadStepInv
<1>6. CASE LoadDone
  BY <1>s, <1>6 DEF LoadDone, ElfInv, ElfTypeOK, NoteInside
<1>7. CASE ElfStopped \/ UNCHANGED elfVars
  BY <1>s, <1>7 DEF ElfStopped, elfVars, ElfInv, ElfTypeOK, NoteInside
<1> QED
  BY <1>1, <1>2, <1>3, <1>4, <1>5, <1>6, <1>7 DEF ElfNext

(* Whatever the program headers say, elf_load() writes only to the part of *)
(* guest memory meant for the program.                                     *)
THEOREM Confined == ElfSpec => []LoadConfined
<1>1. ElfInv => LoadConfined
  BY DEF ElfInv
<1> QED
  BY <1>1, ElfInitInv, ElfNextInv, PTL DEF ElfSpec

(* elf_load() leaves every segment loaded as its header asks: contents and *)
(* BSS, below the end of the program, and all its pages protected as       *)
(* hvt_guest_mprotect() protects them, none of them executable.            *)
THEOREM Segments == ElfSpec => []SegmentsKept
<1>1. ElfInv => SegmentsKept
  <2>1. \A flags : /\ "W" \in hvt_guest_mprotect(flags) <=> "W" \in flags
                   /\ "R" \in hvt_guest_mprotect(flags) <=> flags \cap {"R", "X"} # {}
                   /\ "X" \notin hvt_guest_mprotect(flags)
    BY DEF hvt_guest_mprotect
  <2> QED
    BY <2>1 DEF ElfInv, SegmentsKept, Kept
<1> QED
  BY <1>1, ElfInitInv, ElfNextInv, PTL DEF ElfSpec

(* elf_load_note() reads a note from the bytes of its program header,      *)
(* although the size it computes may wrap around.                          *)
THEOREM Notes == ElfSpec => []NoteInside
<1>1. ElfInv => NoteInside
  BY DEF ElfInv
<1> QED
  BY <1>1, ElfInitInv, ElfNextInv, PTL DEF ElfSpec

-----------------------------------------------------------------------------
(* The clock and solo5_yield().                                            *)

(* The divisor of mul64_32().                                              *)
P == 2 ^ tsc_shift

(* The multiplier is the exact rate, rounded down: at most a unit less.    *)
RateInv ==
    /\ clk = "scale" => tsc_shift > 0 /\ tsc_mult = 0
    /\ clk = "base" => tsc_base = 0 /\ time_base = 0 /\ reads = 0
    /\ clk = "running" => tsc_mult # 0
    /\ tsc_mult # 0 =>
          /\ tsc_mult * freq <= NsecPerSec * P
          /\ NsecPerSec * P < (tsc_mult + 1) * freq

TscInv ==
    /\ TscTypeOK /\ RateInv /\ ClockNeverAhead /\ ClockLossBounded
    /\ clk = "scale" => tsc_base = 0 /\ time_base = 0 /\ reads = 0

(* The invariant holds before tscclock_init().                             *)
LEMMA TscInitInv == TscInit => TscInv
BY ClockAssumption DEF TscInit, TscInv, TscTypeOK, RateInv, ClockNeverAhead, ClockLossBounded

(* Every tick, every round of the loop and every call keeps it.            *)
LEMMA TscNextInv == TscInv /\ [TscNext]_tscVars => TscInv'
<1> SUFFICES ASSUME TscInv, [TscNext]_tscVars PROVE TscInv'
  OBVIOUS
<1> USE DEF TscInv
<1>t. /\ freq \in Nat \ {0} /\ NsecPerSec \in Nat \ {0} /\ MultLimit \in Nat
      /\ P \in Nat \ {0} /\ tsc \in Nat /\ tsc_mult \in Nat
      /\ tsc_base \in Nat /\ time_base \in Nat /\ reads \in Nat
  BY ClockAssumption, PowerAssumption DEF TscTypeOK, P
<1>1. CASE Tick
  BY <1>1, <1>t DEF Tick, TscTypeOK, RateInv, ClockNeverAhead, ClockLossBounded, P
<1>2. CASE Scale
  <2> DEFINE tmp == (NsecPerSec * P) \div freq
  <2>1. NsecPerSec * P \in Nat
    BY <1>t
  <2>2. tmp \in Nat /\ tmp * freq <= NsecPerSec * P /\ NsecPerSec * P < (tmp + 1) * freq
    BY <1>t, <2>1, Quotient
  <2>3. /\ tsc_mult' = IF tmp < MultLimit THEN tmp ELSE tsc_mult
        /\ tsc_shift' = IF tmp < MultLimit THEN tsc_shift ELSE tsc_shift - 1
        /\ clk' = IF tsc_shift' > 0 /\ tsc_mult' = 0 THEN "scale" ELSE "base"
        /\ UNCHANGED <<freq, tsc, tsc_base, time_base, reads>>
    BY <1>2 DEF Scale, Fits, P
  <2> HIDE DEF tmp
  <2>4. /\ tsc_shift \in 0 .. MaxShift /\ tsc_shift > 0 /\ tsc_mult = 0 /\ MaxShift \in Nat
        /\ tsc_base = 0 /\ time_base = 0 /\ reads = 0
    BY <1>2, ClockAssumption DEF Scale, TscTypeOK, RateInv
  <2>5. TscTypeOK'
    BY <2>2, <2>3, <2>4 DEF TscTypeOK
  <2>6. tsc_mult' # 0 => tmp < MultLimit /\ tsc_mult' = tmp /\ tsc_shift' = tsc_shift
    BY <2>3, <2>4
  <2>7. tsc_mult' # 0 => P' = P
    BY <2>6 DEF P
  <2>8. RateInv'
    <3>1. tsc_mult' # 0 => /\ tsc_mult' * freq' <= NsecPerSec * P'
                           /\ NsecPerSec * P' < (tsc_mult' + 1) * freq'
      BY <2>2, <2>3, <2>6, <2>7
    <3>2. clk' = "scale" => tsc_shift' > 0 /\ tsc_mult' = 0
      BY <2>3
    <3>3. clk' # "running" /\ tsc_base' = 0 /\ time_base' = 0 /\ reads' = 0
      BY <2>3, <2>4
    <3> QED
      BY <3>1, <3>2, <3>3 DEF RateInv
  <2> QED
    BY <2>3, <2>4, <2>5, <2>8 DEF ClockNeverAhead, ClockLossBounded
<1>3. CASE Base
  <2>0. UNCHANGED <<freq, tsc, tsc_shift, tsc_mult, reads>> /\ P' = P /\ reads = 0 /\ clk = "base"
    BY <1>3 DEF Base, P, RateInv
  <2>1. CASE tsc_mult = 0
    BY <1>3, <2>0, <2>1 DEF Base, TscTypeOK, RateInv, ClockNeverAhead, ClockLossBounded
  <2>2. CASE tsc_mult # 0
    <3> DEFINE q == (tsc * tsc_mult) \div P
    <3>1. clk' = "running" /\ tsc_base' = tsc /\ time_base' = q
      BY <1>3, <2>2 DEF Base, mul64_32, P
    <3>2. q \in Nat /\ q * freq <= tsc * NsecPerSec
          /\ tsc * NsecPerSec * P <= freq * ((q + 1) * P + tsc)
      BY <1>t, <2>2, Converted DEF RateInv
    <3> HIDE DEF q
    <3>3. TscTypeOK' /\ RateInv'
      BY <1>t, <2>0, <2>2, <3>1, <3>2 DEF TscTypeOK, RateInv
    <3>4. ClockNeverAhead'
      BY <1>t, <2>0, <3>1, <3>2 DEF ClockNeverAhead
    <3>5. ClockLossBounded'
      <4>1. (time_base' + reads' + 1) = q + 1
        BY <2>0, <3>1, <3>2
      <4> QED
        BY <4>1, <2>0, <3>1, <3>2 DEF ClockLossBounded, P
    <3> QED
      BY <3>1, <3>3, <3>4, <3>5
  <2> QED
    BY <2>1, <2>2
<1>4. CASE tscclock_monotonic
  <2> DEFINE d == tsc - tsc_base
             q == (d * tsc_mult) \div P
  <2>0. /\ UNCHANGED <<freq, tsc, clk, tsc_shift, tsc_mult>> /\ P' = P /\ clk = "running"
        /\ time_base' = time_base + q /\ tsc_base' = tsc
        /\ reads' = IF tsc # tsc_base THEN reads + 1 ELSE reads
    BY <1>4 DEF tscclock_monotonic, mul64_32, P
  <2>1. d \in Nat /\ tsc_mult # 0 /\ tsc = tsc_base + d
    BY <1>t, <2>0 DEF ClockNeverAhead, RateInv
  <2>2. q \in Nat /\ q * freq <= d * NsecPerSec
        /\ d * NsecPerSec * P <= freq * ((q + 1) * P + d)
    <3> HIDE DEF d
    <3> QED
      BY <1>t, <2>1, Converted DEF RateInv
  <2> HIDE DEF q
  <2>3. TscTypeOK' /\ RateInv'
    BY <1>t, <2>0, <2>1, <2>2 DEF TscTypeOK, RateInv
  <2>4. time_base * freq <= tsc_base * NsecPerSec
        /\ tsc_base * NsecPerSec * P <= freq * ((time_base + reads + 1) * P + tsc_base)
    BY <2>0 DEF ClockNeverAhead, ClockLossBounded, P
  <2> HIDE DEF d
  <2>5. (time_base + q) * freq <= (tsc_base + d) * NsecPerSec
        /\ (tsc_base + d) * NsecPerSec * P
             <= freq * ((time_base + q + (reads + 1) + 1) * P + (tsc_base + d))
    <3>1. reads + 1 \in Nat /\ time_base + reads + 1 = time_base + (reads + 1)
          /\ time_base + q + (reads + 1) + 1 = time_base + q + ((reads + 1) + 1)
      BY <1>t, <2>2
    <3> QED
      BY <1>t, <2>1, <2>2, <2>4, <3>1, Advanced
  <2>6. ClockNeverAhead'
    BY <1>t, <2>0, <2>1, <2>5 DEF ClockNeverAhead
  <2>7. ClockLossBounded'
    <3>1. CASE tsc # tsc_base
      BY <2>0, <2>1, <2>5, <3>1 DEF ClockLossBounded, P
    <3>2. CASE tsc = tsc_base
      <4>1. d = 0
        BY <1>t, <3>2 DEF d
      <4>2. q = 0
        <5>1. d * tsc_mult = 0
          BY <4>1, <1>t
        <5> QED
          BY <5>1, <1>t DEF q
      <4>3. time_base' = time_base /\ tsc_base' = tsc_base /\ reads' = reads
        BY <1>t, <2>0, <3>2, <4>2
      <4> QED
        BY <2>0, <4>3 DEF ClockLossBounded
    <3> QED
      BY <3>1, <3>2
  <2> QED
    BY <2>0, <2>3, <2>6, <2>7
<1>5. CASE UNCHANGED tscVars
  BY <1>5 DEF tscVars, TscTypeOK, RateInv, ClockNeverAhead, ClockLossBounded, P
<1> QED
  BY <1>1, <1>2, <1>3, <1>4, <1>5 DEF TscNext

(* The clock of the hvt bindings never runs ahead of the TSC it is derived *)
(* from: tscclock_monotonic() rounds down at every call.                   *)
THEOREM NeverAhead == TscSpec => []ClockNeverAhead
<1>1. TscInv => ClockNeverAhead
  BY DEF TscInv
<1> QED
  BY <1>1, TscInitInv, TscNextInv, PTL DEF TscSpec

(* What the clock of the hvt bindings loses to the rounding of its         *)
(* multiplier and of every call is bounded.                                *)
THEOREM LossBounded == TscSpec => []ClockLossBounded
<1>1. TscInv => ClockLossBounded
  BY DEF TscInv
<1> QED
  BY <1>1, TscInitInv, TscNextInv, PTL DEF TscSpec

(* The clock of the hvt bindings never goes back.                          *)
THEOREM Monotone == TscSpec => ClockMonotone
<1>1. TscInv /\ [TscNext]_tscVars => [time_base' >= time_base]_tscVars
  <2> SUFFICES ASSUME TscInv, TscNext PROVE time_base' >= time_base
    OBVIOUS
  <2> USE DEF TscInv
  <2>t. /\ freq \in Nat \ {0} /\ P \in Nat \ {0} /\ tsc \in Nat /\ tsc_mult \in Nat
        /\ tsc_base \in Nat /\ time_base \in Nat
    BY ClockAssumption, PowerAssumption DEF TscTypeOK, P
  <2>1. CASE Tick \/ Scale
    BY <2>1, <2>t DEF Tick, Scale
  <2>2. CASE Base
    <3>1. TscInv'
      BY <2>2, TscNextInv DEF TscNext
    <3>2. time_base = 0 /\ time_base' \in Nat
      BY <2>2, <3>1 DEF Base, RateInv, TscTypeOK
    <3> QED
      BY <3>2
  <2>3. CASE tscclock_monotonic
    <3>1. (tsc - tsc_base) * tsc_mult \in Nat
      BY <2>3, <2>t DEF tscclock_monotonic, ClockNeverAhead
    <3>2. mul64_32(tsc - tsc_base) \in Nat
      BY <2>t, <3>1, Quotient DEF mul64_32, P
    <3> QED
      BY <2>3, <2>t, <3>2 DEF tscclock_monotonic
  <2> QED
    BY <2>1, <2>2, <2>3 DEF TscNext
<1> QED
  BY <1>1, TscInitInv, TscNextInv, PTL DEF TscSpec, ClockMonotone

-----------------------------------------------------------------------------
(* solo5_yield().                                                          *)

(* The time of the host when the TSC is t.                                 *)
HostTime(t) == (t * NsecPerSec) \div freq

(* While a call runs, what was readable stays so; the tender is to wait    *)
(* from the moment the guest read its clock; the timer is set, and not     *)
(* earlier.                                                                *)
WaitInv ==
    /\ WaitTypeOK /\ mft \in Manifests
    /\ yield \in {"clock", "arm", "wait"} => atCall \subseteq Readable
    /\ yield = "clock" => clk = "running" /\ target # "spt"
    /\ yield \in {"arm", "wait", "done"} =>
          /\ target = "spt" => due = deadline
          /\ target # "spt" => /\ clk = "running" /\ timeout_nsecs = TimeLeft(time_base)
                               /\ due = HostTime(tsc_base) + timeout_nsecs
    /\ yield = "wait" => timer \in Nat /\ timer >= due
    /\ YieldReportsReady /\ YieldNotEarly

(* The host's time is a number that grows with the TSC.                    *)
LEMMA HostTimeGrows ==
    ASSUME freq \in Nat \ {0}, NEW t \in Nat, NEW u \in Nat, t <= u
    PROVE  HostTime(t) \in Nat /\ HostTime(u) \in Nat /\ HostTime(t) <= HostTime(u)
<1>1. t * NsecPerSec \in Nat /\ u * NsecPerSec \in Nat /\ t * NsecPerSec <= u * NsecPerSec
  BY Scaled, ClockAssumption
<1> QED
  BY <1>1, QuotientGrows, Quotient DEF HostTime

LEMMA NonZeroMore == \A n \in Nat : NonZero(n) \in Nat /\ NonZero(n) >= n /\ NonZero(n) # 0
BY DEF NonZero

(* The queue of events has room for every tap and the timer.               *)
LEMMA AllReported ==
    ASSUME NEW events, NEW reported \in SUBSET events, mft \in Manifests,
           events \subseteq Readable \cup (IF target = "hvt_bsd" THEN {} ELSE {Timer}),
           Cardinality(reported) = Min({Cardinality(events), nevents})
    PROVE  reported = events
<1>1. IsFiniteSet(Taps) /\ Cardinality(Taps) \in Nat /\ Timer \notin Taps
  <2>1. Taps \subseteq DOMAIN mft /\ IsFiniteSet(DOMAIN mft) /\ Timer \notin DOMAIN mft
    BY WaitAssumption DEF Taps, Entries
  <2> QED
    BY <2>1, FS_Subset, FS_CardinalityType
<1>2. Readable \subseteq Taps
  BY DEF Readable
<1>3. IsFiniteSet(events) /\ Cardinality(events) \in Nat /\ Cardinality(events) <= nevents
  <2>1. CASE target = "hvt_bsd"
    <3>1. events \subseteq Taps
      BY <1>2, <2>1
    <3>2. IsFiniteSet(events) /\ Cardinality(events) <= Cardinality(Taps) /\ Cardinality(events) \in Nat
      BY <1>1, <3>1, FS_Subset, FS_CardinalityType
    <3>3. Taps = {} => Cardinality(events) = 0
      BY <3>1, FS_EmptySet
    <3> QED
      BY <1>1, <2>1, <3>2, <3>3 DEF nevents
  <2>2. CASE target # "hvt_bsd"
    <3>1. events \subseteq Taps \cup {Timer}
      BY <1>2, <2>2
    <3>2. IsFiniteSet(Taps \cup {Timer}) /\ Cardinality(Taps \cup {Timer}) = Cardinality(Taps) + 1
      BY <1>1, FS_AddElement
    <3>3. IsFiniteSet(events) /\ Cardinality(events) <= Cardinality(Taps) + 1 /\ Cardinality(events) \in Nat
      BY <3>1, <3>2, FS_Subset, FS_CardinalityType
    <3>4. Taps = {} => Cardinality(Taps) = 0
      BY FS_EmptySet
    <3> QED
      BY <1>1, <2>2, <3>3, <3>4 DEF nevents
  <2> QED
    BY <2>1, <2>2
<1>4. nevents \in Int
  BY <1>1 DEF nevents
<1>5. Min({Cardinality(events), nevents}) = Cardinality(events)
  <2>1. \A a, b \in Int : a <= b => Min({a, b}) = a
    BY DEF Min
  <2> QED
    BY <1>3, <1>4, <2>1
<1> QED
  BY <1>3, <1>5, FS_Subset

LEMMA WaitInitInv == MftInit /\ TscInit /\ WaitInit => WaitInv
<1> SUFFICES ASSUME MftInit, WaitInit PROVE WaitInv
  OBVIOUS
<1>1. [h \in Taps |-> 0] \in [Taps -> 0 .. MaxPackets]
  BY WaitAssumption
<1>2. WaitTypeOK
  BY <1>1, Zenon DEF WaitInit, WaitTypeOK
<1> QED
  BY <1>2 DEF MftInit, WaitInit, WaitInv, YieldReportsReady, YieldNotEarly

(* What the provers need of the clock.                                     *)
LEMMA ClockFacts ==
    ASSUME TscInv
    PROVE  /\ freq \in Nat \ {0} /\ tsc \in Nat /\ tsc_base \in Nat /\ time_base \in Nat
           /\ HostNow = HostTime(tsc) /\ HostNow \in Nat /\ HostTime(tsc_base) \in Nat
           /\ clk = "running" => HostTime(tsc_base) <= HostNow
<1>1. freq \in Nat \ {0} /\ tsc \in Nat /\ tsc_base \in Nat /\ time_base \in Nat
      /\ (clk = "running" => tsc_base <= tsc)
  BY ClockAssumption DEF TscInv, TscTypeOK, ClockNeverAhead
<1>2. HostNow = HostTime(tsc)
  BY DEF HostNow, HostTime
<1>3. HostTime(tsc) \in Nat /\ HostTime(tsc_base) \in Nat
  BY <1>1, HostTimeGrows
<1>4. clk = "running" => HostTime(tsc_base) <= HostTime(tsc)
  BY <1>1, HostTimeGrows
<1> QED
  BY <1>1, <1>2, <1>3, <1>4

LEMMA WaitNextInv ==
    ASSUME WaitInv, TscInv, WaitNext, UNCHANGED <<target, mft>>
    PROVE  WaitInv'
<1>f. /\ freq \in Nat \ {0} /\ tsc \in Nat /\ tsc_base \in Nat /\ time_base \in Nat
      /\ HostNow = HostTime(tsc) /\ HostNow \in Nat /\ HostTime(tsc_base) \in Nat
      /\ clk = "running" => HostTime(tsc_base) <= HostNow
  BY ClockFacts
<1>t. Taps' = Taps
  BY DEF Taps, Entries
<1>1. CASE TimePasses
  <2>1. UNCHANGED <<waitVars, freq, clk, tsc_base, time_base>> /\ tsc' = tsc + 1
    BY <1>1 DEF TimePasses, Tick
  <2>2. HostNow' \in Nat /\ HostNow' >= HostNow
    <3>1. HostTime(tsc + 1) >= HostTime(tsc) /\ HostTime(tsc + 1) \in Nat /\ HostTime(tsc) \in Nat
      BY <1>f, HostTimeGrows
    <3>2. HostNow' = HostTime(tsc + 1)
      BY <2>1 DEF HostNow, HostTime
    <3> QED
      BY <1>f, <3>1, <3>2
  <2>3. YieldNotEarly'
    BY <1>f, <2>1, <2>2 DEF WaitInv, WaitTypeOK, YieldNotEarly, waitVars, waitCall
  <2> QED
    BY <1>t, <2>1, <2>3 DEF WaitInv, WaitTypeOK, YieldReportsReady, waitVars, waitCall, Readable,
          HostTime, TimeLeft
<1>2. CASE target # "spt" /\ (Scale \/ Base) /\ UNCHANGED waitVars
  <2>1. clk \in {"scale", "base"} /\ UNCHANGED <<waitVars, freq, tsc>>
    BY <1>2 DEF Scale, Base
  <2>2. yield \notin {"clock", "arm", "wait", "done"}
    BY <1>2, <2>1 DEF WaitInv
  <2> QED
    BY <1>t, <2>1, <2>2 DEF WaitInv, WaitTypeOK, YieldReportsReady, YieldNotEarly, waitVars, waitCall
<1>3. CASE \E h \in Taps : PacketArrives(h)
  <2>1. PICK h \in Taps : PacketArrives(h)
    BY <1>3
  <2>2. /\ tap' = [tap EXCEPT ![h] = @ + 1] /\ tap[h] < MaxPackets /\ UNCHANGED <<timer, waitCall, tscVars>>
    BY <2>1 DEF PacketArrives
  <2>3. tap \in [Taps -> 0 .. MaxPackets]
    BY DEF WaitInv, WaitTypeOK
  <2>4. tap' \in [Taps -> 0 .. MaxPackets] /\ Readable \subseteq Readable'
    BY <1>t, <2>2, <2>3, WaitAssumption DEF Readable
  <2>5. WaitTypeOK' /\ mft' \in Manifests
    BY <1>t, <2>2, <2>4 DEF WaitInv, WaitTypeOK, waitCall
  <2>6. YieldReportsReady'
    BY <2>2, <2>4 DEF WaitInv, YieldReportsReady, waitCall
  <2>7. YieldNotEarly'
    BY <2>2 DEF WaitInv, YieldNotEarly, waitCall, tscVars, HostNow
  <2> QED
    BY <2>2, <2>4, <2>5, <2>6, <2>7 DEF WaitInv, waitCall, tscVars, HostTime, TimeLeft
<1>4. CASE \E d \in Deadlines : YieldCall(d)
  <2>1. PICK d \in Deadlines : YieldCall(d)
    BY <1>4
  <2>2. d \in Nat /\ Readable' = Readable /\ Readable \subseteq Taps
    BY <1>t, <2>1, WaitAssumption DEF YieldCall, Readable
  <2>3. WaitTypeOK'
    BY <1>t, <2>1, <2>2, Zenon DEF WaitInv, WaitTypeOK, YieldCall
  <2>4. yield' \in {"arm", "clock"} /\ atCall' = Readable /\ UNCHANGED <<tscVars, timer>>
        /\ (yield' = "arm" => target = "spt" /\ due' = d /\ deadline' = d)
        /\ (yield' = "clock" => clk = "running" /\ target # "spt")
    BY <2>1 DEF YieldCall
  <2> QED
    BY <2>2, <2>3, <2>4 DEF WaitInv, YieldReportsReady, YieldNotEarly, tscVars
<1>5. CASE YieldClock
  <2>1. /\ yield = "clock" /\ yield' = "arm" /\ UNCHANGED <<tap, timer, deadline, ready_set, atCall, interrupted>>
        /\ UNCHANGED <<freq, tsc, clk>> /\ tsc_base' = tsc /\ timeout_nsecs' = TimeLeft(time_base')
        /\ due' = HostNow + timeout_nsecs'
    BY <1>5 DEF YieldClock, tscclock_monotonic
  <2>2. time_base' \in Nat
    BY <1>5, TscNextInv DEF YieldClock, TscNext, TscInv, TscTypeOK
  <2>3. deadline \in Nat
    BY WaitAssumption DEF WaitInv, WaitTypeOK
  <2>4. timeout_nsecs' \in Nat
    <3>1. \A n \in Nat : TimeLeft(n) \in Nat
      BY <2>3 DEF TimeLeft
    <3> QED
      BY <2>1, <2>2, <3>1
  <2>5. WaitTypeOK'
    BY <1>f, <1>t, <2>1, <2>4 DEF WaitInv, WaitTypeOK
  <2>6. atCall' \subseteq Readable'
    BY <1>t, <2>1 DEF WaitInv, Readable
  <2>7. timeout_nsecs' = TimeLeft(time_base)' /\ due' = HostTime(tsc_base)' + timeout_nsecs'
    BY <1>f, <2>1 DEF TimeLeft, HostTime
  <2>8. clk' = "running" /\ target' # "spt"
    BY <2>1 DEF WaitInv
  <2> QED
    BY <2>1, <2>5, <2>6, <2>7, <2>8 DEF WaitInv, YieldReportsReady, YieldNotEarly
<1>6. CASE Arm
  <2>0. deadline \in Nat /\ timeout_nsecs \in Nat /\ due \in Nat
    BY WaitAssumption DEF WaitInv, WaitTypeOK
  <2>1. /\ yield = "arm" /\ yield' = "wait"
        /\ UNCHANGED <<tap, deadline, timeout_nsecs, ready_set, atCall, due, interrupted, tscVars>>
    BY <1>6 DEF Arm
  <2>2. timer' \in Nat /\ timer' >= due
    <3>1. CASE target = "hvt"
      <4>1. timer' = HostNow + NonZero(timeout_nsecs)
        BY <1>6, <2>0, <3>1, NonZeroMore DEF Arm, SetTime
      <4>2. due = HostTime(tsc_base) + timeout_nsecs /\ clk = "running"
        BY <2>1, <3>1 DEF WaitInv
      <4> QED
        BY <1>f, <2>0, <4>1, <4>2, NonZeroMore
    <3>2. CASE target = "spt"
      <4>1. timer' = NonZero(deadline)
        BY <1>6, <2>0, <3>2, NonZeroMore DEF Arm, SetTime
      <4>2. due = deadline
        BY <2>1, <3>2 DEF WaitInv
      <4> QED
        BY <2>0, <4>1, <4>2, NonZeroMore
    <3>3. CASE target \notin {"hvt", "spt"}
      <4>1. timer' = HostNow + timeout_nsecs
        BY <1>6, <3>3 DEF Arm
      <4>2. due = HostTime(tsc_base) + timeout_nsecs /\ clk = "running"
        BY <2>1, <3>3 DEF WaitInv
      <4> QED
        BY <1>f, <2>0, <4>1, <4>2
    <3> QED
      BY <3>1, <3>2, <3>3
  <2>3. WaitTypeOK'
    BY <1>t, <2>1, <2>2 DEF WaitInv, WaitTypeOK
  <2>4. atCall' \subseteq Readable'
    BY <1>t, <2>1 DEF WaitInv, Readable
  <2> QED
    BY <2>1, <2>2, <2>3, <2>4 DEF WaitInv, YieldReportsReady, YieldNotEarly, tscVars, HostTime, TimeLeft
<1>7. CASE WaitEnds
  <2> DEFINE events == Readable \cup (IF TimerReadable /\ target # "hvt_bsd" THEN {Timer} ELSE {})
  <2>1. /\ yield = "wait" /\ yield' = "done" /\ (events # {} \/ TimerReadable)
        /\ UNCHANGED <<tap, timer, deadline, timeout_nsecs, atCall, due, interrupted, tscVars>>
    BY <1>7 DEF WaitEnds
  <2>2. PICK reported \in SUBSET events :
             /\ Cardinality(reported) = Min({Cardinality(events), nevents})
             /\ ready_set' = reported \ {Timer}
    BY <1>7 DEF WaitEnds
  <2>3. reported = events
    BY <2>2, AllReported DEF WaitInv
  <2>4. Timer \notin Taps
    BY WaitAssumption DEF WaitInv, Taps, Entries
  <2>5. ready_set' = Readable
    BY <2>2, <2>3, <2>4 DEF Readable
  <2>6. Readable' = Readable /\ Readable \subseteq Taps /\ HostNow' = HostNow
    BY <1>t, <2>1 DEF Readable, HostNow, tscVars
  <2>7. WaitTypeOK'
    BY <1>t, <2>1, <2>5, <2>6 DEF WaitInv, WaitTypeOK
  <2>8. YieldReportsReady'
    BY <2>1, <2>5, <2>6 DEF WaitInv, YieldReportsReady
  <2>9. YieldNotEarly'
    <3>1. due \in Nat /\ timer \in Nat /\ timer >= due
      BY <2>1 DEF WaitInv, WaitTypeOK
    <3>2. ready_set' = {} => TimerReadable
      BY <2>1, <2>5
    <3>3. TimerReadable => HostNow >= timer
      BY DEF TimerReadable
    <3> QED
      BY <1>f, <2>1, <2>6, <3>1, <3>2, <3>3 DEF YieldNotEarly
  <2> QED
    BY <2>1, <2>7, <2>8, <2>9 DEF WaitInv, tscVars, HostTime, TimeLeft
<1>8. CASE KeventInterrupted
  BY <1>8, <1>t DEF KeventInterrupted, WaitInv, WaitTypeOK, YieldReportsReady, YieldNotEarly, tscVars,
        HostTime, TimeLeft
<1>9. CASE YieldReturn
  BY <1>9, <1>t, Zenon DEF YieldReturn, WaitInv, WaitTypeOK, YieldReportsReady, YieldNotEarly
<1>10. CASE Exit \/ Exited
  BY <1>10, <1>t DEF Exit, Exited, WaitInv, WaitTypeOK, YieldReportsReady, YieldNotEarly, waitVars, waitCall
<1>11. CASE \E h \in DOMAIN mft : solo5_net_read(h)
  <2>1. PICK h \in DOMAIN mft : solo5_net_read(h)
    BY <1>11
  <2>2. /\ tap' = [tap EXCEPT ![h] = @ - 1] /\ tap[h] > 0 /\ h \in Taps
        /\ yield = "app" /\ UNCHANGED <<timer, waitCall, tscVars>>
    BY <2>1 DEF solo5_net_read, mft_get_by_index, Taps, Entries
  <2>3. tap \in [Taps -> 0 .. MaxPackets]
    BY DEF WaitInv, WaitTypeOK
  <2>4. tap' \in [Taps -> 0 .. MaxPackets]
    BY <2>2, <2>3, WaitAssumption
  <2> QED
    BY <1>t, <2>2, <2>4 DEF WaitInv, WaitTypeOK, waitCall, YieldReportsReady, YieldNotEarly
<1> QED
  BY <1>1, <1>2, <1>3, <1>4, <1>5, <1>6, <1>7, <1>8, <1>9, <1>10, <1>11 DEF WaitNext

(* The ticks in which the host's time grows by D nanoseconds are worth     *)
(* more than D - 1 of them.                                                *)
LEMMA Elapsed ==
    ASSUME NEW t \in Nat, NEW d \in Nat, NEW A \in Nat, NEW B \in Nat, NEW D \in Nat,
           NEW f \in Nat \ {0}, NEW n \in Nat,
           A * f <= (t + d) * n, t * n < (B + 1) * f, A >= B + D
    PROVE  D * f < d * n + f
<1>1. (B + D) * f <= A * f
  BY Scaled, B + D \in Nat
<1>2. (B + D) * f = B * f + D * f /\ (t + d) * n = t * n + d * n /\ (B + 1) * f = B * f + f
  OBVIOUS
<1>3. B * f \in Nat /\ D * f \in Nat /\ A * f \in Nat /\ t * n \in Nat /\ d * n \in Nat
  OBVIOUS
<1> QED
  BY <1>1, <1>2, <1>3

(* A clock that converts those ticks is short of D by less than two        *)
(* nanoseconds and the rounding of the multiplier.                         *)
LEMMA Short ==
    ASSUME NEW d \in Nat, NEW D \in Nat, NEW q \in Nat,
           NEW p \in Nat \ {0}, NEW f \in Nat \ {0}, NEW n \in Nat,
           D * f < d * n + f, d * n * p <= f * ((q + 1) * p + d)
    PROVE  (D - q) * p < 2 * p + d
<1>1. (D * f + 1) * p <= (d * n + f) * p
  BY Scaled, D * f + 1 \in Nat, d * n + f \in Nat
<1>2. (D * f + 1) * p = (D * p) * f + p /\ (d * n + f) * p = d * n * p + f * p
  OBVIOUS
<1>3. f * ((q + 1) * p + d) + f * p = ((q + 2) * p + d) * f
  OBVIOUS
<1>4. (D * p) * f \in Nat /\ d * n * p \in Nat /\ f * p \in Nat
      /\ f * ((q + 1) * p + d) \in Nat /\ ((q + 2) * p + d) * f \in Nat
  OBVIOUS
<1>5. (D * p) * f < ((q + 2) * p + d) * f
  BY <1>1, <1>2, <1>3, <1>4
<1>6. D * p < (q + 2) * p + d
  <2>1. D * p \in Nat /\ (q + 2) * p + d \in Nat
    OBVIOUS
  <2>2. (q + 2) * p + d <= D * p => ((q + 2) * p + d) * f <= (D * p) * f
    BY <2>1, Scaled
  <2> QED
    BY <1>4, <1>5, <2>1, <2>2
<1>7. (D - q) * p = D * p - q * p /\ (q + 2) * p = q * p + 2 * p /\ q * p \in Nat /\ D * p \in Nat
  OBVIOUS
<1> QED
  BY <1>6, <1>7

(* The calls that have waited reach the deadline but for the roundings.    *)
LEMMA WaitedLongEnough == WaitInv /\ TscInv => DeadlineAlmostReached
<1> SUFFICES ASSUME WaitInv, TscInv, yield = "done", ready_set = {}, ~interrupted, target # "spt"
             PROVE  (deadline - time_base - mul64_32(tsc - tsc_base)) * P < 2 * P + (tsc - tsc_base)
  BY DEF DeadlineAlmostReached, P
<1>t. /\ freq \in Nat \ {0} /\ NsecPerSec \in Nat \ {0} /\ P \in Nat \ {0}
      /\ tsc \in Nat /\ tsc_mult \in Nat /\ tsc_base \in Nat /\ time_base \in Nat /\ deadline \in Nat
  BY ClockAssumption, PowerAssumption, WaitAssumption DEF TscInv, TscTypeOK, P, WaitInv, WaitTypeOK
<1>1. /\ HostNow >= due /\ clk = "running" /\ timeout_nsecs = TimeLeft(time_base)
      /\ due = HostTime(tsc_base) + timeout_nsecs
  BY DEF WaitInv, YieldNotEarly
<1> DEFINE d == tsc - tsc_base
           q == (d * tsc_mult) \div P
<1>2. d \in Nat /\ tsc = tsc_base + d /\ tsc_mult # 0
  BY <1>t, <1>1 DEF TscInv, ClockNeverAhead, RateInv
<1>3. mul64_32(tsc - tsc_base) = q
  BY DEF mul64_32, P
<1> HIDE DEF d
<1>4. q \in Nat /\ d * NsecPerSec * P <= freq * ((q + 1) * P + d)
  BY <1>t, <1>2, Converted DEF TscInv, RateInv
<1> HIDE DEF q
<1>5. CASE deadline <= time_base
  <2>1. PICK e \in Nat : time_base + q - deadline = e
    BY <1>t, <1>4, <1>5
  <2>2. (deadline - time_base - q) * P = -(e * P) /\ e * P \in Nat
    <3>1. deadline - time_base - q = -e
      BY <1>t, <1>4, <2>1
    <3> QED
      BY <1>t, <3>1
  <2> QED
    BY <1>t, <1>2, <1>3, <2>2 DEF d
<1>6. CASE deadline > time_base
  <2> DEFINE D == deadline - time_base
             A == HostTime(tsc)
             B == HostTime(tsc_base)
  <2>1. D \in Nat /\ timeout_nsecs = D
    BY <1>t, <1>1, <1>6 DEF TimeLeft
  <2>2. A \in Nat /\ A * freq <= tsc * NsecPerSec
    BY <1>t, Quotient, tsc * NsecPerSec \in Nat DEF HostTime
  <2>3. B \in Nat /\ tsc_base * NsecPerSec < (B + 1) * freq
    BY <1>t, Quotient, tsc_base * NsecPerSec \in Nat DEF HostTime
  <2>4. A >= B + D
    BY <1>1, <2>1, ClockFacts
  <2> HIDE DEF D, A, B
  <2>5. D * freq < d * NsecPerSec + freq
    BY <1>t, <1>2, <2>1, <2>2, <2>3, <2>4, Elapsed
  <2>6. (D - q) * P < 2 * P + d
    BY <1>t, <1>2, <1>4, <2>1, <2>5, Short
  <2> QED
    BY <1>3, <2>6 DEF D, d
<1> QED
  BY <1>t, <1>5, <1>6

(* What solo5_yield() promises follows.                                    *)
LEMMA WaitKept == WaitInv /\ TscInv => WaitTypeOK /\ YieldKept
BY WaitedLongEnough DEF WaitInv, YieldKept

=============================================================================
