------------------------------ MODULE ElfLoad ------------------------------
(***************************************************************************)
(* elf_load_note() and elf_load(): how a tender reads its notes out of the *)
(* executable and loads the executable into guest memory, one step per     *)
(* program header.  The executable is untrusted, so that a step meets any  *)
(* header of the sets given as constants; they are words 0 .. ElfWord-1.   *)
(*                                                                         *)
(* elf_mem[a] says what was last put at byte a: i for file contents of the *)
(* i-th header, -i for zeroes of its BSS, 0 if loading has not touched it. *)
(* prot is what the host's page tables allow the hvt tender on KVM.        *)
(***************************************************************************)
EXTENDS Integers, FiniteSets

CONSTANTS
    ElfWord,                                  \* 2^64 in the code
    PageSize, MinLoadAddr, MemSize,           \* EM_PAGE_SIZE, *_GUEST_MIN_BASE
    EntryPoints,                              \* values of e_entry
    MaxPhdrs,                                 \* bound on e_phnum
    Phdrs,                                    \* program headers [type, vaddr, filesz, memsz, align, flags]
    NhdrSize, NhdrMin, NoteAlign, MaxNote,    \* sizes of note headers, limits
    NoteHdrs                                  \* notes [filesz, ours, descsz]

ElfWords == 0 .. ElfWord - 1

(* Memory and the largest note are far smaller than the address space.     *)
ASSUME ElfAssumption ==
    /\ ElfWord \in Nat /\ PageSize \in Nat \ {0} /\ MinLoadAddr \in Nat
    /\ MemSize \in Nat /\ MemSize < ElfWord /\ MaxPhdrs \in Nat
    /\ \A h \in Phdrs : /\ h.vaddr \in ElfWords /\ h.align \in ElfWords
                       /\ h.filesz \in ElfWords /\ h.memsz \in ElfWords

ASSUME NoteAssumption ==
    /\ NhdrSize \in Nat /\ NoteAlign \in Nat \ {0} /\ NoteAlign <= ElfWord
    /\ MaxNote \in Nat /\ MaxNote < ElfWord
    /\ \A h \in NoteHdrs : h.filesz \in Nat /\ h.descsz \in Nat

VARIABLES
    elf,                     \* "note", "header", "load", "loaded", "exited"
    e_entry, ph_i, plast_vaddr, e_end,
    elf_mem, prot,           \* guest memory, protection of its pages in the host
    segs,                    \* history: the segments loaded
    note                     \* history: the part of the header's bytes read

elfVars == <<elf, e_entry, ph_i, plast_vaddr, e_end, elf_mem, prot, segs, note>>

Pages == 0 .. MemSize \div PageSize - 1
PagesOf(start, end) == {p \in Pages : p * PageSize >= start /\ (p + 1) * PageSize <= end}

ElfInit ==
    /\ elf = "note" /\ e_entry = 0 /\ ph_i = 0 /\ plast_vaddr = 0 /\ e_end = 0
    /\ elf_mem = [a \in ElfWords |-> 0]
    /\ prot = [p \in Pages |-> {"R", "W"}]
    /\ segs = {} /\ note = [from |-> 0, size |-> 0, filesz |-> 0]

Give_up ==
    elf' = "exited" /\ UNCHANGED <<e_entry, ph_i, plast_vaddr, e_end, elf_mem, prot, segs, note>>

(* The offset of a note's contents behind its header, and their size: an   *)
(* unsigned subtraction.                                                   *)
NoteOffset == ((NhdrSize + NoteAlign - 1) \div NoteAlign) * NoteAlign
NoteSize(descsz) == (descsz - (NoteOffset - NhdrSize)) % ElfWord

NoteSizeUnchecked(descsz) == NoteSize(descsz) > 0

NoteSizeOk(descsz) == NoteSize(descsz) > 0 /\ NoteSize(descsz) <= descsz

(* A PT_NOTE header: refused, skipped, or the note that is looked for.     *)
LoadNote(h) ==
    /\ elf = "note"
    /\ \/ /\ \/ h.filesz < NhdrMin
             \/ /\ h.filesz >= NhdrSize /\ h.ours
                /\ \/ h.descsz < 1 \/ h.descsz > MaxNote
                   \/ h.filesz < NhdrSize + h.descsz
                   \/ ~NoteSizeOk(h.descsz)
          /\ Give_up
       \/ /\ h.filesz >= NhdrSize /\ h.ours
          /\ h.descsz \in 1 .. MaxNote /\ h.filesz >= NhdrSize + h.descsz
          /\ NoteSizeOk(h.descsz)
          /\ elf' = "header"
          /\ note' = [from |-> NoteOffset, size |-> NoteSize(h.descsz), filesz |-> h.filesz]
          /\ UNCHANGED <<e_entry, ph_i, plast_vaddr, e_end, elf_mem, prot, segs>>

(* Every header was skipped: the caller reports that there is no note.     *)
NoteMissing == elf = "note" /\ Give_up

(* The ELF header: the entry point has to be in guest memory.              *)
ElfHeader(entry) ==
    /\ elf = "header"
    /\ \/ (entry < MinLoadAddr \/ entry >= MemSize) /\ Give_up
       \/ /\ entry >= MinLoadAddr /\ entry < MemSize
          /\ elf' = "load" /\ e_entry' = entry
          /\ UNCHANGED <<ph_i, plast_vaddr, e_end, elf_mem, prot, segs, note>>

-----------------------------------------------------------------------------

PowerOf2(n) == n > 0 /\ \E k \in 0 .. n : n = 2 ^ k

align_down(addr, align) == (addr \div align) * align

align_up(addr, align) ==
    IF addr + align - 1 >= ElfWord THEN ElfWord
    ELSE ((addr + align - 1) \div align) * align

(* The checks before the segment is read, in order of the code; a sum that *)
(* overflows is refused, so that the sums here are exact.                  *)
StartsAnywhere(h) ==
    /\ h.vaddr >= MinLoadAddr /\ h.vaddr >= plast_vaddr
    /\ PowerOf2(h.align)
    /\ align_down(h.vaddr, h.align) >= MinLoadAddr
    /\ h.vaddr >= e_end

StartOk(h) ==
    /\ h.vaddr >= MinLoadAddr /\ h.vaddr >= plast_vaddr
    /\ PowerOf2(h.align)
    /\ align_down(h.vaddr, h.align) >= MinLoadAddr
    /\ align_down(h.vaddr, h.align) >= e_end

EndUnchecked(h) ==
    /\ h.vaddr < MemSize /\ (h.vaddr + h.filesz) % ElfWord <= MemSize
    /\ h.memsz >= h.filesz
    /\ align_up((h.vaddr + h.memsz) % ElfWord, h.align) <= MemSize

EndOk(h) ==
    /\ h.vaddr < MemSize
    /\ h.vaddr + h.filesz < ElfWord /\ h.vaddr + h.filesz <= MemSize
    /\ h.memsz >= h.filesz /\ h.vaddr + h.memsz < ElfWord
    /\ align_up(h.vaddr + h.memsz, h.align) <= MemSize

ProtOk(h) ==
    /\ align_down(h.vaddr, h.align) % PageSize = 0
    /\ align_up(h.vaddr + h.memsz, h.align) % PageSize = 0
    /\ ~({"W", "X"} \subseteq h.flags)

SkipPhdr(h) ==
    /\ elf = "load" /\ ph_i < MaxPhdrs
    /\ h.filesz = 0 \/ h.type # "LOAD"
    /\ ph_i' = ph_i + 1
    /\ UNCHANGED <<elf, e_entry, plast_vaddr, e_end, elf_mem, prot, segs, note>>

RefusePhdr(h) ==
    /\ elf = "load" /\ ph_i < MaxPhdrs
    /\ h.filesz > 0 /\ h.type = "LOAD" /\ ~(StartOk(h) /\ EndOk(h))
    /\ Give_up

(* Host-side protection: what the guest may execute the tender may only    *)
(* read.  (spt has no such distinction and applies the flags themselves.)  *)
mprotect_as_asked(flags) == flags

hvt_guest_mprotect(flags) == IF "X" \in flags THEN (flags \ {"X"}) \cup {"R"} ELSE flags

(* The segment is read and its BSS cleared; then the protection is applied *)
(* or, if reading failed or the protection is not acceptable, the tender   *)
(* gives up.                                                               *)
LoadPhdr(h) ==
    /\ elf = "load" /\ ph_i < MaxPhdrs
    /\ h.filesz > 0 /\ h.type = "LOAD" /\ StartOk(h) /\ EndOk(h)
    /\ LET start == align_down(h.vaddr, h.align)
           end == align_up((h.vaddr + h.memsz) % ElfWord, h.align) IN
       /\ ph_i' = ph_i + 1 /\ plast_vaddr' = h.vaddr
       /\ e_end' = IF end > e_end THEN end ELSE e_end
       /\ elf_mem' = [a \in DOMAIN elf_mem |->
                        IF (a - h.vaddr) % ElfWord < h.filesz THEN ph_i'
                        ELSE IF (a - h.vaddr) % ElfWord < h.memsz THEN -ph_i' ELSE elf_mem[a]]
       /\ \/ /\ ProtOk(h)
             /\ prot' = [p \in Pages |-> IF p \in PagesOf(start, end)
                                         THEN hvt_guest_mprotect(h.flags) ELSE prot[p]]
             /\ segs' = segs \cup {[i |-> ph_i', hdr |-> h]}
             /\ elf' = elf
          \/ elf' = "exited" /\ UNCHANGED <<prot, segs>>
    /\ UNCHANGED <<e_entry, note>>

LoadDone ==
    /\ elf = "load" /\ elf' = "loaded"
    /\ UNCHANGED <<e_entry, ph_i, plast_vaddr, e_end, elf_mem, prot, segs, note>>

ElfStopped == elf \in {"loaded", "exited"} /\ UNCHANGED elfVars

ElfNext ==
    \/ \E h \in NoteHdrs : LoadNote(h)
    \/ NoteMissing
    \/ \E entry \in EntryPoints : ElfHeader(entry)
    \/ \E h \in Phdrs : SkipPhdr(h) \/ RefusePhdr(h) \/ LoadPhdr(h)
    \/ LoadDone \/ ElfStopped

ElfSpec == ElfInit /\ [][ElfNext]_elfVars

-----------------------------------------------------------------------------

ElfTypeOK ==
    /\ elf \in {"note", "header", "load", "loaded", "exited"} /\ ph_i \in 0 .. MaxPhdrs
    /\ e_end \in 0 .. MemSize /\ plast_vaddr \in ElfWords

(* Whatever the headers say, loading writes no byte outside the part of    *)
(* memory meant for the program: not the tender's page tables and boot     *)
(* information below it, nothing beyond the end.                           *)
LoadConfined ==
    \A a \in DOMAIN elf_mem : elf_mem[a] # 0 => a >= MinLoadAddr /\ a < e_end /\ e_end <= MemSize

(* Loading a segment does not undo an earlier one: at the end each has its *)
(* file contents, its BSS cleared, and lies below the end of the program   *)
(* that the guest's heap starts from.  All of its pages are writable only  *)
(* if it asked for that, readable if it is to be read or executed, and     *)
(* never executable for the tender.                                        *)
SegmentsKept ==
    elf = "loaded" =>
        \A s \in segs :
            LET h == s.hdr IN
            /\ \A a \in h.vaddr .. h.vaddr + h.filesz - 1 : elf_mem[a] = s.i
            /\ \A a \in h.vaddr + h.filesz .. h.vaddr + h.memsz - 1 : elf_mem[a] = -s.i
            /\ \A a \in h.vaddr .. h.vaddr + h.memsz - 1 :
                  LET page == prot[a \div PageSize] IN
                  /\ "W" \in page <=> "W" \in h.flags
                  /\ "R" \in page <=> h.flags \cap {"R", "X"} # {}
                  /\ "X" \notin page
            /\ h.vaddr + h.memsz <= e_end

(* The contents of a note are read from the bytes of its program header,   *)
(* although their size is the result of an unsigned subtraction.           *)
NoteInside == note.from + note.size <= note.filesz

(* What elf_load() and elf_load_note() guarantee: all of the above.        *)
LoadSafe == LoadConfined /\ SegmentsKept /\ NoteInside
=============================================================================
