------------------------------ MODULE MCTender ------------------------------
(***************************************************************************)
(* An instance of module Tender: up to two network devices or a block      *)
(* device, words of four bits, storage of up to four bytes, two TSC        *)
(* frequencies, the lower of which does not fit the widest shift, and for  *)
(* the loader headers with values about every limit that it checks.        *)
(***************************************************************************)
EXTENDS Tender

MCTargets == {"hvt", "hvt_bsd", "spt"}
MCManifests ==
    { [h \in 0 .. 0 |-> "RESERVED_FIRST"],
      [h \in 0 .. 2 |-> CASE h = 0 -> "RESERVED_FIRST" [] OTHER -> "NET_BASIC"],
      [h \in 0 .. 1 |-> CASE h = 0 -> "RESERVED_FIRST" [] OTHER -> "BLOCK_BASIC"] }

MCPhdrs ==
    [type : {"LOAD"}, vaddr : {0, 3, 4, 5, 6, 8, 15}, filesz : {0, 1, 2, 14}, memsz : {0, 1, 3, 15},
     align : {0, 2, 3, 4}, flags : {{"X"}, {"R", "W"}}]
    \cup
    [type : {"LOAD", "NOTE"}, vaddr : {4}, filesz : {1}, memsz : {1}, align : {1, 2},
     flags : {{"R"}, {"W", "X"}}]

MCNoteHdrs == [filesz : {1, 3, 5, 6, 8, 9, 12, 15}, ours : BOOLEAN, descsz : {0, 1, 2, 3, 4, 7}]
=============================================================================
