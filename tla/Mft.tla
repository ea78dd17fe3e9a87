-------------------------------- MODULE Mft --------------------------------
(***************************************************************************)
(* What the calls of solo5.h have in common on the two targets that have a *)
(* tender on a Unix host: the target, and the manifest with the type of    *)
(* each entry.  A handle is the index of an entry; the tender has attached *)
(* every entry before the guest starts (module HvtBoot).                   *)
(***************************************************************************)
EXTENDS Integers

CONSTANTS
    Targets,     \* "hvt" on Linux, "hvt_bsd" on FreeBSD and OpenBSD, "spt"
    Manifests    \* functions from 0 .. n-1 to the types of the n entries

VARIABLES target, mft

EntryTypes == {"RESERVED_FIRST", "NET_BASIC", "BLOCK_BASIC"}

MftInit == target \in Targets /\ mft \in Manifests

(* _mft_get_by_index() finds an entry.                                     *)
mft_get_by_index(h, type) == h \in DOMAIN mft /\ mft[h] = type

Entries(type) == {h \in DOMAIN mft : mft[h] = type}
=============================================================================
