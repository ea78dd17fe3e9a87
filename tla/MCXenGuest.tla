----------------------------- MODULE MCXenGuest -----------------------------
(***************************************************************************)
(* A text for checking XenGuest: with a ring of two it takes at least four *)
(* rounds of console_write_some and three waits for space, the last two of *)
(* which compare with an out_cons that is stale.                           *)
(***************************************************************************)
EXTENDS XenGuest

MCTexts == {<<"a", "LF", "a", "LF">>}
=============================================================================
