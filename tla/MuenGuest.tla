------------------------------ MODULE MuenGuest ------------------------------
(***************************************************************************)
(* The Muen bindings: a channel of a network device access by access       *)
(* (MuenChannel), and the handles, the clock and solo5_yield (MuenYield),  *)
(* which see of a channel only whether it has data.  They have no variable *)
(* in common, so that a behaviour exercises one of them; part says which.  *)
(* The channel does not depend on the time_info region.                    *)
(***************************************************************************)
EXTENDS MuenChannel, MuenYield

VARIABLE part

guestVars == <<vars, m_vars, part>>

GuestInit ==
    /\ Init /\ MuenInit
    /\ part \in {"channel", "yield"} /\ (part = "channel" => region)

InChannel(A) == part = "channel" /\ A /\ UNCHANGED <<m_vars, part>>
InYield(A) == part = "yield" /\ A /\ UNCHANGED <<vars, part>>

GuestNext == InChannel(Next) \/ InYield(MuenNext)
GuestSpec == GuestInit /\ [][GuestNext]_guestVars

(* The application keeps reading; the guest is scheduled, and the time     *)
(* server publishes the time.                                              *)
FairGuestSpec ==
    /\ GuestSpec
    /\ WF_guestVars(InChannel(Reader)) /\ SF_guestVars(InChannel(Reads))
    /\ WF_guestVars(InYield(InCall)) /\ WF_guestVars(InYield(Publish))

(* The reader makes progress: see ReadAdvances and Resynchronises.         *)
ReaderProgress == ReadAdvances /\ Resynchronises

(* The clock comes up, and every call of solo5_yield returns, although the *)
(* clock may stand still within a minor frame.  (Without a time_info       *)
(* region it stands still for good, and a deadline to come never comes.)   *)
MuenYieldReturns ==
    part = "yield" /\ m_pc # "app" /\ (region \/ m_pc = "time_init") ~> m_pc = "app"
=============================================================================
