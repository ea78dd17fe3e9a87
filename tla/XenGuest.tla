------------------------------ MODULE XenGuest ------------------------------
(***************************************************************************)
(* A guest on Xen (xen/start.c): its one thread logs to the console, sets  *)
(* up events and time, and then writes to the console and yields; the      *)
(* upcall handler interrupts it wherever interrupts are enabled, and       *)
(* xenconsoled's notifications are events.  The components are those of    *)
(* XenEvtchn, XenConsole and PvClock; solo5_yield reads the clock in one   *)
(* step, which ClockConsistent allows.                                     *)
(***************************************************************************)
EXTENDS XenEvtchn, XenConsole, PvClock

vars == <<evtvars, convars, clkvars>>

Init == EvtInit /\ ConInit /\ ClkInit

(* On the one CPU the thread runs only when the handler does not.          *)
Running == hpc = "none"
InCall == cpc # "idle" \/ kpc # "idle"

EvtStep(A) == A /\ UNCHANGED <<convars, clkvars>>
XenStep == EvtStep(Xen)
TickStep == EvtStep(Tick)
HandlerStep == EvtStep(Handler)

ThreadStep == Running /\ ~InCall /\ pc # "bind" /\ EvtStep(Start \/ Yield)
YieldBegin == Running /\ ~InCall /\ EvtStep(YieldCall(now))

(* time_init: pvclock_init reads the wall clock before VIRQ_TIMER is bound. *)
EpochCall == Running /\ ~InCall /\ pc = "bind" /\ ClockCall /\ UNCHANGED <<evtvars, convars>>
EpochStep == Running /\ ClockLoop /\ UNCHANGED <<evtvars, convars>>
EpochReturn == Running /\ ClockReturnLast /\ BindVirq /\ UNCHANGED convars
ClockUpdate == pc = "bind" /\ Hypervisor /\ UNCHANGED <<evtvars, convars>>

(* platform_init logs before evtchn_init has run; then the application.    *)
MayLog == pc = "app" \/ (pc = "mask" /\ mask = {})

ConsoleCall == Running /\ ~InCall /\ MayLog /\ ConsoleWrite /\ UNCHANGED <<evtvars, clkvars>>
ConsoleStep == Running /\ Console /\ UNCHANGED <<evtvars, clkvars>>
ConsoleDaemon == Xenconsoled /\ UNCHANGED <<evtvars, clkvars>>
ConsoleEvent == NotifyGuest /\ Notified /\ UNCHANGED clkvars

Next ==
    \/ XenStep \/ TickStep \/ HandlerStep \/ ThreadStep \/ YieldBegin
    \/ EpochCall \/ EpochStep \/ EpochReturn \/ ClockUpdate
    \/ ConsoleCall \/ ConsoleStep \/ ConsoleDaemon \/ ConsoleEvent

Spec == Init /\ [][Next]_vars

(* Xen runs the guest, its clock and xenconsoled, and finishes what it has *)
(* begun; nobody has to call solo5_yield or the console.                   *)
FairSpec ==
    /\ Spec
    /\ WF_vars(XenStep) /\ WF_vars(TickStep) /\ WF_vars(HandlerStep)
    /\ WF_vars(ThreadStep \/ ConsoleStep \/ EpochCall \/ EpochStep \/ EpochReturn)
    /\ WF_vars(ConsoleDaemon) /\ WF_vars(ConsoleEvent)
    /\ WF_vars(UpdateRest /\ UNCHANGED <<evtvars, convars>>)

-----------------------------------------------------------------------------
(* Type invariant of the composition.                                      *)
TypeOK == EvtTypeOK /\ ConTypeOK /\ ClkTypeOK

(* What reaches the console is right (OutputExact and LinesEndProperly)    *)
(* and is never waited for in vain (WaitsServed); the composition, which   *)
(* shares its ring and its events with Xen, keeps its types: indexes are   *)
(* words, interrupts nest in balance.                                      *)
OutputSound == TypeOK /\ OutputExact /\ LinesEndProperly /\ WaitsServed

(* Every console_write returns if xenconsoled takes what it is notified    *)
(* of, also with a text larger than the ring and whatever events interrupt *)
(* it.                                                                     *)
ConsoleReturns == cpc # "idle" ~> cpc = "idle"

(* The guest comes up once evtchn_init has begun: reading the wall clock   *)
(* in pvclock_init ends (as long as updates do not follow each other       *)
(* forever), early notifications and a boot loader's timer are got over.   *)
ComesUp == mask # {} ~> pc = "app"

(* The guest never hangs: it comes up, and solo5_yield and console_write   *)
(* return, however Xen, its events and xenconsoled interleave with them.   *)
GuestProgress == ComesUp /\ YieldReturns /\ ConsoleReturns
=============================================================================
