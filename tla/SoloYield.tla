------------------------------ MODULE SoloYield ------------------------------
(***************************************************************************)
(* What solo5.h promises of solo5_yield on every target: it suspends the   *)
(* application until its deadline or until a network device is ready for   *)
(* input, and says which devices are.  No clock, poll, timer or interrupt  *)
(* of any target appears here.                                             *)
(*                                                                         *)
(* MuenYield, XenEvtchn and (for spt) HostWait are shown to implement it.  *)
(***************************************************************************)
EXTENDS Naturals

CONSTANT Devices

VARIABLES
    phase,       \* "app"; "call"; "back": the call is over, its result stands
    clock,       \* monotonic time
    deadline,
    input,       \* devices ready for input
    had, kept,   \* devices that were ready at some time of the call, throughout
    ready_set

promiseVars == <<phase, clock, deadline, input, had, kept, ready_set>>

Init ==
    /\ phase = "app" /\ clock \in Nat /\ deadline = 0 /\ input \subseteq Devices
    /\ had = {} /\ kept = {} /\ ready_set = {}

(* The result: every device that was ready throughout, none that never     *)
(* was, and nothing at all only at the deadline.                           *)
Due == clock >= deadline
Answered ==
    IF phase = "back"
      THEN kept \subseteq ready_set /\ ready_set \subseteq had /\ (ready_set = {} => Due)
      ELSE ready_set = {}

(* Time passes, and packets come and go (the application reads them, or    *)
(* their sender withdraws them).                                           *)
World ==
    /\ clock' \in Nat /\ clock' >= clock /\ input' \subseteq Devices
    /\ IF phase = "app" THEN UNCHANGED <<had, kept>>
                        ELSE /\ had' = had \cup (input' \ input)
                             /\ kept' = kept \ (input \ input')
    /\ UNCHANGED <<phase, deadline, ready_set>>

(* The application calls solo5_yield(d), or reads the clock only, which is *)
(* a call that watches no device.  The answer may be there at once.        *)
Call ==
    /\ phase = "app" /\ phase' \in {"call", "back"} /\ Answered'
    /\ deadline' \in Nat
    /\ \E watched \in {input, {}} : had' = watched /\ kept' = watched
    /\ UNCHANGED <<clock, input>>

(* The call ends; it may look at the clock last.                           *)
Decide ==
    /\ phase = "call" /\ phase' = "back" /\ Answered'
    /\ clock' \in Nat /\ clock' >= clock
    /\ UNCHANGED <<deadline, input, had, kept>>

Return ==
    /\ phase = "back" /\ phase' = "app"
    /\ deadline' = 0 /\ had' = {} /\ kept' = {} /\ ready_set' = {}
    /\ UNCHANGED <<clock, input>>

Next == World \/ Call \/ Decide \/ Return

Spec == Init /\ [][Next]_promiseVars
=============================================================================
