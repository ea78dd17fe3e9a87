---------------------------- MODULE XenGuest_proof ----------------------------
(***************************************************************************)
(* A guest on Xen, for every set of ports, of texts and of clock fields    *)
(* and any number of updates of the clock.  First the event channels and   *)
(* solo5_yield (EvtInv), then the reader of the clock (ClkInv) and the     *)
(* console (ConInv, ServeInv), then the guest composed of them: every step *)
(* of the composition is a step of each component, or leaves it alone.     *)
(***************************************************************************)
EXTENDS XenGuest, Arithmetic, FiniteSetTheorems

Booting == pc \in {"mask", "bind", "register", "unmask", "test", "remask", "hypercall", "enable"}
Waiting == pc \in {"cli", "check", "sti_hlt", "hlt"}

(* The handler runs with interrupts off, and only once the guest is up.    *)
CpuInv ==
    /\ (isr <=> hpc # "none") /\ (hpc # "none" => ~iflag)
    /\ (depth = 1 <=> Booting)
    /\ iflag \/ hpc # "none" => ~Booting
    /\ (vector <=> pc # "mask")

(* Only the timer's port is ever unmasked, and it has its handler then.    *)
PortInv ==
    /\ pc # "mask" => Ports \ {TimerPort} \subseteq mask
    /\ pc = "bind" \/ pc = "register" \/ pc = "unmask" => mask = Ports
    /\ handlers = IF pc \in {"mask", "bind", "register"} THEN {} ELSE {TimerPort}
    /\ hpc \in {"handle", "clear"} => port = TimerPort /\ TimerPort \in pending
    /\ hpc = "clear" => timer_fired
    /\ ~unhandled

(* One timer event per sleep: armed, pending or seen, and after the        *)
(* deadline unless armed; none outside a sleep.                            *)
SleepInv ==
    ~left =>
        /\ ~Waiting => timer = Never /\ TimerPort \notin pending
        /\ Waiting => /\ timer # Never => timer = deadline /\ TimerPort \notin pending /\ ~timer_fired
                      /\ timer = Never => now >= deadline
                      /\ timer_fired => TimerPort \notin pending \/ hpc = "clear"
        /\ pc = "set_timer" => ~timer_fired

EvtInv ==
    /\ EvtTypeOK /\ CpuInv /\ PortInv /\ SleepInv
    /\ NoLostUpcall /\ NoUnhandledEvent /\ YieldOnTime /\ TimerNotLost

(* The state platform_init leaves satisfies the invariant.                 *)
LEMMA EvtInitInv == EvtInit => EvtInv
<1> SUFFICES ASSUME EvtInit PROVE EvtInv
  OBVIOUS
<1> USE XenAssumption DEF EvtInit
<1>1. EvtTypeOK
  <2>1. timer \in 0 .. MaxTime \cup {Never} /\ raising \in [Ports -> {"no", "mask", "sel", "upcall"}]
    BY DEF Never
  <2>2. /\ sel \in BOOLEAN /\ upcall \in BOOLEAN /\ vector \in BOOLEAN
        /\ irr \in BOOLEAN /\ isr \in BOOLEAN /\ iflag \in BOOLEAN /\ l1 \in BOOLEAN
        /\ timer_fired \in BOOLEAN /\ unhandled \in BOOLEAN /\ left \in BOOLEAN
    BY Zenon
  <2>3. now \in 0 .. MaxTime /\ deadline \in 0 .. MaxTime /\ port \in Ports /\ depth \in 0 .. 1
    OBVIOUS
  <2>4. QED
    BY <2>1, <2>2, <2>3 DEF EvtTypeOK
<1>2. CpuInv /\ PortInv
  BY DEF CpuInv, PortInv, Booting
<1>3. SleepInv /\ YieldOnTime /\ TimerNotLost
  BY DEF SleepInv, YieldOnTime, TimerNotLost, Waiting, Never
<1>4. NoLostUpcall /\ NoUnhandledEvent
  BY DEF NoLostUpcall, NoUnhandledEvent
<1> QED
  BY <1>1, <1>2, <1>3, <1>4 DEF EvtInv

(* Every step keeps the types.                                             *)
LEMMA EvtTypeStep == EvtInv /\ [EvtNext]_evtvars => EvtTypeOK'
<1> SUFFICES ASSUME EvtInv, [EvtNext]_evtvars PROVE EvtTypeOK'
  OBVIOUS
<1> USE XenAssumption DEF EvtInv, EvtTypeOK, CpuInv, Booting, Never, cpu, handler, thread
<1>1. CASE Notified
  BY <1>1 DEF Notified, Raise, Quiet
<1>2. CASE TimerFires
  <2>1. timer' \in 0 .. MaxTime \cup {Never} /\ pending' \subseteq Ports
    BY <1>2, Zenon DEF TimerFires, Raise
  <2>2. raising' \in [Ports -> {"no", "mask", "sel", "upcall"}]
    BY <1>2 DEF TimerFires, Raise
  <2>4. UNCHANGED <<mask, sel, upcall, vector, irr, now, left, cpu, handler, thread, timer_fired>>
    BY <1>2 DEF TimerFires, Raise
  <2>5. QED
    BY <2>1, <2>2, <2>4
<1>3. CASE XenRaise /\ Quiet
  <2>1. PICK p \in Ports : RaiseMask(p) \/ RaiseSel(p) \/ RaiseUpcall(p)
    BY <1>3 DEF XenRaise
  <2>2. CASE RaiseMask(p)
    BY <1>3, <2>2 DEF RaiseMask, RaiseStep, Quiet
  <2>3. CASE RaiseSel(p)
    BY <1>3, <2>3 DEF RaiseSel, RaiseStep, Quiet
  <2>4. CASE RaiseUpcall(p)
    <3>1. irr' \in BOOLEAN
      BY <2>4 DEF RaiseUpcall
    <3>2. QED
      BY <1>3, <2>4, <3>1 DEF RaiseUpcall, RaiseStep, Quiet
  <2>5. QED
    BY <2>1, <2>2, <2>3, <2>4
<1>4. CASE Tick
  BY <1>4 DEF Tick
<1>5. CASE Handler
  <2>1. CASE Interrupt
    BY <2>1, Zenon DEF Interrupt
  <2>2. CASE HandleUpcall
    BY <2>2, ZenonT(30) DEF HandleUpcall, Handle
  <2>3. CASE HandleSel
    BY <2>3, ZenonT(30) DEF HandleSel, Handle
  <2>4. CASE HandleScan
    BY <2>4 DEF HandleScan, Active
  <2>5. CASE HandleDone
    <3>1. depth = 0
      BY <2>5 DEF HandleDone
    <3>2. isr' \in BOOLEAN /\ iflag' \in BOOLEAN /\ l1' \in BOOLEAN
      BY <2>5, Zenon DEF HandleDone
    <3>3. QED
      BY <2>5, <3>1, <3>2 DEF HandleDone
  <2>6. CASE HandlePort
    BY <2>6, ZenonT(30) DEF HandlePort, Handle
  <2>7. CASE HandleClear
    BY <2>7 DEF HandleClear, Handle
  <2> QED
    BY <1>5, <2>1, <2>2, <2>3, <2>4, <2>5, <2>6, <2>7 DEF Handler
<1>6. CASE Start
  <2>1. CASE MaskPort
    BY <2>1 DEF MaskPort, Step
  <2>2. CASE SetVector
    BY <2>2 DEF SetVector, Step
  <2>3. CASE BindVirq
    BY <2>3 DEF BindVirq, Step
  <2>4. CASE Register
    BY <2>4 DEF Register, Step
  <2>5. CASE Unmask
    BY <2>5 DEF Unmask, Step
  <2>6. CASE UnmaskTest
    BY <2>6 DEF UnmaskTest, Step
  <2>7. CASE UnmaskAgain
    BY <2>7 DEF UnmaskAgain, Step
  <2>8. CASE UnmaskHypercall
    BY <2>8, Zenon DEF UnmaskHypercall
  <2>9. CASE IntrEnable
    BY <2>9 DEF IntrEnable, Step
  <2> QED
    BY <1>6, <2>1, <2>2, <2>3, <2>4, <2>5, <2>6, <2>7, <2>8, <2>9 DEF Start
<1>7. CASE Yield
  <2>1. CASE YieldReset
    BY <2>1, Zenon DEF YieldReset, YieldStep, Step
  <2>2. CASE YieldSetTimer
    BY <2>2 DEF YieldSetTimer, YieldStep, Step
  <2>3. CASE YieldCli
    BY <2>3, Zenon DEF YieldCli, YieldStep, Step
  <2>4. CASE YieldCheck
    BY <2>4 DEF YieldCheck, YieldStep, Step
  <2>5. CASE YieldStiHlt
    BY <2>5 DEF YieldStiHlt, YieldStep, Step
  <2>6. CASE YieldSti
    BY <2>6 DEF YieldSti, YieldStep, Step
  <2>7. CASE YieldReturn
    BY <2>7 DEF YieldReturn, YieldStep, Step
  <2> QED
    BY <1>7, <2>1, <2>2, <2>3, <2>4, <2>5, <2>6, <2>7 DEF Yield
<1>8. ASSUME NEW t \in 0 .. now, YieldCall(t) PROVE EvtTypeOK'
  BY <1>8 DEF YieldCall, YieldStep, Step
<1>9. CASE UNCHANGED evtvars
  BY <1>9 DEF evtvars, xenvars
<1> QED
  BY <1>1, <1>2, <1>3, <1>4, <1>5, <1>6, <1>7, <1>8, <1>9 DEF EvtNext, Xen

(* Every step keeps the handler apart from the thread.                     *)
LEMMA CpuStep == EvtInv /\ [EvtNext]_evtvars => CpuInv'
<1> SUFFICES ASSUME EvtInv, [EvtNext]_evtvars PROVE CpuInv'
  OBVIOUS
<1> USE XenAssumption DEF EvtInv, EvtTypeOK, CpuInv, Booting, cpu, handler, thread
<1>1. CASE Notified
  BY <1>1 DEF Notified, Raise, Quiet
<1>2. CASE TimerFires
  BY <1>2 DEF TimerFires, Raise, Bound
<1>3. CASE XenRaise /\ Quiet
  BY <1>3 DEF XenRaise, Quiet, RaiseMask, RaiseSel, RaiseUpcall, RaiseStep
<1>4. CASE Tick
  BY <1>4 DEF Tick
<1>5. CASE Handler
  <2>1. CASE Interrupt
    BY <2>1 DEF Interrupt
  <2>2. CASE HandleUpcall
    BY <2>2 DEF HandleUpcall, Handle
  <2>3. CASE HandleSel
    BY <2>3 DEF HandleSel, Handle
  <2>4. CASE HandleScan
    BY <2>4 DEF HandleScan, Active
  <2>5. CASE HandleDone
    BY <2>5 DEF HandleDone, Active
  <2>6. CASE HandlePort
    BY <2>6 DEF HandlePort, Handle
  <2>7. CASE HandleClear
    BY <2>7 DEF HandleClear, Handle
  <2> QED
    BY <1>5, <2>1, <2>2, <2>3, <2>4, <2>5, <2>6, <2>7 DEF Handler
<1>6. CASE Start
  <2>1. CASE MaskPort
    BY <2>1 DEF MaskPort, Step
  <2>2. CASE SetVector
    BY <2>2 DEF SetVector, Step
  <2>3. CASE BindVirq
    BY <2>3 DEF BindVirq, Step
  <2>4. CASE Register
    BY <2>4 DEF Register, Step
  <2>5. CASE Unmask
    BY <2>5 DEF Unmask, Step
  <2>6. CASE UnmaskTest
    BY <2>6 DEF UnmaskTest, Step
  <2>7. CASE UnmaskAgain
    BY <2>7 DEF UnmaskAgain, Step
  <2>8. CASE UnmaskHypercall
    BY <2>8 DEF UnmaskHypercall
  <2>9. CASE IntrEnable
    BY <2>9 DEF IntrEnable, Step
  <2> QED
    BY <1>6, <2>1, <2>2, <2>3, <2>4, <2>5, <2>6, <2>7, <2>8, <2>9 DEF Start
<1>7. CASE Yield
  BY <1>7 DEF Yield, YieldReset, YieldSetTimer, YieldCli, YieldCheck, YieldStiHlt, YieldSti,
     YieldReturn, YieldStep, Step
<1>8. ASSUME NEW t \in 0 .. now, YieldCall(t) PROVE CpuInv'
  BY <1>8 DEF YieldCall, YieldStep, Step
<1>9. CASE UNCHANGED evtvars
  BY <1>9 DEF evtvars, xenvars
<1> QED
  BY <1>1, <1>2, <1>3, <1>4, <1>5, <1>6, <1>7, <1>8, <1>9 DEF EvtNext, Xen

(* Every step keeps all ports but the timer's masked.                      *)
LEMMA PortStep == EvtInv /\ [EvtNext]_evtvars => PortInv'
<1> SUFFICES ASSUME EvtInv, [EvtNext]_evtvars PROVE PortInv'
  OBVIOUS
<1> USE XenAssumption DEF EvtInv, EvtTypeOK, CpuInv, PortInv, Booting, cpu, handler, thread
<1>1. CASE Notified
  BY <1>1 DEF Notified, Raise, Quiet
<1>2. CASE TimerFires
  BY <1>2 DEF TimerFires, Raise, Bound
<1>3. CASE XenRaise /\ Quiet
  BY <1>3 DEF XenRaise, Quiet, RaiseMask, RaiseSel, RaiseUpcall, RaiseStep
<1>4. CASE Tick
  BY <1>4 DEF Tick
<1>5. CASE Handler
  BY <1>5 DEF Handler, Interrupt, HandleUpcall, HandleSel, HandleScan, HandleDone, HandlePort,
     HandleClear, Handle, Active
<1>6. CASE Start
  <2>1. CASE MaskPort
    BY <2>1 DEF MaskPort, Step
  <2>2. CASE SetVector
    BY <2>2 DEF SetVector, Step
  <2>3. CASE BindVirq
    BY <2>3 DEF BindVirq, Step
  <2>4. CASE Register
    BY <2>4 DEF Register, Step
  <2>5. CASE Unmask
    BY <2>5 DEF Unmask, Step
  <2>6. CASE UnmaskTest
    BY <2>6 DEF UnmaskTest, Step
  <2>7. CASE UnmaskAgain
    BY <2>7 DEF UnmaskAgain, Step
  <2>8. CASE UnmaskHypercall
    BY <2>8 DEF UnmaskHypercall
  <2>9. CASE IntrEnable
    BY <2>9 DEF IntrEnable, Step
  <2> QED
    BY <1>6, <2>1, <2>2, <2>3, <2>4, <2>5, <2>6, <2>7, <2>8, <2>9 DEF Start
<1>7. CASE Yield
  BY <1>7 DEF Yield, YieldReset, YieldSetTimer, YieldCli, YieldCheck, YieldStiHlt, YieldSti,
     YieldReturn, YieldStep, Step
<1>8. ASSUME NEW t \in 0 .. now, YieldCall(t) PROVE PortInv'
  BY <1>8 DEF YieldCall, YieldStep, Step
<1>9. CASE UNCHANGED evtvars
  BY <1>9 DEF evtvars, xenvars
<1> QED
  BY <1>1, <1>2, <1>3, <1>4, <1>5, <1>6, <1>7, <1>8, <1>9 DEF EvtNext, Xen

(* Every step keeps one timer event per sleep.                             *)
LEMMA SleepStep == EvtInv /\ [EvtNext]_evtvars => SleepInv'
<1> SUFFICES ASSUME EvtInv, [EvtNext]_evtvars PROVE SleepInv'
  OBVIOUS
<1> USE XenAssumption DEF EvtInv, EvtTypeOK, CpuInv, PortInv, SleepInv, Booting, Waiting, Never, cpu, handler, thread
<1>1. CASE Notified
  BY <1>1 DEF Notified, Raise, Quiet
<1>2. CASE TimerFires
  BY <1>2 DEF TimerFires, Raise, Bound
<1>3. CASE XenRaise /\ Quiet
  BY <1>3 DEF XenRaise, Quiet, RaiseMask, RaiseSel, RaiseUpcall, RaiseStep
<1>4. CASE Tick
  BY <1>4 DEF Tick
<1>5. CASE Handler
  BY <1>5, SMTT(30) DEF Handler, Interrupt, HandleUpcall, HandleSel, HandleScan, HandleDone, HandlePort,
     HandleClear, Handle, Active
<1>6. CASE Start
  BY <1>6 DEF Start, MaskPort, SetVector, BindVirq, Register, Unmask, UnmaskTest, UnmaskAgain,
     UnmaskHypercall, IntrEnable, Step
<1>7. CASE Yield
  BY <1>7 DEF Yield, YieldReset, YieldSetTimer, YieldCli, YieldCheck, YieldStiHlt, YieldSti,
     YieldReturn, YieldStep, Step
<1>8. ASSUME NEW t \in 0 .. now, YieldCall(t) PROVE SleepInv'
  BY <1>8 DEF YieldCall, YieldStep, Step
<1>9. CASE UNCHANGED evtvars
  BY <1>9 DEF evtvars, xenvars
<1> QED
  BY <1>1, <1>2, <1>3, <1>4, <1>5, <1>6, <1>7, <1>8, <1>9 DEF EvtNext, Xen

(* No step ends a sleep early.                                             *)
LEMMA YieldOnTimeStep == EvtInv /\ [EvtNext]_evtvars => YieldOnTime'
<1> SUFFICES ASSUME EvtInv, [EvtNext]_evtvars PROVE YieldOnTime'
  OBVIOUS
<1> USE XenAssumption DEF EvtInv, EvtTypeOK, CpuInv, PortInv, SleepInv, Booting, Waiting, YieldOnTime, cpu, handler, thread
<1>1. CASE Notified
  BY <1>1 DEF Notified, Raise, Quiet
<1>2. CASE TimerFires
  BY <1>2 DEF TimerFires, Raise, Bound
<1>3. CASE XenRaise /\ Quiet
  BY <1>3 DEF XenRaise, Quiet, RaiseMask, RaiseSel, RaiseUpcall, RaiseStep
<1>4. CASE Tick
  BY <1>4 DEF Tick
<1>5. CASE Handler
  BY <1>5, SMTT(30) DEF Handler, Interrupt, HandleUpcall, HandleSel, HandleScan, HandleDone, HandlePort,
     HandleClear, Handle, Active
<1>6. CASE Start
  BY <1>6 DEF Start, MaskPort, SetVector, BindVirq, Register, Unmask, UnmaskTest, UnmaskAgain,
     UnmaskHypercall, IntrEnable, Step
<1>7. CASE Yield
  BY <1>7 DEF Yield, YieldReset, YieldSetTimer, YieldCli, YieldCheck, YieldStiHlt, YieldSti,
     YieldReturn, YieldStep, Step
<1>8. ASSUME NEW t \in 0 .. now, YieldCall(t) PROVE YieldOnTime'
  BY <1>8 DEF YieldCall, YieldStep, Step
<1>9. CASE UNCHANGED evtvars
  BY <1>9 DEF evtvars, xenvars
<1> QED
  BY <1>1, <1>2, <1>3, <1>4, <1>5, <1>6, <1>7, <1>8, <1>9 DEF EvtNext, Xen

(* No step loses the timer event.                                          *)
LEMMA TimerStep == EvtInv /\ [EvtNext]_evtvars => TimerNotLost'
<1> SUFFICES ASSUME EvtInv, [EvtNext]_evtvars PROVE TimerNotLost'
  OBVIOUS
<1> USE XenAssumption DEF EvtInv, EvtTypeOK, CpuInv, PortInv, TimerNotLost, Booting, Never, cpu, handler, thread
<1>1. CASE Notified
  BY <1>1 DEF Notified, Raise, Quiet
<1>2. CASE TimerFires
  BY <1>2 DEF TimerFires, Raise, Bound
<1>3. CASE XenRaise /\ Quiet
  BY <1>3 DEF XenRaise, Quiet, RaiseMask, RaiseSel, RaiseUpcall, RaiseStep
<1>4. CASE Tick
  BY <1>4 DEF Tick
<1>5. CASE Handler
  BY <1>5, SMTT(30) DEF Handler, Interrupt, HandleUpcall, HandleSel, HandleScan, HandleDone, HandlePort,
     HandleClear, Handle, Active
<1>6. CASE Start
  BY <1>6 DEF Start, MaskPort, SetVector, BindVirq, Register, Unmask, UnmaskTest, UnmaskAgain,
     UnmaskHypercall, IntrEnable, Step
<1>7. CASE Yield
  BY <1>7 DEF Yield, YieldReset, YieldSetTimer, YieldCli, YieldCheck, YieldStiHlt, YieldSti,
     YieldReturn, YieldStep, Step
<1>8. ASSUME NEW t \in 0 .. now, YieldCall(t) PROVE TimerNotLost'
  BY <1>8 DEF YieldCall, YieldStep, Step
<1>9. CASE UNCHANGED evtvars
  BY <1>9, SMTT(30) DEF evtvars, xenvars
<1> QED
  BY <1>1, <1>2, <1>3, <1>4, <1>5, <1>6, <1>7, <1>8, <1>9 DEF EvtNext, Xen

(* No step loses an upcall.                                                *)
LEMMA UpcallStep == EvtInv /\ [EvtNext]_evtvars => NoLostUpcall'
<1> SUFFICES ASSUME EvtInv, [EvtNext]_evtvars PROVE NoLostUpcall'
  OBVIOUS
<1> USE XenAssumption DEF EvtInv, EvtTypeOK, CpuInv, PortInv, NoLostUpcall, Unmasking, cpu, handler, thread
<1>1. CASE Notified
  BY <1>1 DEF Notified, Raise, Quiet
<1>2. CASE TimerFires
  <2>1. CASE Bound
    <3>1. UNCHANGED <<mask, sel, upcall, vector, irr, hpc, l1, pc>>
      BY <1>2, <2>1 DEF TimerFires, Raise
    <3>2. pending' = pending \cup {TimerPort}
      BY <1>2, <2>1 DEF TimerFires, Raise
    <3>3. raising' = [raising EXCEPT ![TimerPort] = IF TimerPort \in pending THEN "no" ELSE "mask"]
          /\ raising[TimerPort] = "no"
      BY <1>2, <2>1 DEF TimerFires, Raise
    <3>4. QED
      BY <3>1, <3>2, <3>3
  <2>2. CASE ~Bound
    BY <1>2, <2>2, Zenon DEF TimerFires
  <2>3. QED
    BY <2>1, <2>2
<1>3. CASE XenRaise /\ Quiet
  <2>1. PICK p \in Ports : RaiseMask(p) \/ RaiseSel(p) \/ RaiseUpcall(p)
    BY <1>3 DEF XenRaise
  <2>2. CASE RaiseMask(p)
    BY <1>3, <2>2 DEF RaiseMask, RaiseStep, Quiet
  <2>3. CASE RaiseSel(p)
    BY <1>3, <2>3 DEF RaiseSel, RaiseStep, Quiet
  <2>4. CASE RaiseUpcall(p)
    <3>1. irr' \in BOOLEAN
      BY <2>4 DEF RaiseUpcall
    <3>2. QED
      BY <1>3, <2>4, <3>1 DEF RaiseUpcall, RaiseStep, Quiet
  <2>5. QED
    BY <2>1, <2>2, <2>3, <2>4
<1>4. CASE Tick
  BY <1>4, SMTT(30) DEF Tick
<1>5. CASE Handler
  <2>1. CASE Interrupt
    BY <2>1 DEF Interrupt
  <2>2. CASE HandleUpcall
    BY <2>2 DEF HandleUpcall, Handle
  <2>3. CASE HandleSel
    BY <2>3 DEF HandleSel, Handle
  <2>4. CASE HandleScan
    BY <2>4 DEF HandleScan, Active
  <2>5. CASE HandleDone
    BY <2>5 DEF HandleDone, Active
  <2>6. CASE HandlePort
    BY <2>6 DEF HandlePort, Handle
  <2>7. CASE HandleClear
    BY <2>7, SMTT(30) DEF HandleClear, Handle
  <2> QED
    BY <1>5, <2>1, <2>2, <2>3, <2>4, <2>5, <2>6, <2>7 DEF Handler
<1>6. CASE Start
  <2>1. CASE MaskPort
    BY <2>1 DEF MaskPort, Step
  <2>2. CASE SetVector
    BY <2>2 DEF SetVector, Step
  <2>3. CASE BindVirq
    BY <2>3 DEF BindVirq, Step
  <2>4. CASE Register
    BY <2>4 DEF Register, Step
  <2>5. CASE Unmask
    BY <2>5 DEF Unmask, Step
  <2>6. CASE UnmaskTest
    BY <2>6 DEF UnmaskTest, Step
  <2>7. CASE UnmaskAgain
    BY <2>7 DEF UnmaskAgain, Step
  <2>8. CASE UnmaskHypercall
    BY <2>8, Zenon DEF UnmaskHypercall
  <2>9. CASE IntrEnable
    BY <2>9 DEF IntrEnable, Step
  <2> QED
    BY <1>6, <2>1, <2>2, <2>3, <2>4, <2>5, <2>6, <2>7, <2>8, <2>9 DEF Start
<1>7. CASE Yield
  <2>1. CASE YieldReset
    BY <2>1 DEF YieldReset, YieldStep, Step
  <2>2. CASE YieldSetTimer
    BY <2>2 DEF YieldSetTimer, YieldStep, Step
  <2>3. CASE YieldCli
    BY <2>3 DEF YieldCli, YieldStep, Step
  <2>4. CASE YieldCheck
    BY <2>4 DEF YieldCheck, YieldStep, Step
  <2>5. CASE YieldStiHlt
    BY <2>5 DEF YieldStiHlt, YieldStep, Step
  <2>6. CASE YieldSti
    BY <2>6 DEF YieldSti, YieldStep, Step
  <2>7. CASE YieldReturn
    BY <2>7 DEF YieldReturn, YieldStep, Step
  <2> QED
    BY <1>7, <2>1, <2>2, <2>3, <2>4, <2>5, <2>6, <2>7 DEF Yield
<1>8. ASSUME NEW t \in 0 .. now, YieldCall(t) PROVE NoLostUpcall'
  BY <1>8 DEF YieldCall, YieldStep, Step
<1>9. CASE UNCHANGED evtvars
  BY <1>9 DEF evtvars, xenvars
<1> QED
  BY <1>1, <1>2, <1>3, <1>4, <1>5, <1>6, <1>7, <1>8, <1>9 DEF EvtNext, Xen

(* The invariant is inductive.                                             *)
LEMMA EvtNextInv == EvtInv /\ [EvtNext]_evtvars => EvtInv'
<1>1. PortInv' => NoUnhandledEvent'
  BY DEF PortInv, NoUnhandledEvent
<1> QED
  BY <1>1, EvtTypeStep, CpuStep, PortStep, SleepStep, YieldOnTimeStep, TimerStep, UpcallStep
  DEF EvtInv

(* evtchn_unmask, evtchn_vector_handler and Xen between them lose no       *)
(* upcall, whatever the ports and however their steps interleave.          *)
THEOREM UpcallsNotLost == EvtSpec => []NoLostUpcall
<1>1. EvtInv => NoLostUpcall
  BY DEF EvtInv
<1> QED
  BY EvtInitInv, EvtNextInv, <1>1, PTL DEF EvtSpec

(* evtchn_vector_handler never comes to an event without a handler.        *)
THEOREM EventsHandled == EvtSpec => []NoUnhandledEvent
<1>1. EvtInv => NoUnhandledEvent
  BY DEF EvtInv
<1> QED
  BY EvtInitInv, EvtNextInv, <1>1, PTL DEF EvtSpec

(* solo5_yield does not lose the timer event it waits for, and does not    *)
(* take another for it.                                                    *)
THEOREM SleepsWell == EvtSpec => []SleepSound
<1>1. EvtInv => SleepSound
  BY DEF EvtInv, SleepSound
<1> QED
  BY EvtInitInv, EvtNextInv, <1>1, PTL DEF EvtSpec

-----------------------------------------------------------------------------
(* The set of values in force, and the one being written.                  *)
SetInForce == version \div 2
SetWritten == (version + 1) \div 2

(* The writer: every field is of the set in force, or already of the next. *)
WriterInv ==
    \A f \in Fields : field[f] = IF f \in unwritten THEN SetInForce ELSE SetWritten

(* The reader: as long as the version is the one it saw, and even, what it *)
(* has read is of the set in force; past the first test the version it saw *)
(* was even, or has changed since.                                         *)
ReaderInv ==
    /\ called <= SetInForce
    /\ kpc \in {"read", "same"} =>
          /\ seen <= version /\ 2 * called <= seen
          /\ version % 2 = 0 /\ seen = version =>
                \A f \in Fields \ unread : got[f] = SetInForce
    /\ kpc = "same" => unread = {} /\ (seen % 2 = 0 \/ version > seen)

ClkInv == ClkTypeOK /\ WriterInv /\ ReaderInv /\ ClockConsistent

(* The invariant holds of the structure the hypervisor hands over.         *)
LEMMA ClkInitInv == ClkInit => ClkInv
BY SMTT(30) DEF ClkInit, ClkInv, ClkTypeOK, WriterInv, ReaderInv, ClockConsistent, SetInForce, SetWritten

(* Every step of the hypervisor and of the reader keeps it.                *)
LEMMA ClkNextInv == ClkInv /\ [ClkNext]_clkvars => ClkInv'
<1> SUFFICES ASSUME ClkInv, [ClkNext]_clkvars PROVE ClkInv'
  OBVIOUS
<1> USE DEF ClkInv, ClkTypeOK, WriterInv, ReaderInv, ClockConsistent, SetInForce, SetWritten,
            timeinfo, reader
<1>v. version \in Nat
  OBVIOUS
<1>1. CASE UpdateBegin
  <2>1. version' \in Nat /\ version' = version + 1 /\ version % 2 = 0 /\ version' % 2 = 1
        /\ version' \div 2 = version \div 2
    BY <1>v, <1>1, Halves DEF UpdateBegin
  <2>2. QED
    BY <1>1, <2>1 DEF UpdateBegin
<1>2. ASSUME NEW f \in Fields, UpdateField(f) PROVE ClkInv'
  <2>1. version % 2 = 1 /\ (version + 1) \div 2 \in Nat
    BY <1>v, <1>2, Halves DEF UpdateField
  <2>2. QED
    BY <1>2, <2>1 DEF UpdateField
<1>3. CASE UpdateEnd
  <2>1. /\ version' = version + 1 /\ version' \in Nat /\ version' % 2 = 0
        /\ version' \div 2 = (version + 1) \div 2
        /\ (version' + 1) \div 2 = (version + 1) \div 2
        /\ version' \div 2 = version \div 2 + 1 /\ version \div 2 \in Nat
    BY <1>v, <1>3, Halves DEF UpdateEnd
  <2>2. QED
    BY <1>3, <2>1 DEF UpdateEnd
<1>4. CASE ClockCall
  BY <1>v, <1>4, Halves DEF ClockCall
<1>5. CASE ReadVersion
  BY <1>v, <1>5, Halves DEF ReadVersion
<1>6. ASSUME NEW f \in Fields, ReadField(f) PROVE ClkInv'
  <2>1. version % 2 = 0 => field[f] = version \div 2
    BY <1>v, Halves
  <2>2. QED
    BY <1>6, <2>1 DEF ReadField
<1>7. CASE CheckOdd
  BY <1>v, <1>7, Halves DEF CheckOdd
<1>8. CASE CheckSame
  <2>1. version = seen => version % 2 = 0
    BY <1>8 DEF CheckSame
  <2>2. version = seen => \A f \in Fields : got[f] = version \div 2
    BY <1>8, <2>1 DEF CheckSame
  <2>3. QED
    BY <1>v, <1>8, <2>1, <2>2, Halves DEF CheckSame
<1>9. CASE ClockReturn
  BY <1>v, <1>9, Halves DEF ClockReturn
<1>10. CASE UNCHANGED clkvars
  BY <1>10 DEF clkvars
<1> QED
  BY <1>1, <1>2, <1>3, <1>4, <1>5, <1>6, <1>7, <1>8, <1>9, <1>10, Zenon
  DEF ClkNext, Hypervisor, UpdateRest, ClockLoop

(* Nor does dropping the structure after the last call.                    *)
LEMMA ClkLastInv == ClkInv /\ ClockReturnLast => ClkInv'
BY DEF ClkInv, ClkTypeOK, WriterInv, ReaderInv, ClockConsistent, SetInForce, SetWritten,
       ClockReturnLast

(* pvclock_monotonic and pvclock_read_wall_clock compute the time from one *)
(* complete set of values, no older than the call, for every structure and *)
(* any number of updates that fall into the loop.                          *)
THEOREM ClockNeverTorn == ClkSpec => []ClockConsistent
<1>1. ClkInv => ClockConsistent
  BY DEF ClkInv
<1> QED
  BY ClkInitInv, ClkNextInv, <1>1, PTL DEF ClkSpec

-----------------------------------------------------------------------------
(* The console.  Ahead is how far characters have been put, published or   *)
(* not, and Stream all that have been put during the call: those taken,    *)
(* and those still in the ring.                                            *)
Index == 0 .. RingWord - 1
Chars == Characters \cup {"CR", "NUL"}
Ahead == IF cpc = "put" THEN prod ELSE out_prod
InRing == RingMinus(Ahead, out_cons)
Stream ==
    [i \in 1 .. Len(output) + InRing |->
        IF i <= Len(output) THEN output[i]
                            ELSE out[(out_cons + (i - Len(output) - 1)) % RingSize]]

ConTypes ==
    /\ ConTypeOK /\ written \in Nat /\ s \in Nat /\ wrote_cr \in BOOLEAN
    /\ out \in [0 .. RingSize - 1 -> Chars] /\ output \in Seq(Chars)
    /\ text \in Seq(Characters)

(* Each round of console_write_some finds the ring empty or full, and      *)
(* xenconsoled takes nothing or all that is published.                     *)
RoundInv ==
    /\ RingMinus(out_prod, out_cons) <= RingSize /\ (cpc # "put" => s = 0)
    /\ cpc = "put" =>
         /\ \/ some_cons = out_prod /\ out_cons = out_prod
            \/ /\ RingMinus(out_prod, some_cons) = RingSize /\ prod = out_prod
               /\ out_cons \in {some_cons, out_prod}
         /\ RingMinus(prod, some_cons) <= RingSize
    /\ cpc \in {"some", "room"} \/ (cpc = "send" /\ written < Len(text)) =>
          RingMinus(out_prod, out_cons) \in {0, RingSize}
    /\ cpc \in {"drain", "done"} => written = Len(text)
    /\ cpc \in {"done", "idle"} => out_cons = out_prod
    /\ cpc = "idle" => text = <<>> /\ output = <<>> /\ written = 0
    /\ xpc = "take" => taken \in {out_cons, out_prod}

(* q is the first n characters of the text, with CRs added.                *)
Spells(q, n) ==
    /\ Kept(q, Len(q)) = n
    /\ \A i \in 1 .. Len(q) : q[i] # "CR" => q[i] = text[Kept(q, i)]

Lines(q) ==
    \A i \in 1 .. Len(q) :
        /\ q[i] = "LF" => i > 1 /\ q[i - 1] = "CR"
        /\ i > 2 => ~(q[i] = "CR" /\ q[i - 1] = "CR" /\ q[i - 2] = "CR")

EndsInCr(q) == Len(q) > 0 /\ q[Len(q)] = "CR"
EndsTwice(q) == Len(q) > 1 /\ q[Len(q)] = "CR" /\ q[Len(q) - 1] = "CR"

(* A second CR is the first character of a round, which has room for LF.   *)
StreamInv ==
    /\ Spells(Stream, written + s) /\ Lines(Stream)
    /\ cpc = "put" /\ wrote_cr => /\ EndsInCr(Stream) /\ written + s < Len(text)
                                  /\ text[written + s + 1] = "LF"
    /\ cpc = "put" /\ ~wrote_cr /\ prod # out_prod => ~EndsInCr(Stream)
    /\ EndsTwice(Stream) => cpc = "put" /\ wrote_cr /\ RingMinus(prod, some_cons) < RingSize

ConInv == ConTypes /\ RoundInv /\ StreamInv

(* Distances between indexes that wrap.                                    *)
LEMMA RingFacts ==
    /\ RingWord \in Nat \ {0} /\ RingSize \in Nat \ {0} /\ RingSize < RingWord /\ 1 < RingSize
    /\ RingWord % RingSize = 0
BY ConsoleAssumption

LEMMA RingMinusDef ==
    ASSUME NEW x \in Index, NEW y \in Index
    PROVE  /\ RingMinus(x, y) = IF x >= y THEN x - y ELSE x - y + RingWord
           /\ RingMinus(x, y) \in Nat /\ RingMinus(x, y) < RingWord
<1>1. CASE x >= y
  <2>1. x - y = RingWord * 0 + (x - y) /\ x - y \in 0 .. RingWord - 1
    BY <1>1, RingFacts DEF Index
  <2>2. (x - y) % RingWord = x - y
    BY <2>1, Remainder, RingFacts
  <2> QED
    BY <1>1, <2>1, <2>2, RingFacts DEF RingMinus, Index
<1>2. CASE x < y
  <2>1. x - y = RingWord * (-1) + (x - y + RingWord) /\ x - y + RingWord \in 0 .. RingWord - 1
    BY <1>2, RingFacts DEF Index
  <2>2. (x - y) % RingWord = x - y + RingWord
    BY <2>1, Remainder, RingFacts
  <2> QED
    BY <1>2, <2>1, <2>2, RingFacts DEF RingMinus, Index
<1> QED
  BY <1>1, <1>2 DEF Index

LEMMA RingPlusOne ==
    ASSUME NEW x \in Index
    PROVE  RingPlus(x, 1) = (IF x = RingWord - 1 THEN 0 ELSE x + 1) /\ RingPlus(x, 1) \in Index
<1>1. CASE x = RingWord - 1
  <2>1. x + 1 = RingWord * 1 + 0 /\ 0 \in 0 .. RingWord - 1
    BY <1>1, RingFacts
  <2>2. (x + 1) % RingWord = 0
    BY <2>1, Remainder, RingFacts
  <2> QED
    BY <1>1, <2>1, <2>2 DEF RingPlus, Index
<1>2. CASE x # RingWord - 1
  <2>1. x + 1 = RingWord * 0 + (x + 1) /\ x + 1 \in 0 .. RingWord - 1
    BY <1>2, RingFacts DEF Index
  <2>2. (x + 1) % RingWord = x + 1
    BY <2>1, Remainder, RingFacts
  <2> QED
    BY <1>2, <2>1, <2>2 DEF RingPlus, Index
<1> QED
  BY <1>1, <1>2

(* One more character makes one more in the ring, in a slot of its own.    *)
LEMMA RingAdvance ==
    ASSUME NEW x \in Index, NEW y \in Index, RingMinus(x, y) < RingSize
    PROVE  /\ RingMinus(RingPlus(x, 1), y) = RingMinus(x, y) + 1
           /\ x % RingSize = (y + RingMinus(x, y)) % RingSize
           /\ x % RingSize \in 0 .. RingSize - 1
           /\ \A i \in 0 .. RingMinus(x, y) - 1 : (y + i) % RingSize # x % RingSize
<1> DEFINE m == RingMinus(x, y)
<1>0. /\ m = IF x >= y THEN x - y ELSE x - y + RingWord
      /\ m \in Nat /\ m < RingSize
  BY RingMinusDef, Zenon
<1> HIDE DEF m
<1>1. m \in Nat /\ m < RingSize /\ (x = y + m \/ x = y + m - RingWord)
  BY <1>0, RingFacts DEF Index
<1>2. RingMinus(RingPlus(x, 1), y) = m + 1
  <2>1. /\ RingPlus(x, 1) = (IF x = RingWord - 1 THEN 0 ELSE x + 1)
        /\ RingPlus(x, 1) \in Index
    BY RingPlusOne, Zenon
  <2>2. RingMinus(RingPlus(x, 1), y)
          = IF RingPlus(x, 1) >= y THEN RingPlus(x, 1) - y ELSE RingPlus(x, 1) - y + RingWord
    BY <2>1, RingMinusDef, Zenon
  <2> QED
    BY <1>0, <2>1, <2>2, RingFacts DEF Index
<1>3. x % RingSize = (y + m) % RingSize
  <2>1. (y + m) % RingWord = x
    <3>1. CASE x = y + m
      <4>1. y + m = RingWord * 0 + x /\ x \in 0 .. RingWord - 1
        BY <3>1, RingFacts DEF Index
      <4> QED
        BY <1>1, <4>1, Remainder, RingFacts DEF Index
    <3>2. CASE x = y + m - RingWord
      <4>1. y + m = RingWord * 1 + x /\ x \in 0 .. RingWord - 1
        BY <1>1, <3>2, RingFacts DEF Index
      <4> QED
        BY <1>1, <4>1, Remainder, RingFacts DEF Index
    <3> QED
      BY <1>1, <3>1, <3>2
  <2>2. y + m \in Nat
    BY <1>1 DEF Index
  <2>3. ((y + m) % RingWord) % RingSize = (y + m) % RingSize
    BY <2>2, WrapSlot, RingFacts, Zenon
  <2> QED
    BY <2>1, <2>3
<1>4. ASSUME NEW i \in 0 .. m - 1 PROVE (y + i) % RingSize # x % RingSize
  <2>1. y + i \in Nat /\ y + m \in Nat /\ y + i < y + m /\ y + m < y + i + RingSize
    BY <1>1, RingFacts DEF Index
  <2>2. (y + m) % RingSize # (y + i) % RingSize
    BY <2>1, Apart, RingFacts, Zenon
  <2> QED
    BY <1>3, <2>2
<1>5. x % RingSize \in 0 .. RingSize - 1
  BY RingFacts DEF Index
<1> QED
  BY <1>2, <1>3, <1>4, <1>5 DEF m

-----------------------------------------------------------------------------
(* Counting the characters of the text in what has been put.               *)
LEMMA KeptFinite ==
    ASSUME NEW q, NEW n \in Nat
    PROVE  /\ IsFiniteSet({i \in 1 .. n : q[i] # "CR"})
           /\ Kept(q, n) \in Nat
<1>1. IsFiniteSet(1 .. n)
  BY FS_Interval
<1>2. {i \in 1 .. n : q[i] # "CR"} \subseteq 1 .. n
  OBVIOUS
<1>3. IsFiniteSet({i \in 1 .. n : q[i] # "CR"})
  BY <1>1, <1>2, FS_Subset
<1> QED
  BY <1>3, FS_CardinalityType DEF Kept

(* The count depends on the characters counted only, and grows.            *)
LEMMA KeptSame ==
    ASSUME NEW q, NEW r, NEW n \in Nat, \A i \in 1 .. n : q[i] = r[i]
    PROVE  Kept(q, n) = Kept(r, n)
<1>1. {i \in 1 .. n : q[i] # "CR"} = {i \in 1 .. n : r[i] # "CR"}
  OBVIOUS
<1> QED
  BY <1>1 DEF Kept

LEMMA KeptGrows ==
    ASSUME NEW q, NEW n \in Nat, NEW m \in Nat, n <= m
    PROVE  Kept(q, n) <= Kept(q, m)
<1>1. {i \in 1 .. n : q[i] # "CR"} \subseteq {i \in 1 .. m : q[i] # "CR"}
  OBVIOUS
<1> QED
  BY <1>1, KeptFinite, FS_Subset DEF Kept

LEMMA KeptNext ==
    ASSUME NEW q, NEW n \in Nat
    PROVE  Kept(q, n + 1) = IF q[n + 1] = "CR" THEN Kept(q, n) ELSE Kept(q, n) + 1
<1> DEFINE K == {i \in 1 .. n : q[i] # "CR"}
<1>1. CASE q[n + 1] = "CR"
  <2>1. {i \in 1 .. n + 1 : q[i] # "CR"} = K
    BY <1>1
  <2> QED
    BY <1>1, <2>1 DEF Kept
<1>2. CASE q[n + 1] # "CR"
  <2>1. {i \in 1 .. n + 1 : q[i] # "CR"} = K \cup {n + 1} /\ n + 1 \notin K
    BY <1>2
  <2>2. IsFiniteSet(K)
    BY KeptFinite
  <2>3. Cardinality(K \cup {n + 1}) = Cardinality(K) + 1
    <3> HIDE DEF K
    <3> QED
      BY <2>1, <2>2, FS_AddElement, Zenon
  <2> QED
    BY <1>2, <2>1, <2>3 DEF Kept
<1> QED
  BY <1>1, <1>2

(* Nothing has been put.                                                   *)
LEMMA SpellsNothing == Spells(<<>>, 0) /\ Lines(<<>>)
<1>1. {i \in 1 .. 0 : <<>>[i] # "CR"} = {}
  OBVIOUS
<1>2. Kept(<<>>, 0) = 0
  BY <1>1, FS_EmptySet DEF Kept
<1> QED
  BY <1>2 DEF Spells, Lines

(* One more character: a CR, or the next of the text.                      *)
LEMMA SpellsMore ==
    ASSUME NEW q \in Seq(Chars), NEW n \in Nat, NEW c \in Chars, Spells(q, n),
           NEW r \in Seq(Chars), Len(r) = Len(q) + 1, r[Len(r)] = c,
           \A i \in 1 .. Len(q) : r[i] = q[i]
    PROVE  /\ c = "CR" => Spells(r, n)
           /\ c # "CR" /\ c = text[n + 1] => Spells(r, n + 1)
<1>0. Len(q) \in Nat
  OBVIOUS
<1>1. ASSUME NEW i \in 1 .. Len(q) PROVE Kept(r, i) = Kept(q, i) /\ r[i] = q[i]
  <2>1. i \in Nat /\ \A j \in 1 .. i : r[j] = q[j]
    BY <1>0
  <2> QED
    BY <2>1, KeptSame, Zenon
<1>2. Kept(r, Len(q)) = n
  BY <1>0, KeptSame, Zenon DEF Spells
<1>3. Kept(r, Len(r)) = IF c = "CR" THEN n ELSE n + 1
  BY <1>0, <1>2, KeptNext
<1>4. \A i \in 1 .. Len(r) : i \in 1 .. Len(q) \/ i = Len(r)
  BY <1>0
<1> QED
  BY <1>0, <1>1, <1>3, <1>4 DEF Spells

(* What holds of all that has been put holds of the part that was taken.   *)
LEMMA SpellsPart ==
    ASSUME NEW q \in Seq(Chars), NEW r \in Seq(Chars), NEW n \in Nat, Spells(r, n),
           Len(q) <= Len(r), \A i \in 1 .. Len(q) : q[i] = r[i]
    PROVE  /\ Kept(q, Len(q)) <= n
           /\ \A i \in 1 .. Len(q) : q[i] # "CR" => q[i] = text[Kept(q, i)]
<1>0. Len(q) \in Nat /\ Len(r) \in Nat
  OBVIOUS
<1>1. ASSUME NEW i \in 0 .. Len(q) PROVE Kept(q, i) = Kept(r, i)
  <2>1. i \in Nat /\ \A j \in 1 .. i : q[j] = r[j]
    BY <1>0
  <2> QED
    BY <2>1, KeptSame, Zenon
<1>2. Kept(r, Len(q)) <= Kept(r, Len(r))
  BY <1>0, KeptGrows
<1>3. Kept(q, Len(q)) <= n
  BY <1>0, <1>1, <1>2 DEF Spells
<1>4. ASSUME NEW i \in 1 .. Len(q), q[i] # "CR" PROVE q[i] = text[Kept(q, i)]
  BY <1>0, <1>1, <1>4 DEF Spells
<1> QED
  BY <1>3, <1>4

-----------------------------------------------------------------------------
LEMMA StreamType ==
    ASSUME ConTypes
    PROVE  /\ out_prod \in Index /\ out_cons \in Index /\ prod \in Index /\ some_cons \in Index
           /\ Ahead \in Index /\ InRing \in Nat /\ Len(output) \in Nat
           /\ Stream \in Seq(Chars) /\ Len(Stream) = Len(output) + InRing
           /\ \A i \in 1 .. Len(output) : Stream[i] = output[i]
<1>1. /\ out_prod \in Index /\ out_cons \in Index /\ prod \in Index /\ some_cons \in Index
      /\ Ahead \in Index
  BY DEF ConTypes, ConTypeOK, Ahead, Index
<1>2. InRing \in Nat /\ Len(output) \in Nat
  BY <1>1, RingMinusDef DEF InRing, ConTypes
<1> DEFINE n == Len(output) + InRing
           at(i) == IF i <= Len(output) THEN output[i]
                    ELSE out[(out_cons + (i - Len(output) - 1)) % RingSize]
<1>3. n \in Nat
  BY <1>2
<1>4. ASSUME NEW i \in 1 .. n PROVE at(i) \in Chars
  <2>1. CASE i <= Len(output)
    BY <1>2, <2>1 DEF ConTypes
  <2>2. CASE ~(i <= Len(output))
    <3>1. out_cons + (i - Len(output) - 1) \in Nat
      BY <1>1, <1>2, <2>2 DEF Index
    <3>2. (out_cons + (i - Len(output) - 1)) % RingSize \in 0 .. RingSize - 1
      BY <3>1, RingFacts
    <3> QED
      BY <2>2, <3>2 DEF ConTypes
  <2> QED
    BY <2>1, <2>2
<1>5. Stream = [i \in 1 .. n |-> at(i)]
  BY DEF Stream
<1>6. \A i \in 1 .. Len(output) : i \in 1 .. n /\ at(i) = output[i]
  BY <1>2
<1> HIDE DEF n, at
<1>7. Stream \in Seq(Chars) /\ Len(Stream) = n
  BY <1>3, <1>4, <1>5
<1> QED
  BY <1>1, <1>2, <1>5, <1>6, <1>7 DEF n

LEMMA StreamShape ==
    ConTypes => /\ Stream \in Seq(Chars) /\ Len(Stream) = Len(output) + InRing
                /\ \A i \in 1 .. Len(output) : Stream[i] = output[i]
BY StreamType

LEMMA Joined ==
    ASSUME NEW C, NEW a \in Seq(C), NEW b \in Seq(C)
    PROVE  /\ a \o b \in Seq(C) /\ Len(a \o b) = Len(a) + Len(b)
           /\ \A i \in 1 .. Len(a) : (a \o b)[i] = a[i]
           /\ \A i \in 1 .. Len(b) : (a \o b)[Len(a) + i] = b[i]
OBVIOUS

LEMMA SameSequence ==
    ASSUME NEW C, NEW a \in Seq(C), NEW b \in Seq(C), Len(a) = Len(b),
           \A i \in 1 .. Len(b) : a[i] = b[i]
    PROVE  a = b
OBVIOUS

(* The properties follow from the invariant.                               *)
LEMMA ConSound == ConInv => ConTypeOK /\ OutputExact /\ LinesEndProperly
<1> SUFFICES ASSUME ConInv PROVE OutputExact /\ LinesEndProperly
  BY DEF ConInv, ConTypes
<1>1. /\ Stream \in Seq(Chars) /\ output \in Seq(Chars) /\ Len(output) \in Nat /\ InRing \in Nat
      /\ Len(Stream) = Len(output) + InRing /\ out_cons \in Index
      /\ \A i \in 1 .. Len(output) : output[i] = Stream[i]
  BY StreamType DEF ConInv, ConTypes
<1>2. written + s \in Nat /\ written + s <= Len(text) /\ Len(text) \in Nat
  BY DEF ConInv, ConTypes, ConTypeOK
<1>3. Spells(Stream, written + s) /\ Lines(Stream)
  BY DEF ConInv, StreamInv
<1>4. /\ Kept(output, Len(output)) <= written + s
      /\ \A i \in 1 .. Len(output) : output[i] # "CR" => output[i] = text[Kept(output, i)]
  <2>1. Len(output) <= Len(Stream)
    BY <1>1
  <2> QED
    BY <1>1, <1>2, <1>3, <2>1, SpellsPart, Zenon
<1>5. ASSUME cpc \in {"done", "idle"} PROVE Kept(output, Len(output)) = Len(text)
  <2>1. Ahead = out_cons /\ written + s = Len(text)
    BY <1>2, <1>5 DEF ConInv, ConTypes, RoundInv, Ahead
  <2>2. Len(Stream) = Len(output)
    BY <1>1, <2>1, RingMinusDef DEF InRing, Index
  <2>3. Kept(output, Len(output)) = Kept(Stream, Len(output))
    BY <1>1, KeptSame, Zenon
  <2> QED
    BY <1>3, <2>1, <2>2, <2>3 DEF Spells
<1>6. OutputExact
  <2>1. Kept(output, Len(output)) \in Nat
    BY <1>1, KeptFinite, Zenon
  <2>2. Kept(output, Len(output)) <= Len(text)
    BY <1>2, <1>4, <2>1
  <2> QED
    BY <1>4, <1>5, <2>2, Zenon DEF OutputExact
<1>7. LinesEndProperly
  <2> SUFFICES ASSUME NEW i \in 1 .. Len(output)
               PROVE  /\ output[i] = "LF" => i > 1 /\ output[i - 1] = "CR"
                      /\ i > 2 => ~(output[i] = "CR" /\ output[i - 1] = "CR" /\ output[i - 2] = "CR")
    BY DEF LinesEndProperly
  <2>1. /\ i \in 1 .. Len(Stream) /\ (i > 1 => i - 1 \in 1 .. Len(output))
        /\ i > 2 => i - 1 \in 1 .. Len(output) /\ i - 2 \in 1 .. Len(output)
    BY <1>1
  <2> QED
    BY <1>1, <1>3, <2>1, Zenon DEF Lines
<1> QED
  BY <1>6, <1>7

(* console_init leaves an empty ring.                                      *)
LEMMA ConInitInv == ConInit => ConInv
<1> SUFFICES ASSUME ConInit PROVE ConInv
  OBVIOUS
<1>0. RingWord - 1 \in Index /\ 0 \in Index
  BY RingFacts DEF Index
<1>1. RingMinus(RingWord - 1, RingWord - 1) = 0
  BY <1>0, RingMinusDef DEF Index
<1>2. ConTypes
  <2>1. <<>> \in Seq(Chars) /\ <<>> \in Seq(Characters) /\ Len(<<>>) = 0
    OBVIOUS
  <2>2. [i \in 0 .. RingSize - 1 |-> "NUL"] \in [0 .. RingSize - 1 -> Chars]
    BY DEF Chars
  <2>3. ConTypeOK
    BY <1>0, <2>1 DEF ConInit, ConTypeOK, Index
  <2> QED
    <3>1. written \in Nat /\ s \in Nat
      BY DEF ConInit
    <3> QED
      BY <2>1, <2>2, <2>3, <3>1, Zenon DEF ConInit, ConTypes
<1>3. RoundInv
  BY <1>1, RingFacts DEF ConInit, RoundInv
<1>4. Stream = <<>>
  <2>1. Stream \in Seq(Chars) /\ Len(Stream) = Len(output) + InRing
    BY <1>2, StreamType
  <2>2. Len(Stream) = 0
    BY <1>1, <2>1 DEF ConInit, InRing, Ahead
  <2> QED
    BY <2>1, <2>2
<1>5. StreamInv
  BY <1>4, SpellsNothing DEF StreamInv, ConInit, EndsTwice
<1> QED
  BY <1>2, <1>3, <1>5 DEF ConInv
-----------------------------------------------------------------------------
(* A step that puts and takes nothing.                                     *)
LEMMA SameStream ==
    ASSUME UNCHANGED <<out, out_cons, output>>, Ahead' = Ahead
    PROVE  Stream' = Stream
BY DEF Stream, InRing, RingMinus

LEMMA SameText ==
    ASSUME StreamInv, Stream' = Stream, text' = text, written' + s' = written + s
    PROVE  (Spells(Stream, written + s) /\ Lines(Stream))'
<1>1. Spells(Stream, written + s)' /\ Lines(Stream)'
  BY Zenon DEF StreamInv, Spells, Lines
<1> QED
  BY <1>1

LEMMA EmptyStream ==
    ASSUME ConTypes, Ahead = out_cons, output = <<>>
    PROVE  Stream = <<>>
<1>1. /\ Stream \in Seq(Chars) /\ Len(Stream) = Len(output) + RingMinus(Ahead, out_cons)
      /\ out_cons \in Index
  BY StreamType DEF InRing
<1>2. Len(Stream) = 0
  BY <1>1, RingMinusDef DEF Index
<1> QED
  BY <1>1, <1>2

LEMMA NothingTwice == ~EndsTwice(<<>>)
BY DEF EndsTwice

(* Nothing has been put or taken for a text yet.                           *)
LEMMA FreshStream ==
    ASSUME ConTypes, Ahead = out_cons, output = <<>>, written = 0, s = 0, cpc # "put"
    PROVE  StreamInv
<1>1. Stream = <<>>
  BY EmptyStream
<1>2. written + s = 0
  OBVIOUS
<1>3. Spells(Stream, written + s) /\ Lines(Stream) /\ ~EndsTwice(Stream)
  BY <1>1, <1>2, SpellsNothing, NothingTwice, Zenon
<1> QED
  BY <1>3 DEF StreamInv

LEMMA ConsoleWriteInv == ConInv /\ ConsoleWrite => ConInv'
<1> SUFFICES ASSUME ConInv, ConsoleWrite PROVE ConInv'
  OBVIOUS
<1>1. /\ written = 0 /\ s = 0 /\ out_cons = out_prod /\ output = <<>>
      /\ out_cons \in Index
  BY DEF ConInv, ConTypes, ConTypeOK, RoundInv, ConsoleWrite, Index
<1>2. RingMinus(out_prod, out_cons) = 0
  BY <1>1, RingMinusDef DEF Index
<1>3. text' \in Seq(Characters)
  BY ConsoleAssumption DEF ConsoleWrite
<1>4. written' = 0 /\ s' = 0 /\ cpc' = "some" /\ out_prod' = out_prod /\ out_cons' = out_cons
  BY <1>1 DEF ConsoleWrite, ring
<1>5. Len(text') \in Nat
  BY <1>3
<1>6. ConTypeOK'
  BY <1>1, <1>4, <1>5 DEF ConInv, ConTypes, ConTypeOK, ConsoleWrite, ring, daemon, Index
<1>7. ConTypes'
  BY <1>3, <1>4, <1>6 DEF ConInv, ConTypes, ConsoleWrite, ring, daemon
<1>8. RoundInv'
  BY <1>2, <1>4, RingFacts DEF ConInv, RoundInv, ConsoleWrite, ring, daemon, RingMinus
<1>9. StreamInv'
  <2>1. Ahead' = out_cons' /\ output' = <<>> /\ cpc' # "put"
    BY <1>1, <1>4 DEF Ahead, ConsoleWrite, daemon
  <2>2. (ConTypes /\ Ahead = out_cons /\ output = <<>> /\ written = 0 /\ s = 0 /\ cpc # "put" => StreamInv)'
    BY FreshStream, PTL
  <2> QED
    BY <1>4, <1>7, <2>1, <2>2
<1> QED
  BY <1>7, <1>8, <1>9 DEF ConInv

LEMMA ConsoleReturnInv == ConInv /\ ConsoleReturn => ConInv'
<1> SUFFICES ASSUME ConInv, ConsoleReturn PROVE ConInv'
  OBVIOUS
<1>1. /\ out_cons' = out_cons /\ out_prod' = out_prod /\ out_cons = out_prod /\ out_cons \in Index
      /\ written' = 0 /\ s' = 0 /\ cpc' = "idle" /\ text' = <<>> /\ output' = <<>>
  BY DEF ConInv, ConTypes, ConTypeOK, RoundInv, ConsoleReturn, ring, Index
<1>2. RingMinus(out_prod, out_cons) = 0
  BY <1>1, RingMinusDef DEF Index
<1>3. <<>> \in Seq(Characters) /\ <<>> \in Seq(Chars) /\ Len(<<>>) = 0
  OBVIOUS
<1>4. ConTypeOK'
  BY <1>1, <1>3, RingFacts DEF ConInv, ConTypes, ConTypeOK, ConsoleReturn, Index
<1>5. ConTypes'
  <2>1. text' \in Seq(Characters) /\ output' \in Seq(Chars)
    BY <1>1, <1>3, Zenon
  <2>2. out' \in [0 .. RingSize - 1 -> Chars] /\ wrote_cr' \in BOOLEAN
    BY Zenon DEF ConInv, ConTypes, ConsoleReturn, ring
  <2> QED
    BY <1>1, <1>4, <2>1, <2>2 DEF ConTypes
<1>6. RoundInv'
  BY <1>1, <1>2, RingFacts DEF ConInv, RoundInv, ConsoleReturn, ring
<1>7. StreamInv'
  <2>1. Ahead' = out_cons' /\ cpc' # "put"
    BY <1>1 DEF Ahead
  <2>2. (ConTypes /\ Ahead = out_cons /\ output = <<>> /\ written = 0 /\ s = 0 /\ cpc # "put" => StreamInv)'
    BY FreshStream, PTL
  <2> QED
    BY <1>1, <1>5, <2>1, <2>2
<1> QED
  BY <1>5, <1>6, <1>7 DEF ConInv

LEMMA WriteSomeInv == ConInv /\ WriteSome => ConInv'
<1> SUFFICES ASSUME ConInv, WriteSome PROVE ConInv'
  OBVIOUS
<1>1. /\ cpc = "some" /\ s = 0 /\ out_prod \in Index /\ out_cons \in Index /\ written \in Nat
      /\ RingMinus(out_prod, out_cons) \in {0, RingSize}
  BY DEF ConInv, ConTypes, ConTypeOK, RoundInv, WriteSome, Index
<1>2. /\ cpc' = "put" /\ s' = 0 /\ some_cons' = out_cons /\ prod' = out_prod /\ wrote_cr' = FALSE
      /\ out' = out /\ out_prod' = out_prod /\ out_cons' = out_cons /\ written' = written
      /\ text' = text /\ output' = output
  BY DEF WriteSome, ring, daemon
<1>3. ConTypes'
  <2>1. ConTypeOK'
    BY <1>1, <1>2 DEF ConInv, ConTypes, ConTypeOK, WriteSome, daemon, Index
  <2>2. s' \in Nat
    BY <1>2
  <2> QED
    BY <1>2, <2>1, <2>2, Zenon DEF ConInv, ConTypes
<1>4. RingMinus(out_prod, out_cons) = 0 => out_prod = out_cons
  BY <1>1, RingMinusDef, RingFacts DEF Index
<1>5. RoundInv'
  BY <1>1, <1>2, <1>4, RingFacts DEF ConInv, RoundInv, WriteSome, daemon
<1>6. Stream' = Stream
  <2>1. Ahead' = Ahead
    BY <1>1, <1>2 DEF Ahead
  <2> QED
    BY <1>2, <2>1, SameStream
<1>7. ~EndsTwice(Stream)
  BY <1>1 DEF ConInv, StreamInv
<1>8. StreamInv'
  <2>1. (Spells(Stream, written + s) /\ Lines(Stream))'
    <3>1. written' + s' = written + s
      BY <1>1, <1>2
    <3> QED
      BY <1>2, <1>6, <3>1, SameText, Zenon DEF ConInv
  <2>2. ~EndsTwice(Stream')
    BY <1>6, <1>7, Zenon
  <2> QED
    BY <1>2, <2>1, <2>2, Zenon DEF StreamInv
<1> QED
  BY <1>3, <1>5, <1>8 DEF ConInv
LEMMA PublishInv == ConInv /\ Publish => ConInv'
<1> SUFFICES ASSUME ConInv, Publish PROVE ConInv'
  OBVIOUS
<1>1. /\ cpc = "put" /\ ~MayPut /\ written \in Nat /\ s \in Nat /\ prod \in Index
      /\ out_prod \in Index /\ out_cons \in Index /\ some_cons \in Index /\ Len(text) \in Nat
      /\ written + s <= Len(text)
  BY DEF ConInv, ConTypes, ConTypeOK, Publish, Index
<1>2. /\ cpc' = "send" /\ s' = 0 /\ out_prod' = prod /\ written' = written + s
      /\ out' = out /\ out_cons' = out_cons /\ text' = text /\ output' = output
      /\ prod' = prod /\ some_cons' = some_cons /\ xpc' = xpc /\ taken' = taken
  BY DEF Publish, daemon
<1>3. ConTypes'
  BY <1>1, <1>2 DEF ConInv, ConTypes, ConTypeOK, Publish, daemon, Index
<1>4. /\ RingMinus(prod, some_cons) \in Nat /\ RingMinus(prod, some_cons) <= RingSize
      /\ written + s < Len(text) => RingMinus(prod, some_cons) = RingSize
  <2>1. RingMinus(prod, some_cons) \in Nat /\ RingMinus(prod, some_cons) <= RingSize
    BY <1>1, RingMinusDef DEF ConInv, RoundInv
  <2> QED
    BY <1>1, <2>1, RingFacts DEF MayPut
<1>5. RingMinus(prod, prod) = 0
  BY <1>1, RingMinusDef DEF Index
<1>6. RoundInv'
  <2>1. CASE some_cons = out_prod /\ out_cons = out_prod
    BY <1>1, <1>2, <1>4, <1>5, <2>1 DEF ConInv, RoundInv
  <2>2. CASE /\ RingMinus(out_prod, some_cons) = RingSize /\ prod = out_prod
             /\ out_cons \in {some_cons, out_prod}
    BY <1>1, <1>2, <1>4, <1>5, <2>2, RingFacts DEF ConInv, RoundInv
  <2> QED
    BY <1>1, <2>1, <2>2 DEF ConInv, RoundInv
<1>7. Stream' = Stream
  <2>1. Ahead' = Ahead
    BY <1>1, <1>2 DEF Ahead
  <2> QED
    BY <1>2, <2>1, SameStream
<1>8. ~EndsTwice(Stream)
  BY <1>1 DEF ConInv, StreamInv, MayPut
<1>9. StreamInv'
  <2>1. (Spells(Stream, written + s) /\ Lines(Stream))'
    <3>1. written' + s' = written + s
      BY <1>1, <1>2
    <3> QED
      BY <1>2, <1>7, <3>1, SameText, Zenon DEF ConInv
  <2>2. ~EndsTwice(Stream')
    BY <1>7, <1>8, Zenon
  <2> QED
    BY <1>2, <2>1, <2>2 DEF StreamInv
<1> QED
  BY <1>3, <1>6, <1>9 DEF ConInv

(* Steps that leave what has been put, and how far console_write is.       *)
LEMMA SameCall ==
    ASSUME ConInv, Stream' = Stream, UNCHANGED <<out_prod, text, locals>>,
           cpc' = cpc \/ (cpc # "put" /\ cpc' # "put"), ConTypes', RoundInv'
    PROVE  ConInv'
<1>1. /\ written' = written /\ s' = s /\ wrote_cr' = wrote_cr /\ prod' = prod /\ text' = text
      /\ some_cons' = some_cons /\ out_prod' = out_prod
  BY DEF locals
<1>2. (Spells(Stream, written + s) /\ Lines(Stream))'
  <2>1. written' + s' = written + s
    BY <1>1
  <2> QED
    BY <1>1, <2>1, SameText, Zenon DEF ConInv
<1>3. CASE cpc' = cpc
  BY <1>1, <1>2, <1>3, Zenon DEF ConInv, StreamInv
<1>4. CASE cpc # "put" /\ cpc' # "put"
  <2>1. ~EndsTwice(Stream')
    BY <1>4, Zenon DEF ConInv, StreamInv
  <2> QED
    BY <1>2, <1>4, <2>1 DEF ConInv, StreamInv
<1> QED
  BY <1>3, <1>4

LEMMA QuietStep ==
    ASSUME ConInv, UNCHANGED <<ring, text, locals, output>>,
           cpc' = cpc \/ (cpc # "put" /\ cpc' # "put"), ConTypes', RoundInv'
    PROVE  ConInv'
<1>1. Stream' = Stream
  <2>1. Ahead' = Ahead
    BY DEF Ahead, ring, locals
  <2> QED
    BY <2>1, SameStream DEF ring
<1>2. UNCHANGED <<out_prod, text, locals>>
  BY DEF ring
<1> QED
  BY <1>1, <1>2, SameCall

LEMMA SendInv == ConInv /\ Send => ConInv'
<1> SUFFICES ASSUME ConInv, Send PROVE ConInv'
  OBVIOUS
<1>1. UNCHANGED <<ring, text, locals, output>> /\ cpc # "put" /\ cpc' # "put"
  BY DEF Send
<1>2. ConTypes'
  BY DEF ConInv, ConTypes, ConTypeOK, Send, ring, locals
<1>3. RoundInv'
  <2>1. written \in Nat /\ Len(text) \in Nat /\ written + s <= Len(text) /\ s = 0
    BY DEF ConInv, ConTypes, ConTypeOK, RoundInv, Send
  <2> QED
    BY <2>1 DEF ConInv, RoundInv, Send, ring, locals
<1> QED
  BY <1>1, <1>2, <1>3, QuietStep

LEMMA AwaitRoomInv == ConInv /\ AwaitRoom => ConInv'
<1> SUFFICES ASSUME ConInv, AwaitRoom PROVE ConInv'
  OBVIOUS
<1>1. UNCHANGED <<ring, text, locals, output>> /\ cpc # "put" /\ cpc' # "put"
  BY DEF AwaitRoom, daemon
<1>2. ConTypes'
  BY DEF ConInv, ConTypes, ConTypeOK, AwaitRoom, ring, locals, daemon
<1>3. RoundInv'
  BY DEF ConInv, RoundInv, AwaitRoom, ring, locals, daemon
<1> QED
  BY <1>1, <1>2, <1>3, QuietStep

LEMMA DrainInv == ConInv /\ Drain => ConInv'
<1> SUFFICES ASSUME ConInv, Drain PROVE ConInv'
  OBVIOUS
<1>1. UNCHANGED <<ring, text, locals, output>> /\ cpc # "put" /\ cpc' # "put"
  BY DEF Drain, daemon
<1>2. ConTypes'
  BY DEF ConInv, ConTypes, ConTypeOK, Drain, ring, locals, daemon
<1>3. RoundInv'
  BY DEF ConInv, RoundInv, Drain, ring, locals, daemon
<1> QED
  BY <1>1, <1>2, <1>3, QuietStep

LEMMA WakeInv == ConInv /\ (Wake \/ NotifyGuest \/ UNCHANGED convars) => ConInv'
<1> SUFFICES ASSUME ConInv, Wake \/ NotifyGuest \/ UNCHANGED convars PROVE ConInv'
  OBVIOUS
<1>1. UNCHANGED <<ring, text, locals, output>> /\ cpc' = cpc
  BY DEF Wake, NotifyGuest, convars, daemon
<1>2. taken' \in 0 .. RingWord - 1 /\ xpc' \in {"wait", "take", "notify"}
  BY DEF ConInv, ConTypes, ConTypeOK, Wake, NotifyGuest, convars, daemon
<1>3. ConTypes'
  BY <1>1, <1>2 DEF ConInv, ConTypes, ConTypeOK, ring, locals
<1>4. xpc' = "take" => taken' \in {out_cons, out_prod}
  BY DEF ConInv, RoundInv, Wake, NotifyGuest, convars, daemon
<1>5. RoundInv'
  BY <1>1, <1>4 DEF ConInv, RoundInv, ring, locals
<1> QED
  BY <1>1, <1>3, <1>5, QuietStep
(* xenconsoled takes nothing, or all that has been put.                    *)
Got == [i \in 1 .. Available |-> out[(out_cons + i - 1) % RingSize]]

LEMMA TakeOutput ==
    ASSUME ConInv, Take
    PROVE  /\ Available \in Nat /\ Got \in Seq(Chars) /\ Len(Got) = Available
           /\ output' = output \o Got /\ output' \in Seq(Chars)
           /\ Len(output') = Len(output) + Available
<1>1. /\ taken \in Index /\ out_cons \in Index /\ output \in Seq(Chars)
      /\ out \in [0 .. RingSize - 1 -> Chars]
  BY DEF ConInv, ConTypes, ConTypeOK, Index
<1>2. Available \in Nat
  BY <1>1, RingMinusDef DEF Available
<1>3. Got \in Seq(Chars) /\ Len(Got) = Available
  <2>1. ASSUME NEW i \in 1 .. Available PROVE out[(out_cons + i - 1) % RingSize] \in Chars
    <3>1. out_cons + i - 1 \in Nat
      BY <1>1, <1>2 DEF Index
    <3>2. (out_cons + i - 1) % RingSize \in 0 .. RingSize - 1
      BY <3>1, RingFacts
    <3> QED
      BY <1>1, <3>2
  <2> QED
    BY <1>2, <2>1 DEF Got
<1>4. output' = output \o Got
  BY DEF Take, Got
<1> QED
  BY <1>1, <1>2, <1>3, <1>4, Joined, Zenon

LEMMA TakeInv == ConInv /\ Take => ConInv'
<1> SUFFICES ASSUME ConInv, Take PROVE ConInv'
  OBVIOUS
<1>1. /\ xpc = "take" /\ xpc' = "notify" /\ out_cons' = taken /\ taken' = 0
      /\ out' = out /\ out_prod' = out_prod /\ cpc' = cpc /\ text' = text /\ UNCHANGED locals
  BY DEF Take
<1>2. /\ taken \in {out_cons, out_prod} /\ out_cons \in Index /\ out_prod \in Index
      /\ output \in Seq(Chars) /\ out \in [0 .. RingSize - 1 -> Chars]
  BY <1>1 DEF ConInv, ConTypes, ConTypeOK, RoundInv, Index
<1>3. Available \in Nat /\ Available = RingMinus(taken, out_cons)
  BY TakeOutput DEF Available
<1>4. output' = output \o Got
  BY TakeOutput
<1>5. Got \in Seq(Chars) /\ Len(Got) = Available
  BY TakeOutput
<1>6. output' \in Seq(Chars) /\ Len(output') = Len(output) + Available
  BY TakeOutput
<1>7. ConTypes'
  <2>1. taken' \in Index /\ out_cons' \in Index
    BY <1>1, <1>2, RingFacts DEF Index
  <2>2. ConTypeOK'
    BY <1>1, <2>1 DEF ConInv, ConTypes, ConTypeOK, locals, Index
  <2> QED
    BY <1>1, <1>6, <2>2 DEF ConInv, ConTypes, locals
<1>8. CASE taken = out_cons
  <2>1. Available = 0
    BY <1>2, <1>3, <1>8, RingMinusDef DEF Index
  <2>2. output' = output
    <3>1. Len(output') = Len(output)
      BY <1>2, <1>6, <2>1
    <3>2. \A i \in 1 .. Len(output) : output'[i] = output[i]
      BY <1>2, <1>4, <1>5, Joined, Zenon
    <3> QED
      BY <1>2, <1>6, <3>1, <3>2, SameSequence, Zenon
  <2>3. UNCHANGED <<ring, text, locals, output>>
    BY <1>1, <1>8, <2>2 DEF ring
  <2>4. RoundInv'
    BY <1>1, <2>3 DEF ConInv, RoundInv, ring, locals
  <2> QED
    BY <1>1, <1>7, <2>3, <2>4, QuietStep
<1>9. CASE taken = out_prod /\ taken # out_cons
  <2>1. Ahead = out_prod /\ Ahead' = out_prod /\ cpc \notin {"done", "idle"}
    BY <1>1, <1>9 DEF ConInv, RoundInv, Ahead, locals
  <2>2. RingMinus(out_prod, out_prod) = 0
    BY <1>2, RingMinusDef DEF Index
  <2>3. RoundInv'
    BY <1>1, <1>9, <2>1, <2>2, RingFacts DEF ConInv, RoundInv, locals
  <2>4. InRing = Available /\ InRing' = 0
    BY <1>1, <1>3, <1>9, <2>1, <2>2 DEF InRing, RingMinus
  <2>5. Stream' = Stream
    <3>1. /\ Stream \in Seq(Chars) /\ Len(Stream) = Len(output) + Available /\ Len(output) \in Nat
          /\ \A i \in 1 .. Len(output) : Stream[i] = output[i]
      BY <2>4, StreamType DEF ConInv
    <3>2. (ConTypes => /\ Stream \in Seq(Chars) /\ Len(Stream) = Len(output) + InRing
                       /\ \A i \in 1 .. Len(output) : Stream[i] = output[i])'
      BY StreamShape, PTL
    <3>3. /\ Stream' \in Seq(Chars) /\ Len(Stream') = Len(output) + Available
          /\ \A i \in 1 .. Len(output') : Stream'[i] = output'[i]
      BY <1>6, <1>7, <2>4, <3>1, <3>2, <1>3
    <3>4. ASSUME NEW i \in 1 .. Len(output) + Available PROVE Stream'[i] = Stream[i]
      <4>1. Stream'[i] = output'[i]
        BY <1>6, <3>3
      <4>2. CASE i <= Len(output)
        <5>1. i \in 1 .. Len(output)
          BY <3>1, <4>2
        <5> QED
          BY <1>2, <1>4, <1>5, <3>1, <4>1, <5>1, Joined, Zenon
      <4>3. CASE ~(i <= Len(output))
        <5>1. i - Len(output) \in 1 .. Available
          BY <1>3, <3>1, <4>3
        <5>2. output'[i] = Got[i - Len(output)]
          <6>1. \A j \in 1 .. Available : output'[Len(output) + j] = Got[j]
            <7>1. \A j \in 1 .. Len(Got) :
                    (output \o Got)[Len(output) + j] = Got[j]
              BY <1>2, <1>5
            <7> QED
              BY <1>4, <1>5, <7>1, Zenon
          <6>2. Len(output) + (i - Len(output)) = i
            BY <1>3, <3>1
          <6> QED
            BY <5>1, <6>1, <6>2, Zenon
        <5>3. Got[i - Len(output)] = out[(out_cons + (i - Len(output)) - 1) % RingSize]
          BY <5>1, Zenon DEF Got
        <5>4. Stream[i] = out[(out_cons + (i - Len(output) - 1)) % RingSize]
          BY <2>4, <4>3 DEF Stream
        <5>5. out_cons + (i - Len(output)) - 1 = out_cons + (i - Len(output) - 1)
          BY <1>2, <1>3, <3>1 DEF Index
        <5> QED
          BY <4>1, <5>2, <5>3, <5>4, <5>5
      <4> QED
        BY <4>2, <4>3
    <3>5. Len(Stream') = Len(Stream) /\ \A i \in 1 .. Len(Stream) : Stream'[i] = Stream[i]
      BY <3>1, <3>3, <3>4, Zenon
    <3> QED
      BY <3>1, <3>3, <3>5, SameSequence, Zenon
  <2> QED
    BY <1>1, <1>7, <2>3, <2>5, SameCall
<1> QED
  BY <1>2, <1>8, <1>9
(* A character is put in a slot that has been taken.                       *)
LEMMA PutInv == ConInv /\ Put => ConInv'
<1> SUFFICES ASSUME ConInv, Put PROVE ConInv'
  OBVIOUS
<1> DEFINE k == written + s
           c == IF NeedsCr THEN "CR" ELSE text[k + 1]
           z == prod % RingSize
<1>1. /\ cpc = "put" /\ cpc' = "put" /\ prod' = RingPlus(prod, 1) /\ out' = [out EXCEPT ![z] = c]
      /\ wrote_cr' = NeedsCr /\ s' = (IF NeedsCr THEN s ELSE s + 1) /\ written' = written
      /\ out_prod' = out_prod /\ out_cons' = out_cons /\ text' = text /\ cons' = cons
      /\ some_cons' = some_cons /\ output' = output /\ xpc' = xpc /\ taken' = taken
  BY DEF Put, daemon
<1>2. /\ written \in Nat /\ s \in Nat /\ Len(text) \in Nat /\ text \in Seq(Characters)
      /\ prod \in Index /\ some_cons \in Index /\ out \in [0 .. RingSize - 1 -> Chars]
      /\ output \in Seq(Chars) /\ wrote_cr \in BOOLEAN /\ out_cons \in Index
  BY DEF ConInv, ConTypes, ConTypeOK, Index
<1>3. k < Len(text) /\ RingMinus(prod, some_cons) < RingSize /\ k \in Nat
  BY <1>2 DEF Put, MayPut
<1>4. some_cons = out_prod /\ out_cons = out_prod
  BY <1>1, <1>3, RingFacts DEF ConInv, RoundInv
<1>5. text[k + 1] \in Characters /\ text[k + 1] # "CR"
  BY <1>2, <1>3, ConsoleAssumption
<1> DEFINE m == RingMinus(prod, out_cons)
<1>6. /\ RingMinus(RingPlus(prod, 1), out_cons) = m + 1 /\ z = (out_cons + m) % RingSize
      /\ z \in 0 .. RingSize - 1
      /\ \A i \in 0 .. m - 1 : (out_cons + i) % RingSize # z
  BY <1>2, <1>3, <1>4, RingAdvance, Zenon
<1>7. m \in Nat /\ m < RingSize /\ m = InRing
  BY <1>1, <1>2, <1>3, <1>4, RingMinusDef DEF InRing, Ahead
<1>8. c \in Chars /\ (c = "CR" <=> NeedsCr)
  BY <1>5 DEF Chars
<1>9. RingPlus(prod, 1) \in Index
  BY <1>2, RingPlusOne
<1> HIDE DEF c, z, m
<1>10. out' \in [0 .. RingSize - 1 -> Chars] /\ out'[z] = c
       /\ \A i \in 0 .. RingSize - 1 : i # z => out'[i] = out[i]
  BY <1>1, <1>2, <1>6, <1>8
<1>11. wrote_cr' \in BOOLEAN
  BY <1>1 DEF NeedsCr
<1>12. s' \in Nat /\ written' + s' \in Nat /\ written' + s' <= Len(text)
       /\ written' + s' = IF NeedsCr THEN k ELSE k + 1
  BY <1>1, <1>2, <1>3
<1>13. ConTypes'
  <2>1. ConTypeOK'
    BY <1>1, <1>2, <1>9, <1>12 DEF ConInv, ConTypes, ConTypeOK, Index
  <2> QED
    BY <1>1, <1>2, <1>10, <1>11, <1>12, <2>1 DEF ConTypes
<1>14. RoundInv'
  <2>1. RingMinus(prod', some_cons') <= RingSize
    BY <1>1, <1>4, <1>6, <1>7, RingFacts
  <2> QED
    BY <1>1, <1>4, <2>1 DEF ConInv, RoundInv
<1>15. /\ Stream \in Seq(Chars) /\ Len(Stream) = Len(output) + m /\ Len(output) \in Nat
  BY <1>7, StreamType DEF ConInv
<1>16. InRing' = m + 1
  BY <1>1, <1>6 DEF InRing, Ahead, RingMinus
<1>17. Stream' \in Seq(Chars) /\ Len(Stream') = Len(Stream) + 1
  <2>1. (ConTypes => /\ Stream \in Seq(Chars) /\ Len(Stream) = Len(output) + InRing
                     /\ \A i \in 1 .. Len(output) : Stream[i] = output[i])'
    BY StreamShape, PTL
  <2>2. Stream' \in Seq(Chars) /\ Len(Stream') = Len(output') + InRing'
    BY <1>13, <2>1
  <2> QED
    BY <1>1, <1>7, <1>15, <1>16, <2>2
<1>18. ASSUME NEW i \in 1 .. Len(Stream) + 1
       PROVE  Stream'[i] = IF i <= Len(output) THEN output[i]
                           ELSE out'[(out_cons + (i - Len(output) - 1)) % RingSize]
  <2>1. i \in 1 .. Len(output') + InRing'
    BY <1>1, <1>7, <1>15, <1>16
  <2> QED
    BY <1>1, <2>1 DEF Stream
<1>19. ASSUME NEW i \in 1 .. Len(Stream) PROVE Stream'[i] = Stream[i]
  <2>1. i \in 1 .. Len(output) + InRing /\ i \in 1 .. Len(Stream) + 1
    BY <1>7, <1>15
  <2>2. Stream[i] = IF i <= Len(output) THEN output[i]
                    ELSE out[(out_cons + (i - Len(output) - 1)) % RingSize]
    BY <2>1 DEF Stream
  <2>3. CASE i <= Len(output)
    BY <1>18, <2>1, <2>2, <2>3, Zenon
  <2>4. CASE ~(i <= Len(output))
    <3> DEFINE j == i - Len(output) - 1
               y == (out_cons + j) % RingSize
    <3>1. j \in 0 .. m - 1
      BY <1>7, <1>15, <2>4
    <3>2. y # z
      BY <1>6, <3>1, Zenon
    <3>3. out_cons + j \in Nat
      BY <1>2, <1>7, <3>1 DEF Index
    <3>4. y \in 0 .. RingSize - 1
      <4> HIDE DEF j
      <4> QED
        BY <3>3, RingFacts
    <3>5. out'[y] = out[y]
      BY <1>10, <3>2, <3>4, Zenon
    <3> QED
      BY <1>18, <2>1, <2>2, <2>4, <3>5, Zenon
  <2> QED
    BY <2>3, <2>4
<1>20. Stream'[Len(Stream')] = c
  <2> DEFINE i == Len(Stream) + 1
  <2>1. i \in 1 .. Len(Stream) + 1 /\ ~(i <= Len(output)) /\ i - Len(output) - 1 = m
    BY <1>7, <1>15
  <2>2. Stream'[i] = out'[(out_cons + (i - Len(output) - 1)) % RingSize]
    BY <1>18, <2>1, Zenon
  <2> QED
    BY <1>6, <1>10, <1>17, <2>1, <2>2, Zenon
<1> HIDE DEF k
<1>21. /\ Spells(Stream, k) /\ Lines(Stream) /\ Len(Stream) \in Nat
       /\ wrote_cr => EndsInCr(Stream) /\ text[k + 1] = "LF"
       /\ ~wrote_cr /\ prod # out_prod => ~EndsInCr(Stream)
       /\ EndsTwice(Stream) => wrote_cr
  BY <1>1, <1>15 DEF ConInv, StreamInv, k
<1>22. Spells(Stream, written + s)'
  <2>1. /\ c = "CR" => Spells(Stream', k)
        /\ c # "CR" /\ c = text[k + 1] => Spells(Stream', k + 1)
    BY <1>3, <1>8, <1>15, <1>17, <1>19, <1>20, <1>21, SpellsMore, Zenon
  <2>2. Spells(Stream', written' + s')
    BY <1>8, <1>12, <2>1, Zenon DEF c
  <2> QED
    BY <1>1, <2>2, Zenon DEF Spells
<1>23. c = "LF" => wrote_cr /\ EndsInCr(Stream)
  <2>1. c = "LF" => ~NeedsCr
    BY <1>8
  <2> QED
    BY <1>21, <2>1, Zenon DEF c, NeedsCr, k
<1>24. c = "CR" => ~wrote_cr /\ text[k + 1] = "LF"
  BY <1>8, Zenon DEF NeedsCr, k
<1>25. Lines(Stream)'
  <2> SUFFICES ASSUME NEW i \in 1 .. Len(Stream')
               PROVE  /\ Stream'[i] = "LF" => i > 1 /\ Stream'[i - 1] = "CR"
                      /\ i > 2 => ~(Stream'[i] = "CR" /\ Stream'[i - 1] = "CR" /\ Stream'[i - 2] = "CR")
    BY DEF Lines
  <2>1. CASE i \in 1 .. Len(Stream)
    <3>1. /\ Stream'[i] = Stream[i] /\ (i > 1 => Stream'[i - 1] = Stream[i - 1])
          /\ (i > 2 => Stream'[i - 2] = Stream[i - 2])
      <4>1. (i > 1 => i - 1 \in 1 .. Len(Stream)) /\ (i > 2 => i - 2 \in 1 .. Len(Stream))
        BY <1>21, <2>1
      <4> QED
        BY <1>19, <2>1, <4>1, Zenon
    <3> QED
      BY <1>21, <2>1, <3>1 DEF Lines
  <2>2. CASE i = Len(Stream) + 1
    <3>1. /\ Stream'[i] = c /\ (i > 1 => Stream'[i - 1] = Stream[Len(Stream)])
          /\ (i > 2 => Stream'[i - 2] = Stream[Len(Stream) - 1])
      <4>1. /\ i > 1 => i - 1 = Len(Stream) /\ Len(Stream) \in 1 .. Len(Stream)
            /\ i > 2 => i - 2 = Len(Stream) - 1 /\ Len(Stream) - 1 \in 1 .. Len(Stream)
        BY <1>21, <2>2
      <4> QED
        BY <1>17, <1>19, <1>20, <2>2, <4>1, Zenon
    <3>2. c = "LF" => i > 1 /\ Stream'[i - 1] = "CR"
      BY <1>21, <1>23, <2>2, <3>1 DEF EndsInCr
    <3>3. ~(i > 2 /\ c = "CR" /\ Stream'[i - 1] = "CR" /\ Stream'[i - 2] = "CR")
      BY <1>21, <1>24, <2>2, <3>1 DEF EndsTwice
    <3> QED
      BY <3>1, <3>2, <3>3
  <2> QED
    BY <1>17, <1>21, <2>1, <2>2
<1>26. EndsInCr(Stream') <=> NeedsCr
  <2>1. Len(Stream') > 0
    BY <1>17, <1>21
  <2> QED
    BY <1>8, <1>20, <2>1 DEF EndsInCr
<1>27. ASSUME EndsTwice(Stream') PROVE NeedsCr /\ RingMinus(prod', some_cons') < RingSize
  <2>1. NeedsCr
    BY <1>8, <1>20, <1>27 DEF EndsTwice
  <2>2. EndsInCr(Stream)
    <3>1. Len(Stream) > 0 /\ Len(Stream') - 1 = Len(Stream) /\ Len(Stream) \in 1 .. Len(Stream)
      BY <1>17, <1>21, <1>27 DEF EndsTwice
    <3> QED
      BY <1>19, <1>27, <3>1 DEF EndsTwice, EndsInCr
  <2>3. prod = out_prod
    BY <1>21, <2>1, <2>2 DEF NeedsCr
  <2>4. m = 0
    BY <1>2, <1>4, <2>3, RingMinusDef DEF m, Index
  <2> QED
    BY <1>1, <1>4, <1>6, <2>1, <2>4, RingFacts
<1>28. StreamInv'
  <2>1. wrote_cr' => written' + s' < Len(text') /\ text'[written' + s' + 1] = "LF"
    BY <1>1, <1>3, <1>8, <1>12, <1>24
  <2> QED
    BY <1>1, <1>22, <1>25, <1>26, <1>27, <2>1, Zenon DEF StreamInv
<1> QED
  BY <1>13, <1>14, <1>28 DEF ConInv

LEMMA ConNextInv == ConInv /\ [ConNext]_convars => ConInv'
BY ConsoleWriteInv, WriteSomeInv, PutInv, PublishInv, SendInv, AwaitRoomInv, DrainInv,
   ConsoleReturnInv, WakeInv, TakeInv, Zenon
   DEF ConNext, Console, Xenconsoled
-----------------------------------------------------------------------------
(* What is in the ring has been announced; out_cons has moved by as much   *)
(* as was taken; and who finds the ring full has filled it.                *)
ToldInv == out_cons # out_prod => cpc = "send" \/ Coming
CountInv == cpc # "idle" => out_cons = (cons + Len(output)) % RingWord
FullInv ==
    (\/ cpc = "room" \/ (cpc = "send" /\ written < Len(text))
     \/ (cpc = "put" /\ RingMinus(out_prod, some_cons) = RingSize))
    => Len(output) + InRing >= RingSize
ServeInv == ToldInv /\ CountInv /\ FullInv

LEMMA RingRejoin ==
    ASSUME NEW b \in Index, NEW n \in Nat, NEW x \in Index, NEW y \in Index,
           y = (b + n) % RingWord
    PROVE  x = (b + (n + RingMinus(x, y))) % RingWord
<1> DEFINE m == RingMinus(x, y)
<1>1. m = (IF x >= y THEN x - y ELSE x - y + RingWord) /\ m \in Nat
  BY RingMinusDef, Zenon
<1> HIDE DEF m
<1>2. (y + m) % RingWord = x
  <2>1. CASE x >= y
    <3>1. y + m = RingWord * 0 + x /\ x \in 0 .. RingWord - 1 /\ y + m \in Int
      BY <1>1, <2>1, RingFacts DEF Index
    <3> QED
      BY <3>1, Remainder, RingFacts
  <2>2. CASE ~(x >= y)
    <3>1. y + m = RingWord * 1 + x /\ x \in 0 .. RingWord - 1 /\ y + m \in Int
      BY <1>1, <2>2, RingFacts DEF Index
    <3> QED
      BY <3>1, Remainder, RingFacts
  <2> QED
    BY <2>1, <2>2
<1>3. b + n \in Nat /\ b + n + m = b + (n + m)
  BY <1>1 DEF Index
<1>4. (((b + n) % RingWord) + m) % RingWord = (b + n + m) % RingWord
  BY <1>1, <1>3, WrapPlus, RingFacts, Zenon
<1> QED
  BY <1>2, <1>3, <1>4 DEF m

LEMMA ServeInit == ConInit => ServeInv
BY DEF ConInit, ServeInv, ToldInv, CountInv, FullInv

LEMMA ToldStep == ConInv /\ ToldInv /\ [ConNext]_convars => ToldInv'
<1> SUFFICES ASSUME ConInv, ToldInv, [ConNext]_convars PROVE ToldInv'
  OBVIOUS
<1>1. CASE ConsoleWrite \/ WriteSome \/ AwaitRoom \/ Drain \/ ConsoleReturn
  BY <1>1 DEF ToldInv, Coming, ConsoleWrite, WriteSome, AwaitRoom, Drain, ConsoleReturn, ring, daemon
<1>2. CASE Put \/ Publish
  BY <1>2 DEF ToldInv, Coming, Put, Publish, daemon
<1>3. CASE Send \/ NotifyGuest \/ UNCHANGED convars
  BY <1>3 DEF ToldInv, Coming, Send, NotifyGuest, convars, ring, daemon
<1>4. CASE Wake
  BY <1>4 DEF ToldInv, Coming, Wake, ring
<1>5. CASE Take
  BY <1>5 DEF ConInv, RoundInv, ToldInv, Coming, Take
<1> QED
  BY <1>1, <1>2, <1>3, <1>4, <1>5, Zenon DEF ConNext, Console, Xenconsoled

LEMMA CountStep == ConInv /\ CountInv /\ [ConNext]_convars => CountInv'
<1> SUFFICES ASSUME ConInv, CountInv, [ConNext]_convars PROVE CountInv'
  OBVIOUS
<1>0. cons \in Index /\ out_cons \in Index /\ taken \in Index /\ Len(output) \in Nat
  BY DEF ConInv, ConTypes, ConTypeOK, Index
<1>1. CASE ConsoleWrite
  <2>1. cons' = out_cons /\ out_cons' = out_cons /\ Len(output') = 0
    BY <1>1 DEF ConInv, RoundInv, ConsoleWrite, ring, daemon
  <2>2. cons' + Len(output') = RingWord * 0 + out_cons /\ out_cons \in 0 .. RingWord - 1
    BY <1>0, <2>1, RingFacts DEF Index
  <2>3. (cons' + Len(output')) % RingWord = out_cons
    BY <1>0, <2>1, <2>2, Remainder, RingFacts DEF Index
  <2> QED
    BY <2>1, <2>3 DEF CountInv
<1>2. CASE WriteSome \/ AwaitRoom \/ Drain \/ Send \/ NotifyGuest \/ UNCHANGED convars
  BY <1>2 DEF CountInv, WriteSome, AwaitRoom, Drain, Send, NotifyGuest, convars, ring, locals, daemon
<1>3. CASE Put \/ Publish \/ Wake
  BY <1>3 DEF CountInv, Put, Publish, Wake, ring, locals, daemon
<1>4. CASE ConsoleReturn
  BY <1>4 DEF CountInv, ConsoleReturn
<1>5. CASE Take
  <2>1. /\ cpc' = cpc /\ out_cons' = taken /\ cons' = cons
        /\ Len(output') = Len(output) + RingMinus(taken, out_cons)
    BY <1>5, TakeOutput DEF Take, locals, Available
  <2>2. cpc # "idle" => taken = (cons + (Len(output) + RingMinus(taken, out_cons))) % RingWord
    BY <1>0, RingRejoin, Zenon DEF CountInv
  <2> QED
    BY <2>1, <2>2, Zenon DEF CountInv
<1> QED
  BY <1>1, <1>2, <1>3, <1>4, <1>5, Zenon DEF ConNext, Console, Xenconsoled

LEMMA FullStep == ConInv /\ FullInv /\ [ConNext]_convars => FullInv'
<1> SUFFICES ASSUME ConInv, FullInv, [ConNext]_convars PROVE FullInv'
  OBVIOUS
<1>0. /\ out_prod \in Index /\ out_cons \in Index /\ prod \in Index /\ some_cons \in Index
      /\ InRing \in Nat /\ Len(output) \in Nat /\ RingSize \in Nat
  BY StreamType, RingFacts DEF ConInv
<1>1. CASE ConsoleWrite \/ Drain \/ ConsoleReturn
  BY <1>1 DEF FullInv, ConsoleWrite, Drain, ConsoleReturn
<1>2. CASE WriteSome
  <2>1. /\ InRing = RingMinus(out_prod, out_cons) /\ InRing' = InRing /\ output' = output
        /\ out_prod' = out_prod /\ some_cons' = out_cons /\ cpc' = "put"
    BY <1>2 DEF InRing, Ahead, RingMinus, WriteSome, ring, daemon
  <2> QED
    BY <1>0, <2>1 DEF FullInv
<1>3. CASE AwaitRoom \/ Send \/ Wake \/ NotifyGuest \/ UNCHANGED convars
  <2>1. InRing' = InRing
    BY <1>3 DEF InRing, Ahead, RingMinus, AwaitRoom, Send, Wake, NotifyGuest, convars, ring, locals
  <2> QED
    BY <1>3, <2>1 DEF FullInv, AwaitRoom, Send, Wake, NotifyGuest, convars, ring, locals, daemon
<1>4. CASE Put
  <2>1. RingMinus(out_prod, some_cons) # RingSize
    <3>1. RingMinus(out_prod, out_prod) = 0
      BY <1>0, RingMinusDef DEF Index
    <3> QED
      BY <1>4, <3>1, RingFacts DEF ConInv, RoundInv, Put, MayPut
  <2> QED
    BY <1>4, <2>1 DEF FullInv, Put
<1>5. CASE Publish
  <2>1. /\ InRing' = InRing /\ output' = output /\ cpc' = "send" /\ cpc = "put"
        /\ written' = written + s /\ text' = text
    BY <1>5 DEF InRing, Ahead, RingMinus, Publish, daemon
  <2>2. ASSUME written + s < Len(text) PROVE Len(output) + InRing >= RingSize
    <3>1. RingMinus(prod, some_cons) = RingSize
      <4>1. RingMinus(prod, some_cons) \in Nat /\ RingMinus(prod, some_cons) <= RingSize
        BY <1>0, <2>1, RingMinusDef DEF ConInv, RoundInv
      <4> QED
        BY <1>0, <1>5, <2>2, <4>1 DEF Publish, MayPut
    <3>2. CASE some_cons = out_prod /\ out_cons = out_prod
      BY <1>0, <2>1, <3>1, <3>2 DEF InRing, Ahead
    <3>3. CASE RingMinus(out_prod, some_cons) = RingSize
      BY <2>1, <3>3 DEF FullInv
    <3> QED
      BY <2>1, <3>2, <3>3 DEF ConInv, RoundInv
  <2> QED
    BY <2>1, <2>2 DEF FullInv
<1>6. CASE Take
  <2>1. Len(output') + InRing' = Len(output) + InRing
    <3>1. /\ Len(output') = Len(output) + RingMinus(taken, out_cons)
          /\ out_cons' = taken /\ Ahead' = Ahead /\ taken \in {out_cons, out_prod}
      BY <1>6, TakeOutput DEF ConInv, RoundInv, Take, locals, Available, Ahead
    <3>2. InRing' = RingMinus(Ahead, taken)
      BY <3>1 DEF InRing, RingMinus
    <3>3. CASE taken = out_cons
      <4>1. RingMinus(taken, out_cons) = 0
        BY <1>0, <3>3, RingMinusDef DEF Index
      <4> QED
        BY <1>0, <3>1, <3>2, <3>3, <4>1 DEF InRing
    <3>4. CASE taken = out_prod /\ taken # out_cons
      <4>1. Ahead = out_prod
        BY <3>4 DEF ConInv, RoundInv, Ahead
      <4>2. RingMinus(out_prod, out_prod) = 0
        BY <1>0, RingMinusDef DEF Index
      <4> QED
        BY <1>0, <3>1, <3>2, <3>4, <4>1, <4>2 DEF InRing
    <3> QED
      BY <3>1, <3>3, <3>4
  <2> QED
    BY <1>6, <2>1 DEF FullInv, Take, locals
<1> QED
  BY <1>1, <1>2, <1>3, <1>4, <1>5, <1>6, Zenon DEF ConNext, Console, Xenconsoled

LEMMA ServeSound == ConInv /\ ServeInv => WaitsServed
<1> SUFFICES ASSUME ConInv, ServeInv PROVE WaitsServed
  OBVIOUS
<1>1. cpc = "drain" /\ out_cons # out_prod => Coming
  BY DEF ServeInv, ToldInv
<1>2. ASSUME cpc = "room", out_cons = cons, ~Coming PROVE Len(output) >= RingWord
  <2>1. /\ cons \in Index /\ out_cons \in Index /\ Len(output) \in Nat
        /\ Len(output) + InRing >= RingSize
    BY <1>2 DEF ConInv, ConTypes, ConTypeOK, Index, ServeInv, FullInv
  <2>2. out_cons = out_prod
    BY <1>2 DEF ServeInv, ToldInv
  <2>3. InRing = 0
    BY <1>2, <2>1, <2>2, RingMinusDef DEF InRing, Ahead, Index
  <2>4. cons + Len(output) \in Nat /\ cons < cons + Len(output) /\ cons \in Nat
    BY <2>1, <2>3, RingFacts DEF Index
  <2>5. cons % RingWord = cons
    <3>1. cons = RingWord * 0 + cons /\ cons \in 0 .. RingWord - 1
      BY <2>1, RingFacts DEF Index
    <3> QED
      BY <2>4, <3>1, Remainder, RingFacts
  <2>6. (cons + Len(output)) % RingWord = cons
    BY <1>2 DEF ServeInv, CountInv
  <2>7. ~(cons + Len(output) < cons + RingWord)
    BY <2>4, <2>5, <2>6, Apart, RingFacts, Zenon
  <2> QED
    BY <2>1, <2>7, RingFacts DEF Index
<1> QED
  BY <1>1, <1>2, Zenon DEF WaitsServed

(* What xenconsoled has taken is the text up to there, each of its lines   *)
(* ends in CR LF, and console_write is never left waiting: for every ring, *)
(* however often its indexes wrap, and for every text, however much longer *)
(* than the ring.                                                          *)
THEOREM ConsoleExact == ConSpec => [](OutputExact /\ LinesEndProperly /\ WaitsServed)
<1>1. ConInit => ConInv /\ ServeInv
  BY ConInitInv, ServeInit
<1>2. ConInv /\ ServeInv /\ [ConNext]_convars => ConInv' /\ ServeInv'
  BY ConNextInv, ToldStep, CountStep, FullStep, Zenon DEF ServeInv
<1>3. ConInv /\ ServeInv => OutputExact /\ LinesEndProperly /\ WaitsServed
  BY ConSound, ServeSound, Zenon
<1> QED
  BY <1>1, <1>2, <1>3, PTL DEF ConSpec

-----------------------------------------------------------------------------
(* A step of the guest, seen by the event channels.                        *)
LEMMA EvtProjection == EvtInv /\ [Next]_vars => [EvtNext]_evtvars
<1> SUFFICES ASSUME EvtInv, [Next]_vars PROVE [EvtNext]_evtvars
  OBVIOUS
<1>1. CASE XenStep \/ TickStep \/ HandlerStep
  BY <1>1 DEF XenStep, TickStep, HandlerStep, EvtStep, EvtNext
<1>2. CASE ThreadStep \/ EpochReturn
  BY <1>2 DEF ThreadStep, EpochReturn, EvtStep, EvtNext, Start
<1>3. CASE YieldBegin
  <2>1. now \in 0 .. now
    BY XenAssumption DEF EvtInv, EvtTypeOK
  <2>2. QED
    BY <1>3, <2>1 DEF YieldBegin, EvtStep, EvtNext
<1>4. CASE ConsoleEvent
  BY <1>4 DEF ConsoleEvent, EvtNext
<1>5. CASE EpochCall \/ EpochStep \/ ClockUpdate \/ ConsoleCall \/ ConsoleStep \/ ConsoleDaemon
  BY <1>5 DEF EpochCall, EpochStep, ClockUpdate, ConsoleCall, ConsoleStep, ConsoleDaemon
<1>6. CASE UNCHANGED vars
  BY <1>6 DEF vars
<1> QED
  BY <1>1, <1>2, <1>3, <1>4, <1>5, <1>6 DEF Next

(* A step of the guest, seen by the clock.                                 *)
LEMMA ClkProjection == [Next]_vars => [ClkNext]_clkvars \/ ClockReturnLast
<1> SUFFICES ASSUME [Next]_vars PROVE [ClkNext]_clkvars \/ ClockReturnLast
  OBVIOUS
<1>1. CASE EpochCall \/ EpochStep \/ ClockUpdate
  BY <1>1 DEF EpochCall, EpochStep, ClockUpdate, ClkNext
<1>2. CASE EpochReturn
  BY <1>2 DEF EpochReturn
<1>3. CASE XenStep \/ TickStep \/ HandlerStep \/ ThreadStep \/ YieldBegin
  BY <1>3 DEF XenStep, TickStep, HandlerStep, ThreadStep, YieldBegin, EvtStep
<1>4. CASE ConsoleCall \/ ConsoleStep \/ ConsoleDaemon \/ ConsoleEvent
  BY <1>4 DEF ConsoleCall, ConsoleStep, ConsoleDaemon, ConsoleEvent
<1>5. CASE UNCHANGED vars
  BY <1>5 DEF vars
<1> QED
  BY <1>1, <1>2, <1>3, <1>4, <1>5 DEF Next

(* In the composed guest no upcall is lost, no event without a handler is  *)
(* met, solo5_yield keeps its timer event and its deadline, and the epoch  *)
(* is read from one set of values: whatever the console does, for every    *)
(* set of ports, of texts and of clock fields.                             *)
THEOREM GuestSafe ==
    Spec => [](NoLostUpcall /\ NoUnhandledEvent /\ SleepSound /\ ClockConsistent)
<1>1. Init => EvtInv /\ ClkInv
  BY EvtInitInv, ClkInitInv DEF Init
<1>2. EvtInv /\ ClkInv /\ [Next]_vars => EvtInv' /\ ClkInv'
  BY EvtProjection, ClkProjection, EvtNextInv, ClkNextInv, ClkLastInv
<1>3. EvtInv /\ ClkInv =>
        NoLostUpcall /\ NoUnhandledEvent /\ SleepSound /\ ClockConsistent
  BY DEF EvtInv, ClkInv, SleepSound
<1> QED
  BY <1>1, <1>2, <1>3, PTL DEF Spec

(* A step of the guest, seen by the console.                               *)
LEMMA ConProjection == [Next]_vars => [ConNext]_convars
<1> SUFFICES ASSUME [Next]_vars PROVE [ConNext]_convars
  OBVIOUS
<1>1. CASE ConsoleCall \/ ConsoleStep \/ ConsoleDaemon \/ ConsoleEvent
  BY <1>1 DEF ConsoleCall, ConsoleStep, ConsoleDaemon, ConsoleEvent, ConNext
<1>2. CASE XenStep \/ TickStep \/ HandlerStep \/ ThreadStep \/ YieldBegin
  BY <1>2 DEF XenStep, TickStep, HandlerStep, ThreadStep, YieldBegin, EvtStep
<1>3. CASE EpochCall \/ EpochStep \/ EpochReturn \/ ClockUpdate
  BY <1>3 DEF EpochCall, EpochStep, EpochReturn, ClockUpdate
<1>4. CASE UNCHANGED vars
  BY <1>4 DEF vars
<1> QED
  BY <1>1, <1>2, <1>3, <1>4 DEF Next

(* The composed guest implements the event channels and the console: what  *)
(* is proved of them alone holds of them in the guest, where the console   *)
(* sends its events through the same channels.                             *)
THEOREM GuestImplements == Spec => EvtSpec /\ ConSpec
<1>1. Init => EvtInit /\ ConInit /\ EvtInv
  BY EvtInitInv, Zenon DEF Init
<1>2. EvtInv /\ [Next]_vars => EvtInv' /\ [EvtNext]_evtvars /\ [ConNext]_convars
  BY EvtProjection, ConProjection, EvtNextInv, Zenon
<1> QED
  BY <1>1, <1>2, PTL DEF Spec, EvtSpec, ConSpec

(* In the composed guest the console shows each text exactly and is never  *)
(* waited for in vain, whatever events interrupt console_write, and all    *)
(* the parts keep their types.                                             *)
THEOREM GuestOutput == Spec => []OutputSound
<1>1. Init => EvtInv /\ ClkInv /\ ConInv /\ ServeInv
  BY EvtInitInv, ClkInitInv, ConInitInv, ServeInit, Zenon DEF Init
<1>2. EvtInv /\ ClkInv /\ ConInv /\ ServeInv /\ [Next]_vars =>
        EvtInv' /\ ClkInv' /\ ConInv' /\ ServeInv'
  <2> SUFFICES ASSUME EvtInv, ClkInv, ConInv, ServeInv, [Next]_vars
               PROVE  EvtInv' /\ ClkInv' /\ ConInv' /\ ServeInv'
    OBVIOUS
  <2>1. EvtInv' /\ ClkInv'
    BY EvtProjection, ClkProjection, EvtNextInv, ClkNextInv, ClkLastInv, Zenon
  <2>2. ConInv' /\ ServeInv'
    BY ConProjection, ConNextInv, ToldStep, CountStep, FullStep, Zenon DEF ServeInv
  <2> QED
    BY <2>1, <2>2
<1>3. EvtInv /\ ClkInv /\ ConInv /\ ServeInv => OutputSound
  BY ConSound, ServeSound, Zenon DEF EvtInv, ClkInv, OutputSound, TypeOK
<1> QED
  BY <1>1, <1>2, <1>3, PTL DEF Spec

-----------------------------------------------------------------------------
(* The loop of solo5_yield, the handler and Xen stutter or let time pass;  *)
(* the thread calls, ends the wait and returns.                            *)
LEMMA XenYieldStep ==
    ASSUME EvtInv, EvtInv', ~left, [EvtNext]_evtvars
    PROVE  left' = left /\ [Promise!Next]_(Promise!promiseVars)
<1>i. now \in Nat /\ now' \in Nat /\ deadline \in Nat /\ deadline' \in Nat
  BY XenAssumption DEF EvtInv, EvtTypeOK
<1>l. left' = left
  BY Zenon DEF EvtNext, Xen, XenRaise, Quiet, TimerFires, Notified, Tick, Handler, Interrupt, HandleUpcall,
     HandleSel, HandleScan, HandleDone, HandlePort, HandleClear, Handle, Start, MaskPort, SetVector,
     BindVirq, Register, Unmask, UnmaskTest, UnmaskAgain, UnmaskHypercall, IntrEnable, Step,
     YieldCall, YieldStep, Yield, YieldReset, YieldSetTimer, YieldCli, YieldCheck, YieldStiHlt,
     YieldSti, YieldReturn, evtvars, xenvars
<1> SUFFICES [Promise!Next]_(Promise!promiseVars)
  BY <1>l
<1>a. Promise!Answered'
  BY <1>i, <1>l DEF EvtInv, YieldOnTime, Promise!Answered, Promise!Due
<1> DEFINE Same == UNCHANGED <<now, deadline>> /\ (pc' = "return" <=> pc = "return") /\ (Yielding' <=> Yielding)
<1>s. Same => UNCHANGED Promise!promiseVars
  BY Zenon DEF Promise!promiseVars
<1>1. CASE UNCHANGED evtvars
  BY <1>1, <1>s DEF evtvars, xenvars, thread, Yielding
<1>2. CASE Xen \/ Notified
  BY <1>2, <1>s DEF Xen, XenRaise, TimerFires, Notified, Quiet, thread, Yielding
<1>3. CASE Tick
  <2>1. now' = now + 1 /\ UNCHANGED <<pc, deadline>>
    BY <1>3 DEF Tick, thread
  <2>2. Yielding' <=> Yielding
    BY <2>1 DEF Yielding
  <2> QED
    BY <1>i, <2>1, <2>2 DEF Promise!World, Promise!Next
<1>4. CASE Handler
  <2>1. CASE Interrupt
    BY <2>1, <1>s DEF Interrupt, Yielding
  <2>2. CASE ~Interrupt
    BY <1>4, <2>2, <1>s DEF Handler, HandleUpcall, HandleSel, HandleScan, HandleDone, HandlePort,
       HandleClear, Handle, thread, Yielding
  <2> QED
    BY <2>1, <2>2
<1>5. CASE Start
  BY <1>5, <1>s DEF Start, MaskPort, SetVector, BindVirq, Register, Unmask, UnmaskTest, UnmaskAgain,
     UnmaskHypercall, IntrEnable, Step, Yielding
<1>6. CASE YieldReset \/ YieldSetTimer \/ YieldCli \/ YieldCheck \/ YieldStiHlt
  BY <1>6, <1>s DEF YieldReset, YieldSetTimer, YieldCli, YieldCheck, YieldStiHlt, YieldStep, Step, Yielding
<1>7. CASE YieldSti
  <2>1. pc = "sti" /\ pc' = "return" /\ UNCHANGED <<now, deadline>>
    BY <1>7 DEF YieldSti, YieldStep, Step
  <2> QED
    BY <1>a, <1>i, <2>1 DEF Yielding, Promise!Decide, Promise!Next
<1>8. CASE YieldReturn
  <2>1. pc = "return" /\ pc' = "app" /\ deadline' = 0 /\ now' = now
    BY <1>8 DEF YieldReturn, YieldStep, Step
  <2> QED
    BY <2>1 DEF Yielding, Promise!Return, Promise!Next
<1>9. ASSUME NEW t \in 0 .. now, YieldCall(t) PROVE Promise!Next
  <2>1. pc = "app" /\ pc' \in {"reset", "return"} /\ now' = now
    BY <1>9 DEF YieldCall, YieldStep, Step
  <2> QED
    BY <1>a, <1>i, <2>1 DEF Yielding, Promise!Call, Promise!Next
<1> QED
  BY <1>1, <1>2, <1>3, <1>4, <1>5, <1>6, <1>7, <1>8, <1>9 DEF EvtNext, Yield

(* On Xen solo5_yield implements the promise of solo5.h, unless a timer is *)
(* left armed by a boot loader: the loop around hlt, the upcall handler    *)
(* and the one-shot timer are, for the application, one wait that ends at  *)
(* the deadline (xen/time.c, evtchn.c).                                    *)
THEOREM XenKeepsPromise == EvtSpec => XenImplementsYield
<1>1. EvtInit => Promise!Init
  BY DEF EvtInit, Yielding, Promise!Init
<1>2. EvtInv /\ EvtInv' /\ ~left /\ [EvtNext]_evtvars =>
        ~left' /\ [Promise!Next]_(Promise!promiseVars)
  BY XenYieldStep, Zenon
<1> QED
  BY <1>1, <1>2, EvtInitInv, EvtNextInv, PTL DEF EvtSpec, XenImplementsYield, Promise!Spec
=============================================================================
