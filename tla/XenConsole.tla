----------------------------- MODULE XenConsole -----------------------------
(***************************************************************************)
(* The Xen console (bindings/xen/console.c): console_write puts a text in  *)
(* the ring it shares with xenconsoled, LF as CR LF, and waits until all   *)
(* of it has been taken.  xenconsoled, modelled from how the driver uses   *)
(* it, takes all there is when it is notified.  A text is a sequence of    *)
(* characters; what the driver tells apart is "LF" from the others.  "CR"  *)
(* stands for the ones it adds: a CR of the text is any other character.   *)
(***************************************************************************)
EXTENDS Integers, Sequences, FiniteSets

CONSTANTS
    RingSize,   \* sizeof(console_ring->out), a power of two
    RingWord,   \* values of a ring index (2^32)
    Characters, \* the characters of a text
    Texts       \* texts that may be written

ASSUME ConsoleAssumption ==
    /\ RingSize \in Nat \ {0, 1} /\ RingWord \in Nat
    /\ RingWord > RingSize /\ RingWord % RingSize = 0
    /\ "CR" \notin Characters /\ Texts \subseteq Seq(Characters)

VARIABLES
    out, out_prod, out_cons,   \* struct xencons_interface
    cpc, text,                 \* console_write and its argument
    cons,                      \* its local
    written,                   \* characters put, in earlier rounds
    s, some_cons, prod, wrote_cr,   \* locals of console_write_some
    event,                     \* xenconsoled has been notified
    xpc, taken,                \* xenconsoled; the out_prod it loaded
    output                     \* what it has taken during this call

ring == <<out, out_prod, out_cons>>
locals == <<cons, written, s, some_cons, prod, wrote_cr>>
daemon == <<event, xpc, taken, output>>
convars == <<ring, cpc, text, locals, daemon>>

RingPlus(i, n) == (i + n) % RingWord
RingMinus(i, j) == (i - j) % RingWord

(* console_init: the ring is empty.                                        *)
ConInit ==
    /\ out = [i \in 0 .. RingSize - 1 |-> "NUL"]
    /\ out_prod = RingWord - 1 /\ out_cons = RingWord - 1
    /\ cpc = "idle" /\ text = <<>>
    /\ cons = 0 /\ written = 0 /\ s = 0 /\ some_cons = 0 /\ prod = 0 /\ wrote_cr = FALSE
    /\ event = FALSE /\ xpc = "wait" /\ taken = 0 /\ output = <<>>

-----------------------------------------------------------------------------
ConsoleWrite ==
    /\ cpc = "idle" /\ cpc' = "some" /\ text' \in Texts
    /\ cons' = out_cons
    /\ UNCHANGED <<ring, written, s, some_cons, prod, wrote_cr, daemon>>

(* console_write_some.                                                     *)
WriteSome ==
    /\ cpc = "some" /\ cpc' = "put"
    /\ s' = 0 /\ some_cons' = out_cons /\ prod' = out_prod /\ wrote_cr' = FALSE
    /\ UNCHANGED <<ring, text, cons, written, daemon>>

(* Mutant: the ring may be filled one beyond its size.                     *)
MayPutOver ==
    written + s < Len(text) /\ RingMinus(prod, some_cons) <= RingSize

MayPut == written + s < Len(text) /\ RingMinus(prod, some_cons) < RingSize

(* Mutant: LF is put as it is.                                             *)
NeedsCrNever == FALSE

NeedsCr == text[written + s + 1] = "LF" /\ ~wrote_cr

Put ==
    /\ cpc = "put" /\ MayPut
    /\ prod' = RingPlus(prod, 1)
    /\ out' = [out EXCEPT ![prod % RingSize] = IF NeedsCr THEN "CR" ELSE text[written + s + 1]]
    /\ wrote_cr' = NeedsCr
    /\ s' = IF NeedsCr THEN s ELSE s + 1
    /\ UNCHANGED <<out_prod, out_cons, cpc, text, cons, written, some_cons, daemon>>

Publish ==
    /\ cpc = "put" /\ ~MayPut /\ cpc' = "send"
    /\ out_prod' = prod /\ written' = written + s /\ s' = 0
    /\ UNCHANGED <<out, out_cons, text, cons, some_cons, prod, wrote_cr, daemon>>

(* Mutant: xenconsoled is told only at the end.                            *)
SendAtEnd ==
    /\ cpc = "send" /\ event' = (event \/ written = Len(text))
    /\ cpc' = IF written < Len(text) THEN "room" ELSE "drain"
    /\ UNCHANGED <<ring, text, locals, xpc, taken, output>>

(* hypercall_evtchn_send.                                                  *)
Send ==
    /\ cpc = "send" /\ event' = TRUE
    /\ cpc' = IF written < Len(text) THEN "room" ELSE "drain"
    /\ UNCHANGED <<ring, text, locals, xpc, taken, output>>

(* Wait for more space.                                                    *)
AwaitRoom ==
    /\ cpc = "room" /\ out_cons # cons /\ cpc' = "some"
    /\ UNCHANGED <<ring, text, locals, daemon>>

(* Mutant: the last characters are not waited for.                         *)
NoDrain ==
    /\ cpc = "drain" /\ cpc' = "done"
    /\ UNCHANGED <<ring, text, locals, daemon>>

(* Wait for xenconsoled to consume all the data.                           *)
Drain ==
    /\ cpc = "drain" /\ out_cons = out_prod /\ cpc' = "done"
    /\ UNCHANGED <<ring, text, locals, daemon>>

(* The locals die with the call, and the account of its output is closed.  *)
ConsoleReturn ==
    /\ cpc = "done" /\ cpc' = "idle" /\ text' = <<>> /\ output' = <<>>
    /\ cons' = 0 /\ written' = 0 /\ s' = 0 /\ some_cons' = 0 /\ prod' = 0 /\ wrote_cr' = FALSE
    /\ UNCHANGED <<ring, event, xpc, taken>>

Console ==
    \/ WriteSome \/ Put \/ Publish \/ Send \/ AwaitRoom \/ Drain \/ ConsoleReturn

-----------------------------------------------------------------------------
(* xenconsoled.                                                            *)

Wake ==
    /\ xpc = "wait" /\ event /\ event' = FALSE /\ xpc' = "take" /\ taken' = out_prod
    /\ UNCHANGED <<ring, cpc, text, locals, output>>

Available == RingMinus(taken, out_cons)

Take ==
    /\ xpc = "take" /\ xpc' = "notify"
    /\ output' = output \o [i \in 1 .. Available |-> out[(out_cons + i - 1) % RingSize]]
    /\ out_cons' = taken /\ taken' = 0
    /\ UNCHANGED <<out, out_prod, cpc, text, locals, event>>

(* It notifies the guest's console port, and looks for more.               *)
NotifyGuest ==
    /\ xpc = "notify" /\ xpc' = "wait"
    /\ UNCHANGED <<ring, cpc, text, locals, event, taken, output>>

Xenconsoled == Wake \/ Take

ConNext == ConsoleWrite \/ Console \/ Xenconsoled \/ NotifyGuest

ConSpec == ConInit /\ [][ConNext]_convars

-----------------------------------------------------------------------------
(* Type invariant.                                                         *)
ConTypeOK ==
    /\ out_prod \in 0 .. RingWord - 1 /\ out_cons \in 0 .. RingWord - 1
    /\ cons \in 0 .. RingWord - 1 /\ some_cons \in 0 .. RingWord - 1
    /\ prod \in 0 .. RingWord - 1 /\ taken \in 0 .. RingWord - 1
    /\ written + s \in 0 .. Len(text)
    /\ cpc \in {"idle", "some", "put", "send", "room", "drain", "done"}
    /\ xpc \in {"wait", "take", "notify"}

(* How many of the first n characters of q are not added CRs.              *)
Kept(q, n) == Cardinality({i \in 1 .. n : q[i] # "CR"})

(* What xenconsoled has taken is the beginning of the text, character by   *)
(* character, and all of it when console_write returns: nothing in the     *)
(* ring is overwritten before it was taken, and a text longer than the     *)
(* ring is continued where it stopped.                                     *)
OutputExact ==
    /\ Kept(output, Len(output)) <= Len(text)
    /\ \A i \in 1 .. Len(output) : output[i] # "CR" => output[i] = text[Kept(output, i)]
    /\ cpc \in {"done", "idle"} => Kept(output, Len(output)) = Len(text)

(* Every LF follows a CR, and no more than two of them even where the ring *)
(* fills up between the two: "Could cause a CR to be output twice if we    *)
(* overrun the ring, too bad."                                             *)
LinesEndProperly ==
    \A i \in 1 .. Len(output) :
        /\ output[i] = "LF" => i > 1 /\ output[i - 1] = "CR"
        /\ i > 2 => ~(output[i] = "CR" /\ output[i - 1] = "CR" /\ output[i - 2] = "CR")

(* console_write never waits for nothing: while it waits for the ring to   *)
(* drain or for space, xenconsoled has been notified since the ring was    *)
(* filled, or is about to take all that is there.  It recognizes new space *)
(* by comparing out_cons with the value at the beginning of the call; that *)
(* comes back only after a whole word of characters.                       *)
Coming == event \/ (xpc = "take" /\ taken = out_prod)
WaitsServed ==
    /\ cpc = "drain" /\ out_cons # out_prod => Coming
    /\ cpc = "room" /\ out_cons = cons => Coming \/ Len(output) >= RingWord
=============================================================================
