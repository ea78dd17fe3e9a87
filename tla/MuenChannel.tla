----------------------------- MODULE MuenChannel -----------------------------
(***************************************************************************)
(* The shared-memory channel of the Muen bindings: one writer (writer.c),  *)
(* one reader (reader.c) and no way back from the reader to the writer.    *)
(* The writer never waits: it may overwrite what the reader has not read,  *)
(* and may start the channel afresh under a new epoch.  Writers only store *)
(* and readers only load, in program order, so one step per access of the  *)
(* channel header or of half an element is all x86 can show.  The stores   *)
(* of memset() and the plain stores of muen_channel_init_writer come in    *)
(* any order between their compiler barriers.                              *)
(*                                                                         *)
(* An element is what its writer makes of it: <<epoch, number>>, in two    *)
(* halves.  Bounds: MaxEpoch starts of the writer, MaxWc writes in each.   *)
(***************************************************************************)
EXTENDS Integers

CONSTANTS Elements,   \* slots of the data area
          Word,       \* values of a counter (2^64 in the code)
          MaxEpoch, MaxWc

ASSUME MuenAssumption ==
    /\ Elements \in Nat \ {0} /\ MaxEpoch \in Nat /\ MaxWc \in Nat
    /\ Word \in Nat /\ Word > MaxWc + Elements

VARIABLES
    hdr,       \* channel->hdr: compatible, size, elements, wsc, wc
    epoch,     \* channel->hdr.epoch
    data,      \* channel->data, slots of two halves
    wpc,       \* where the writer is
    todo,      \* header fields its plain stores have yet to reach
    new,       \* what init_writer is about to publish: epoch, compatible
    rpc, rop,  \* where the reader is, in which call
    reader,    \* struct muchannel_reader: epoch, size, elements, rc
    element,   \* the caller's buffer
    result     \* of the last call

channel == <<hdr, epoch, data>>
writer == <<wpc, todo, new>>
rdr == <<rpc, rop, reader, element, result>>
vars == <<channel, writer, rdr>>

NULL_EPOCH == 0
Zero == <<0, 0>>                 \* a half element after memset()
Blank == [h \in 1 .. 2 |-> Zero]
Fields == {"compatible", "size", "elements", "wsc", "wc"}
Results == {"NONE", "INACTIVE", "INCOMPATIBLE", "EPOCH_CHANGED", "NO_DATA",
            "OVERRUN", "SUCCESS", "PENDING", "NOT_PENDING"}

Sub(a, b) == (a - b) % Word

Init ==
    /\ hdr = [f \in Fields |-> 0] /\ epoch = NULL_EPOCH
    /\ data = [s \in 0 .. Elements - 1 |-> Blank]
    /\ wpc = "off" /\ todo = {} /\ new = [epoch |-> NULL_EPOCH, compatible |-> 0]
    /\ rpc = "idle" /\ rop = "read"
    /\ reader = [epoch |-> NULL_EPOCH, size |-> 0, elements |-> 0, rc |-> 0]
    /\ element = Blank /\ result = "NONE"

-----------------------------------------------------------------------------
(* The writer: muen_channel_init_writer, when the writer starts or when it *)
(* is restarted, wherever it was.                                          *)

(* Mutant: the channel stays active while it is set up again.              *)
NoDeactivate ==
    /\ new.epoch < MaxEpoch /\ wpc' = "clear"
    /\ \E c \in 0 .. 1 : new' = [epoch |-> new.epoch + 1, compatible |-> c]
    /\ todo' = Fields \cup {"data"}
    /\ UNCHANGED <<channel, rdr>>

Deactivate ==
    /\ new.epoch < MaxEpoch /\ wpc' = "clear"
    /\ \E c \in 0 .. 1 : new' = [epoch |-> new.epoch + 1, compatible |-> c]
    /\ epoch' = NULL_EPOCH
    /\ todo' = Fields \cup {"data"}
    /\ UNCHANGED <<hdr, data, rdr>>

(* The two memset()s.                                                      *)
Clear ==
    /\ wpc = "clear"
    /\ \E t \in todo :
          /\ todo' = todo \ {t}
          /\ IF t \in Fields
               THEN hdr' = [hdr EXCEPT ![t] = 0] /\ UNCHANGED data
               ELSE data' = [s \in DOMAIN data |-> Blank] /\ UNCHANGED hdr
    /\ UNCHANGED <<epoch, wpc, new, rdr>>

Cleared ==
    /\ wpc = "clear" /\ todo = {}
    /\ wpc' = "fill" /\ todo' = Fields
    /\ UNCHANGED <<channel, new, rdr>>

Geometry == [compatible |-> new.compatible, size |-> 1, elements |-> Elements,
             wsc |-> 0, wc |-> 0]

Fill ==
    /\ wpc = "fill"
    /\ \E f \in todo :
          /\ todo' = todo \ {f}
          /\ hdr' = [hdr EXCEPT ![f] = Geometry[f]]
    /\ UNCHANGED <<epoch, data, wpc, new, rdr>>

Activate ==
    /\ wpc = "fill" /\ todo = {} /\ wpc' = "ready"
    /\ epoch' = new.epoch
    /\ UNCHANGED <<hdr, data, todo, new, rdr>>

(* muen_channel_write: announce in wsc, copy, publish in wc.               *)
WriteStart ==
    /\ wpc = "ready" /\ wpc' = "copy1"
    /\ hdr["wc"] < MaxWc
    /\ hdr' = [hdr EXCEPT !["wsc"] = (hdr["wc"] + 1) % Word]
    /\ UNCHANGED <<epoch, data, todo, new, rdr>>

WriteHalf(h, from, to) ==
    /\ wpc = from /\ wpc' = to
    /\ data' = [data EXCEPT ![hdr["wc"] % hdr["elements"]][h] = <<epoch, hdr["wc"]>>]
    /\ UNCHANGED <<hdr, epoch, todo, new, rdr>>

(* Mutant: wc is published one too far.                                    *)
WriteDoneTwice ==
    /\ wpc = "publish" /\ wpc' = "ready"
    /\ hdr' = [hdr EXCEPT !["wc"] = hdr["wsc"] + 1]
    /\ UNCHANGED <<epoch, data, todo, new, rdr>>

WriteDone ==
    /\ wpc = "publish" /\ wpc' = "ready"
    /\ hdr' = [hdr EXCEPT !["wc"] = hdr["wsc"]]
    /\ UNCHANGED <<epoch, data, todo, new, rdr>>

Writer ==
    \/ Deactivate \/ Clear \/ Cleared \/ Fill \/ Activate
    \/ WriteStart \/ WriteHalf(1, "copy1", "copy2")
    \/ WriteHalf(2, "copy2", "publish") \/ WriteDone

-----------------------------------------------------------------------------
(* The reader: muen_channel_read, and muen_channel_has_pending_data as     *)
(* solo5_yield calls it.                                                   *)

Return(r) == rpc' = "idle" /\ result' = r
ReaderStep == UNCHANGED <<channel, writer, rop>>

(* muen_channel_is_active.                                                 *)
Enter ==
    /\ rpc = "idle" /\ rop' \in {"read", "pending"}
    /\ IF epoch # NULL_EPOCH
         THEN rpc' = "epoch" /\ UNCHANGED <<reader, result>>
         ELSE IF rop' = "read"
           THEN reader' = [reader EXCEPT !.epoch = NULL_EPOCH] /\ Return("INACTIVE")
           ELSE Return("NOT_PENDING") /\ UNCHANGED reader
    /\ UNCHANGED <<channel, writer, element>>

(* Mutant: a changed epoch is not noticed.                                 *)
CheckNullEpoch ==
    /\ rpc = "epoch"
    /\ rpc' = IF reader.epoch = NULL_EPOCH THEN "sync" ELSE "wc"
    /\ ReaderStep /\ UNCHANGED <<reader, element, result>>

(* reader->epoch is the null epoch, or has_epoch_changed.                  *)
CheckEpoch ==
    /\ rpc = "epoch"
    /\ rpc' = IF reader.epoch = NULL_EPOCH \/ reader.epoch # epoch
                THEN "sync" ELSE "wc"
    /\ ReaderStep /\ UNCHANGED <<reader, element, result>>

(* synchronize: protocol and transport, then epoch, size and elements.     *)
SyncProtocol ==
    /\ rpc = "sync"
    /\ IF hdr["compatible"] = 1
         THEN rpc' = "sync_epoch" /\ UNCHANGED result
         ELSE Return(IF rop = "read" THEN "INCOMPATIBLE" ELSE "NOT_PENDING")
    /\ ReaderStep /\ UNCHANGED <<reader, element>>

SyncEpoch ==
    /\ rpc = "sync_epoch" /\ rpc' = "sync_size"
    /\ reader' = [reader EXCEPT !.epoch = epoch]
    /\ ReaderStep /\ UNCHANGED <<element, result>>

SyncSize ==
    /\ rpc = "sync_size" /\ rpc' = "sync_elements"
    /\ reader' = [reader EXCEPT !.size = hdr["size"]]
    /\ ReaderStep /\ UNCHANGED <<element, result>>

SyncElements ==
    /\ rpc = "sync_elements"
    /\ reader' = [reader EXCEPT !.elements = hdr["elements"], !.rc = 0]
    /\ IF rop = "read" THEN Return("EPOCH_CHANGED")
                       ELSE rpc' = "wc" /\ UNCHANGED result
    /\ ReaderStep /\ UNCHANGED element

Lag(count) == Sub(count, reader.rc)

ReadWc ==
    /\ rpc = "wc"
    /\ CASE rop = "pending" ->
              Return(IF hdr["wc"] > reader.rc THEN "PENDING" ELSE "NOT_PENDING")
         [] rop = "read" /\ hdr["wc"] = reader.rc -> Return("NO_DATA")
         [] rop = "read" /\ hdr["wc"] # reader.rc ->
              IF Lag(hdr["wc"]) > reader.elements
                THEN Return("OVERRUN")
                ELSE rpc' = "copy1" /\ UNCHANGED result
    /\ ReaderStep /\ UNCHANGED <<reader, element>>

(* pos = reader->rc % reader->elements * reader->size; memcpy().           *)
ReadHalf(h, from, to) ==
    /\ rpc = from /\ rpc' = to
    /\ element' = [element EXCEPT ![h] =
                      data[(reader.rc % reader.elements) * reader.size][h]]
    /\ ReaderStep /\ UNCHANGED <<reader, result>>

(* Mutant: the copy is judged by wc instead of wsc.                        *)
ReadWcAgain ==
    /\ rpc = "wsc" /\ rpc' = "recheck"
    /\ IF Lag(hdr["wc"]) > reader.elements
         THEN result' = "OVERRUN" /\ UNCHANGED reader
         ELSE result' = "SUCCESS" /\ reader' = [reader EXCEPT !.rc = (@ + 1) % Word]
    /\ ReaderStep /\ UNCHANGED element

(* Mutant: rc is not advanced.                                             *)
ReadNoAdvance ==
    /\ rpc = "wsc" /\ rpc' = "recheck"
    /\ result' = IF Lag(hdr["wsc"]) > reader.elements THEN "OVERRUN" ELSE "SUCCESS"
    /\ ReaderStep /\ UNCHANGED <<reader, element>>

ReadWsc ==
    /\ rpc = "wsc" /\ rpc' = "recheck"
    /\ IF Lag(hdr["wsc"]) > reader.elements
         THEN result' = "OVERRUN" /\ UNCHANGED reader
         ELSE result' = "SUCCESS" /\ reader' = [reader EXCEPT !.rc = (@ + 1) % Word]
    /\ ReaderStep /\ UNCHANGED element

RecheckEpoch ==
    /\ rpc = "recheck" /\ rpc' = "idle"
    /\ IF reader.epoch # epoch
         THEN /\ result' = "EPOCH_CHANGED"
              /\ reader' = [reader EXCEPT !.epoch = NULL_EPOCH]
         ELSE UNCHANGED <<result, reader>>
    /\ ReaderStep /\ UNCHANGED element

Reader ==
    \/ Enter \/ CheckEpoch \/ SyncProtocol \/ SyncEpoch \/ SyncSize \/ SyncElements
    \/ ReadWc \/ ReadHalf(1, "copy1", "copy2") \/ ReadHalf(2, "copy2", "wsc")
    \/ ReadWsc \/ RecheckEpoch

-----------------------------------------------------------------------------
Next == Writer \/ Reader
Spec == Init /\ [][Next]_vars

(* The application keeps calling solo5_net_read; the writer may stop.      *)
Reads == Enter /\ rop' = "read"
FairSpec == Spec /\ WF_vars(Reader) /\ SF_vars(Reads)

-----------------------------------------------------------------------------
(* Properties.                                                             *)

(* Type invariant: counters stay 64-bit words, wsc is at most one ahead of *)
(* wc on an active channel, and the epoch is the one its writer announced. *)
TypeOK ==
    /\ hdr \in [Fields -> 0 .. Word - 1]
    /\ epoch \in {NULL_EPOCH, new.epoch} /\ new.epoch \in 0 .. MaxEpoch
    /\ epoch # NULL_EPOCH => hdr["wsc"] - hdr["wc"] \in 0 .. 1
    /\ data \in [0 .. Elements - 1 -> [1 .. 2 -> (0 .. MaxEpoch) \X (0 .. MaxWc)]]
    /\ wpc \in {"off", "clear", "fill", "ready", "copy1", "copy2", "publish"}
    /\ todo \subseteq Fields \cup {"data"}
    /\ rpc \in {"idle", "epoch", "sync", "sync_epoch", "sync_size", "sync_elements",
                "wc", "copy1", "copy2", "wsc", "recheck"}
    /\ rop \in {"read", "pending"} /\ result \in Results
    /\ reader \in [epoch : 0 .. MaxEpoch, size : 0 .. 1,
                   elements : {0, Elements}, rc : 0 .. MaxWc]

(* A read that reports MUCHANNEL_SUCCESS delivers the element number rc of *)
(* the reader's epoch, whole: never two halves of different writes, never  *)
(* one from before a restart of the writer, never one twice or out of      *)
(* order, although the writer never waits for the copy to finish.          *)
ReadIsExact ==
    rpc = "idle" /\ result = "SUCCESS" =>
        \A h \in 1 .. 2 : element[h] = <<reader.epoch, reader.rc - 1>>

(* Whoever copies knows the geometry: a header caught half initialised by  *)
(* synchronize is never used, so reader->rc % reader->elements is defined  *)
(* and, with the types of all counters, within the data area.              *)
GeometryKnown ==
    /\ TypeOK
    /\ rpc \in {"copy1", "copy2"} => reader.elements = Elements /\ reader.size = 1

Behind(p) ==
    /\ epoch # NULL_EPOCH /\ reader.epoch = epoch /\ reader.rc % 2 = p
    /\ hdr["wc"] # reader.rc /\ Lag(hdr["wsc"]) <= Elements

(* A reader that is behind but not overrun gets its next element; with it  *)
(* reader->rc changes its parity.                                          *)
ReadAdvances == \A p \in 0 .. 1 : Behind(p) ~> ~Behind(p)

Detached == epoch # NULL_EPOCH /\ hdr["compatible"] = 1 /\ reader.epoch # epoch

(* After every restart of the writer the reader attaches to the new epoch  *)
(* by itself, however the restart met its calls (unless the writer starts  *)
(* yet another one, which takes the epoch away first).                     *)
Resynchronises == Detached ~> ~Detached

Overrun(e) ==
    epoch = e /\ reader.epoch = e /\ Lag(hdr["wc"]) > Elements

(* include/solo5.h: SOLO5_R_AGAIN means that "Retrying an identical        *)
(* operation at a later time may succeed."  An overrun reader must then    *)
(* come out of the overrun by retrying.                                    *)
RetrySucceeds == \A e \in 1 .. MaxEpoch : Overrun(e) ~> ~Overrun(e)
=============================================================================
