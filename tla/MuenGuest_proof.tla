-------------------------- MODULE MuenGuest_proof --------------------------
(***************************************************************************)
(* The Muen bindings, for every size of the channel, every number of       *)
(* restarts and writes, every TSC rate and every length of a minor frame.  *)
(*                                                                         *)
(* First the channel (ChannelInv), then the clock and solo5_yield          *)
(* (MuenInv), then the guest made of them.                                 *)
(***************************************************************************)
EXTENDS MuenGuest, Arithmetic

Halves2 == 1 .. 2
Slots == 0 .. Elements - 1
Writing == {"copy1", "copy2", "publish"}
Pairs == (0 .. MaxEpoch) \X (0 .. MaxWc)

(* The header and the counters are what the writer's place says.           *)
WriterInv ==
    /\ hdr \in [Fields -> Nat]
    /\ hdr["compatible"] \in 0 .. 1 /\ hdr["size"] \in 0 .. 1 /\ hdr["elements"] \in {0, Elements}
    /\ hdr["wsc"] \in 0 .. MaxWc /\ hdr["wc"] \in 0 .. MaxWc
    /\ data \in [Slots -> [Halves2 -> Pairs]]
    /\ wpc \in {"off", "clear", "fill", "ready"} \cup Writing
    /\ todo \subseteq Fields \cup {"data"} /\ (wpc = "fill" => todo \subseteq Fields)
    /\ new.epoch \in 0 .. MaxEpoch /\ new.compatible \in 0 .. 1
    /\ wpc # "off" => new.epoch > 0
    /\ epoch = IF wpc \in {"ready"} \cup Writing THEN new.epoch ELSE NULL_EPOCH
    /\ wpc = "fill" => \A f \in Fields \ todo : hdr[f] = Geometry[f]
    /\ epoch # NULL_EPOCH =>
          /\ hdr["size"] = 1 /\ hdr["elements"] = Elements
          /\ hdr["wsc"] = IF wpc \in Writing THEN hdr["wc"] + 1 ELSE hdr["wc"]

(* On an active channel the elements that no write has announced to        *)
(* overwrite are there, and the one being written is as far as the writer. *)
DataInv ==
    epoch # NULL_EPOCH =>
        /\ \A n \in Nat : hdr["wsc"] <= n + Elements /\ n < hdr["wc"] =>
              \A h \in Halves2 : data[n % Elements][h] = <<epoch, n>>
        /\ wpc \in {"copy2", "publish"} => data[hdr["wc"] % Elements][1] = <<epoch, hdr["wc"]>>
        /\ wpc = "publish" => data[hdr["wc"] % Elements][2] = <<epoch, hdr["wc"]>>

(* The reader's epoch is the channel's.  It never comes back once the      *)
(* writer has left it.                                                     *)
Attached == epoch # NULL_EPOCH /\ reader.epoch = epoch

ReaderInv ==
    /\ reader \in [epoch : 0 .. MaxEpoch, size : 0 .. 1, elements : {0, Elements}, rc : 0 .. MaxWc]
    /\ element \in [Halves2 -> Pairs]
    /\ rpc \in {"idle", "epoch", "sync", "sync_epoch", "sync_size", "sync_elements",
                "wc", "copy1", "copy2", "wsc", "recheck"}
    /\ rop \in {"read", "pending"} /\ result \in Results
    /\ rpc = "recheck" => result \in {"SUCCESS", "OVERRUN"}
    /\ reader.epoch <= new.epoch
    /\ epoch = NULL_EPOCH /\ wpc # "off" => reader.epoch < new.epoch
    /\ rpc \in {"copy1", "copy2", "wsc", "recheck"} \/ (rpc = "wc" /\ rop = "read") =>
          reader.epoch # NULL_EPOCH /\ reader.elements = Elements /\ reader.size = 1
    /\ rpc \in {"copy1", "copy2", "wsc"} => reader.rc < MaxWc
    /\ Attached =>
          /\ rpc # "sync_size" => reader.size = 1
          /\ rpc \notin {"sync_size", "sync_elements"} =>
                reader.elements = Elements /\ reader.rc <= hdr["wc"]
          /\ rpc \in {"copy1", "copy2", "wsc"} => reader.rc < hdr["wc"]

(* What the reader has copied is the element rc of its epoch, unless the   *)
(* writer has announced that it overwrites it.                             *)
CopyInv ==
    Attached =>
        /\ rpc \in {"copy2", "wsc"} /\ hdr["wsc"] <= reader.rc + Elements =>
              element[1] = <<epoch, reader.rc>>
        /\ rpc = "wsc" /\ hdr["wsc"] <= reader.rc + Elements =>
              element[2] = <<epoch, reader.rc>>
        /\ rpc = "recheck" /\ result = "SUCCESS" =>
              \A h \in Halves2 : element[h] = <<epoch, reader.rc - 1>>

ChannelInv == WriterInv /\ DataInv /\ ReaderInv /\ CopyInv /\ ReadIsExact

(* Before the writer starts, the channel is inactive and blank.            *)
LEMMA ChannelInitInv == Init => ChannelInv
<1> SUFFICES ASSUME Init PROVE ChannelInv
  OBVIOUS
<1> USE MuenAssumption DEF NULL_EPOCH
<1>0. <<0, 0>> \in Pairs
  BY DEF Pairs
<1>1. Blank \in [Halves2 -> Pairs]
  BY <1>0 DEF Blank, Zero, Halves2
<1>2. WriterInv
  BY <1>1 DEF Init, WriterInv, Slots, Fields, Writing
<1>3. ReaderInv
  BY <1>1 DEF Init, ReaderInv, Results, Attached
<1> QED
  BY <1>2, <1>3 DEF Init, ChannelInv, DataInv, CopyInv, Attached, ReadIsExact

(* A lag within the channel is a true difference.                          *)
LEMMA LagExact ==
    ASSUME NEW c \in 0 .. MaxWc, reader.rc \in 0 .. MaxWc
    PROVE  Lag(c) <= Elements => reader.rc <= c /\ Lag(c) = c - reader.rc
<1>1. Word \in Nat \ {0} /\ MaxWc \in Nat /\ Elements \in Nat
  BY MuenAssumption
<1>2. CASE reader.rc <= c
  <2>1. c - reader.rc \in 0 .. Word - 1
    BY <1>1, <1>2, MuenAssumption
  <2>2. Lag(c) = c - reader.rc
    BY <1>1, <2>1 DEF Lag, Sub
  <2> QED
    BY <1>2, <2>2
<1>3. CASE reader.rc > c
  <2>1. c - reader.rc + Word \in 0 .. Word - 1
    BY <1>1, <1>3, MuenAssumption
  <2>2. (c - reader.rc) % Word = c - reader.rc + Word
    BY <1>1, <2>1
  <2>3. Lag(c) > Elements
    BY <1>1, <2>2, MuenAssumption DEF Lag, Sub
  <2> QED
    BY <1>1, <2>2, <2>3 DEF Lag, Sub
<1> QED
  BY <1>1, <1>2, <1>3

(* While the channel is inactive nothing is said of its data.              *)
LEMMA SetupInv ==
    ASSUME ChannelInv, Deactivate \/ Clear \/ Cleared \/ Fill PROVE ChannelInv'
<1> USE MuenAssumption DEF NULL_EPOCH
<1>r. UNCHANGED rdr /\ ReadIsExact'
  BY DEF Deactivate, Clear, Cleared, Fill, rdr, ChannelInv, ReadIsExact
<1>e. epoch' = NULL_EPOCH /\ wpc' \in {"clear", "fill"}
  <2>1. CASE Deactivate
    BY <2>1 DEF Deactivate
  <2>2. CASE Clear \/ Cleared \/ Fill
    BY <2>2 DEF Clear, Cleared, Fill, channel, ChannelInv, WriterInv, Writing
  <2> QED
    BY <2>1, <2>2
<1>n. reader.epoch < new'.epoch /\ new'.epoch \in 0 .. MaxEpoch /\ new'.epoch > 0
      /\ new'.compatible \in 0 .. 1
  <2>1. CASE Deactivate
    BY <2>1 DEF Deactivate, ChannelInv, WriterInv, ReaderInv
  <2>2. CASE Clear \/ Cleared \/ Fill
    BY <2>2 DEF Clear, Cleared, Fill, ChannelInv, WriterInv, ReaderInv, Writing
  <2> QED
    BY <2>1, <2>2
<1>1. WriterInv'
  <2>1. CASE Deactivate
    BY <1>n, <2>1 DEF Deactivate, ChannelInv, WriterInv, Writing
  <2>2. CASE Clear
    <3>1. PICK t \in todo :
          /\ todo' = todo \ {t}
          /\ IF t \in Fields
               THEN hdr' = [hdr EXCEPT ![t] = 0] /\ UNCHANGED data
               ELSE data' = [x \in DOMAIN data |-> Blank] /\ UNCHANGED hdr
      BY <2>2 DEF Clear
    <3>2. wpc = "clear" /\ wpc' = "clear" /\ UNCHANGED <<epoch, new>>
      BY <2>2 DEF Clear
    <3>3. CASE t \in Fields
      <4>1. hdr' = [hdr EXCEPT ![t] = 0] /\ UNCHANGED data
        BY <3>1, <3>3
      <4>2. \A f \in Fields : hdr'[f] \in {0, hdr[f]}
        BY <4>1 DEF ChannelInv, WriterInv
      <4>3. hdr' \in [Fields -> Nat]
        BY <4>1, Zenon DEF ChannelInv, WriterInv
      <4>4. /\ hdr'["compatible"] \in 0 .. 1 /\ hdr'["size"] \in 0 .. 1
            /\ hdr'["elements"] \in {0, Elements}
            /\ hdr'["wsc"] \in 0 .. MaxWc /\ hdr'["wc"] \in 0 .. MaxWc
        BY <4>2 DEF ChannelInv, WriterInv, Fields
      <4>5. todo' \subseteq Fields \cup {"data"}
        BY <3>1 DEF ChannelInv, WriterInv
      <4> QED
        BY <3>2, <4>1, <4>3, <4>4, <4>5 DEF ChannelInv, WriterInv, Writing
    <3>4. CASE t \notin Fields
      <4>1. data' = [x \in Slots |-> Blank] /\ UNCHANGED hdr
        BY <3>1, <3>4 DEF ChannelInv, WriterInv
      <4>2. <<0, 0>> \in Pairs
        BY DEF Pairs
      <4>3. Blank \in [Halves2 -> Pairs]
        BY <4>2 DEF Blank, Zero, Halves2
      <4>4. data' \in [Slots -> [Halves2 -> Pairs]]
        BY <4>1, <4>3
      <4> QED
        BY <3>1, <3>2, <4>1, <4>4 DEF ChannelInv, WriterInv, Writing
    <3> QED
      BY <3>3, <3>4
  <2>3. CASE Cleared
    BY <2>3 DEF Cleared, channel, ChannelInv, WriterInv, Writing
  <2>4. CASE Fill
    <3>1. PICK f \in todo : todo' = todo \ {f} /\ hdr' = [hdr EXCEPT ![f] = Geometry[f]]
      BY <2>4, Zenon DEF Fill
    <3>2. wpc = "fill" /\ wpc' = "fill" /\ UNCHANGED <<epoch, data, new>>
      BY <2>4 DEF Fill
    <3>3. f \in Fields /\ Geometry' = Geometry
      BY <3>1, <3>2 DEF ChannelInv, WriterInv, Geometry
    <3>4. Geometry["compatible"] = new.compatible /\ Geometry["size"] = 1
          /\ Geometry["elements"] = Elements /\ Geometry["wsc"] = 0 /\ Geometry["wc"] = 0
      BY DEF Geometry
    <3>5. \A g \in Fields : hdr'[g] = IF g = f THEN Geometry[g] ELSE hdr[g]
      BY <3>1, <3>3 DEF ChannelInv, WriterInv
    <3>6. hdr' \in [Fields -> Nat]
      BY <3>1, <3>3, <3>4 DEF ChannelInv, WriterInv, Fields
    <3> QED
      BY <3>1, <3>2, <3>3, <3>4, <3>5, <3>6 DEF ChannelInv, WriterInv, Writing, Fields
  <2> QED
    BY <2>1, <2>2, <2>3, <2>4
<1>2. DataInv' /\ CopyInv'
  BY <1>e DEF DataInv, CopyInv, Attached
<1>3. ReaderInv'
  BY <1>r, <1>e, <1>n DEF ChannelInv, ReaderInv, WriterInv, rdr, Attached
<1> QED
  BY <1>r, <1>1, <1>2, <1>3 DEF ChannelInv

(* An epoch starts with an empty channel, and no reader has it yet.        *)
LEMMA ActivateInv == ASSUME ChannelInv, Activate PROVE ChannelInv'
<1> USE MuenAssumption DEF NULL_EPOCH
<1>1. /\ wpc = "fill" /\ todo = {} /\ wpc' = "ready" /\ epoch' = new.epoch
      /\ UNCHANGED <<hdr, data, todo, new, rdr>> /\ epoch = NULL_EPOCH
  BY DEF Activate, ChannelInv, WriterInv, Writing
<1>2. hdr["size"] = 1 /\ hdr["elements"] = Elements /\ hdr["wsc"] = 0 /\ hdr["wc"] = 0
  BY <1>1 DEF ChannelInv, WriterInv, Geometry, Fields
<1>3. WriterInv'
  BY <1>1, <1>2 DEF ChannelInv, WriterInv, Writing
<1>4. ~Attached'
  BY <1>1 DEF ChannelInv, ReaderInv, WriterInv, Attached, rdr
<1>5. DataInv'
  BY <1>1, <1>2 DEF DataInv
<1>6. ReaderInv' /\ CopyInv' /\ ReadIsExact'
  BY <1>1, <1>4 DEF ChannelInv, ReaderInv, WriterInv, CopyInv, ReadIsExact, rdr
<1> QED
  BY <1>3, <1>5, <1>6 DEF ChannelInv

(* Announcing a write takes the oldest element from the reader.            *)
LEMMA WriteStartInv == ASSUME ChannelInv, WriteStart PROVE ChannelInv'
<1> USE MuenAssumption DEF NULL_EPOCH
<1>1. /\ wpc = "ready" /\ wpc' = "copy1" /\ hdr["wc"] < MaxWc
      /\ UNCHANGED <<epoch, data, todo, new, rdr>> /\ epoch = new.epoch /\ epoch # NULL_EPOCH
  BY DEF WriteStart, ChannelInv, WriterInv, Writing
<1>2. hdr["wc"] + 1 \in 0 .. Word - 1 /\ hdr["wc"] \in Nat /\ hdr["wsc"] = hdr["wc"]
  BY <1>1 DEF ChannelInv, WriterInv, Writing
<1>3. (hdr["wc"] + 1) % Word = hdr["wc"] + 1
  BY <1>2
<1>4. hdr' = [hdr EXCEPT !["wsc"] = hdr["wc"] + 1]
  BY <1>3, Zenon DEF WriteStart
<1>5. /\ hdr'["wsc"] = hdr["wc"] + 1 /\ hdr' \in [Fields -> Nat]
      /\ \A f \in {"compatible", "size", "elements", "wc"} : hdr'[f] = hdr[f]
  BY <1>2, <1>4 DEF ChannelInv, WriterInv, Fields
<1>6. WriterInv'
  BY <1>1, <1>2, <1>5 DEF ChannelInv, WriterInv, Writing
<1>7. DataInv'
  <2>1. ASSUME NEW n \in Nat, hdr'["wsc"] <= n + Elements, n < hdr'["wc"], NEW h \in Halves2
        PROVE  data'[n % Elements][h] = <<epoch', n>>
    <3>1. hdr["wsc"] <= n + Elements /\ n < hdr["wc"]
      BY <1>2, <1>5, <2>1
    <3>2. DataInv
      BY DEF ChannelInv
    <3> QED
      BY <1>1, <3>1, <3>2, Zenon DEF DataInv
  <2> QED
    BY <1>1, <2>1 DEF DataInv
<1>8. ReaderInv'
  BY <1>1, <1>5 DEF ChannelInv, ReaderInv, rdr, Attached
<1>9. CopyInv'
  <2>1. reader.rc \in Nat
    BY DEF ChannelInv, ReaderInv
  <2> QED
    BY <1>1, <1>2, <1>5, <2>1 DEF ChannelInv, CopyInv, rdr, Attached
<1>10. ReadIsExact'
  BY <1>1 DEF ChannelInv, ReadIsExact, rdr
<1> QED
  BY <1>6, <1>7, <1>8, <1>9, <1>10 DEF ChannelInv

(* Copying touches the announced element only.                             *)
LEMMA WriteHalfInv ==
    ASSUME ChannelInv, WriteHalf(1, "copy1", "copy2") \/ WriteHalf(2, "copy2", "publish")
    PROVE  ChannelInv'
<1> USE MuenAssumption DEF NULL_EPOCH
<1>1. PICK h \in Halves2 : /\ wpc = (IF h = 1 THEN "copy1" ELSE "copy2")
                           /\ wpc' = IF h = 1 THEN "copy2" ELSE "publish"
                           /\ data' = [data EXCEPT ![hdr["wc"] % hdr["elements"]][h] = <<epoch, hdr["wc"]>>]
                           /\ UNCHANGED <<hdr, epoch, todo, new, rdr>>
  BY DEF WriteHalf, Halves2
<1>2. /\ epoch = new.epoch /\ epoch # NULL_EPOCH /\ hdr["elements"] = Elements
      /\ hdr["wsc"] = hdr["wc"] + 1 /\ hdr["wc"] \in 0 .. MaxWc /\ epoch \in 0 .. MaxEpoch
  BY <1>1 DEF ChannelInv, WriterInv, Writing
<1> DEFINE w == hdr["wc"] % Elements
<1>3. w \in Slots
  BY <1>2 DEF Slots
<1>4. data' = [data EXCEPT ![w][h] = <<epoch, hdr["wc"]>>]
  BY <1>1, <1>2
<1>5. <<epoch, hdr["wc"]>> \in Pairs /\ data \in [Slots -> [Halves2 -> Pairs]]
  BY <1>2 DEF Pairs, ChannelInv, WriterInv
<1> HIDE DEF w
<1>6. /\ data' \in [Slots -> [Halves2 -> Pairs]]
      /\ data'[w][h] = <<epoch, hdr["wc"]>>
      /\ \A g \in Halves2 : g # h => data'[w][g] = data[w][g]
      /\ \A x \in Slots : x # w => data'[x] = data[x]
  BY <1>3, <1>4, <1>5
<1>7. WriterInv'
  BY <1>1, <1>2, <1>6, SMTT(30) DEF ChannelInv, WriterInv, Writing, Geometry
<1>8. DataInv'
  <2>1. ASSUME NEW n \in Nat, hdr["wsc"] <= n + Elements, n < hdr["wc"], NEW g \in Halves2
        PROVE  data'[n % Elements][g] = <<epoch, n>>
    <3>1. n % Elements # w /\ n % Elements \in Slots
      BY <1>2, <2>1, Apart DEF w, Slots
    <3>2. data[n % Elements][g] = <<epoch, n>>
      BY <1>2, <2>1, Zenon DEF ChannelInv, DataInv
    <3> QED
      BY <1>6, <3>1, <3>2
  <2>2. wpc' = "publish" => data'[w][1] = <<epoch, hdr["wc"]>>
    BY <1>1, <1>2, <1>6 DEF ChannelInv, DataInv, Halves2, w
  <2>3. wpc' = "copy2" => data'[w][1] = <<epoch, hdr["wc"]>>
    BY <1>1, <1>6
  <2>4. wpc' = "publish" => data'[w][2] = <<epoch, hdr["wc"]>>
    BY <1>1, <1>6 DEF Halves2
  <2> QED
    BY <1>1, <2>1, <2>2, <2>3, <2>4, Zenon DEF DataInv, w
<1>9. ReaderInv' /\ CopyInv' /\ ReadIsExact'
  BY <1>1, <1>2 DEF ChannelInv, ReaderInv, CopyInv, ReadIsExact, rdr, Attached
<1> QED
  BY <1>7, <1>8, <1>9 DEF ChannelInv

(* Publishing adds the element that was written whole.                     *)
LEMMA WriteDoneInv == ASSUME ChannelInv, WriteDone PROVE ChannelInv'
<1> USE MuenAssumption DEF NULL_EPOCH
<1>1. /\ wpc = "publish" /\ wpc' = "ready" /\ hdr' = [hdr EXCEPT !["wc"] = hdr["wsc"]]
      /\ UNCHANGED <<epoch, data, todo, new, rdr>>
  BY DEF WriteDone
<1>2. /\ epoch = new.epoch /\ epoch # NULL_EPOCH /\ hdr["wsc"] = hdr["wc"] + 1 /\ hdr["wc"] \in Nat
  BY <1>1 DEF ChannelInv, WriterInv, Writing
<1>5. /\ hdr'["wc"] = hdr["wc"] + 1 /\ hdr' \in [Fields -> Nat]
      /\ \A f \in {"compatible", "size", "elements", "wsc"} : hdr'[f] = hdr[f]
  BY <1>1, <1>2 DEF ChannelInv, WriterInv, Fields
<1>6. WriterInv'
  BY <1>1, <1>2, <1>5 DEF ChannelInv, WriterInv, Writing
<1>7. DataInv'
  <2>1. ASSUME NEW n \in Nat, hdr["wsc"] <= n + Elements, n < hdr["wc"] + 1, NEW g \in Halves2
        PROVE  data[n % Elements][g] = <<epoch, n>>
    <3>1. CASE n = hdr["wc"]
      BY <1>1, <1>2, <3>1 DEF ChannelInv, DataInv, Halves2
    <3>2. CASE n < hdr["wc"]
      BY <1>2, <2>1, <3>2, Zenon DEF ChannelInv, DataInv
    <3> QED
      BY <1>2, <2>1, <3>1, <3>2
  <2> QED
    BY <1>1, <1>5, <2>1 DEF DataInv
<1>8. ReaderInv'
  <2>1. reader.rc \in Nat
    BY DEF ChannelInv, ReaderInv
  <2> QED
    BY <1>1, <1>2, <1>5, <2>1 DEF ChannelInv, ReaderInv, rdr, Attached
<1>9. CopyInv' /\ ReadIsExact'
  BY <1>1, <1>5 DEF ChannelInv, CopyInv, ReadIsExact, rdr, Attached
<1> QED
  BY <1>6, <1>7, <1>8, <1>9 DEF ChannelInv

(* The reader changes nothing of the channel.                              *)
LEMMA ReaderLeaves ==
    ASSUME ChannelInv, Reader
    PROVE  UNCHANGED <<hdr, epoch, data, wpc, todo, new>> /\ WriterInv' /\ DataInv'
<1>1. UNCHANGED <<hdr, epoch, data, wpc, todo, new>>
  BY Zenon DEF Reader, Enter, CheckEpoch, SyncProtocol, SyncEpoch, SyncSize, SyncElements, ReadWc,
         ReadHalf, ReadWsc, RecheckEpoch, ReaderStep, channel, writer
<1> QED
  BY <1>1 DEF ChannelInv, WriterInv, DataInv, Geometry, NULL_EPOCH

(* Before the copy: nothing is said of the buffer.                         *)
LEMMA EnterInv ==
    ASSUME ChannelInv, Enter \/ CheckEpoch \/ SyncProtocol PROVE ChannelInv'
<1> USE MuenAssumption DEF NULL_EPOCH
<1>0. UNCHANGED <<hdr, epoch, data, wpc, todo, new>> /\ WriterInv' /\ DataInv'
  BY ReaderLeaves DEF Reader
<1>1. CASE Enter
  <2>1. rpc = "idle" /\ rop' \in {"read", "pending"} /\ UNCHANGED element
    BY <1>1 DEF Enter
  <2>2. CASE epoch # 0
    <3>1. rpc' = "epoch" /\ UNCHANGED <<reader, result>>
      BY <1>1, <2>2 DEF Enter
    <3> QED
      BY <1>0, <2>1, <3>1 DEF ChannelInv, ReaderInv, CopyInv, ReadIsExact, Attached
  <2>3. CASE epoch = 0
    <3>1. /\ rpc' = "idle" /\ result' \in {"INACTIVE", "NOT_PENDING"}
          /\ reader' \in {reader, [reader EXCEPT !.epoch = 0]}
      BY <1>1, <2>3 DEF Enter, Return
    <3>2. /\ reader' \in [epoch : 0 .. MaxEpoch, size : 0 .. 1, elements : {0, Elements}, rc : 0 .. MaxWc]
          /\ reader'.epoch \in {0, reader.epoch}
      BY <3>1 DEF ChannelInv, ReaderInv
    <3>3. ~Attached'
      BY <1>0, <2>3 DEF Attached
    <3>4. reader'.epoch <= new.epoch /\ (wpc # "off" => reader'.epoch < new.epoch)
      BY <2>3, <3>2 DEF ChannelInv, ReaderInv, WriterInv
    <3> QED
      BY <1>0, <2>1, <2>3, <3>1, <3>2, <3>3, <3>4 DEF ChannelInv, ReaderInv, CopyInv, ReadIsExact, Results
  <2> QED
    BY <2>2, <2>3
<1>2. CASE CheckEpoch
  <2>1. rpc = "epoch" /\ UNCHANGED <<rop, reader, element, result>>
    BY <1>2 DEF CheckEpoch, ReaderStep
  <2>2. CASE rpc' = "sync"
    BY <1>0, <2>1, <2>2 DEF ChannelInv, ReaderInv, CopyInv, ReadIsExact, Attached
  <2>3. CASE rpc' = "wc" /\ reader.epoch # 0 /\ reader.epoch = epoch
    BY <1>0, <2>1, <2>3 DEF ChannelInv, ReaderInv, CopyInv, ReadIsExact, Attached
  <2> QED
    BY <1>2, <2>2, <2>3 DEF CheckEpoch
<1>3. CASE SyncProtocol
  <2>1. rpc = "sync" /\ UNCHANGED <<rop, reader, element>>
    BY <1>3 DEF SyncProtocol, ReaderStep
  <2>2. CASE rpc' = "sync_epoch" /\ UNCHANGED result
    BY <1>0, <2>1, <2>2 DEF ChannelInv, ReaderInv, CopyInv, ReadIsExact, Attached
  <2>3. CASE rpc' = "idle" /\ result' \in {"INCOMPATIBLE", "NOT_PENDING"}
    BY <1>0, <2>1, <2>3 DEF ChannelInv, ReaderInv, CopyInv, ReadIsExact, Attached, Results
  <2> QED
    BY <1>3, <2>2, <2>3 DEF SyncProtocol, Return
<1> QED
  BY <1>1, <1>2, <1>3

(* synchronize may catch a header half initialised, but then the epoch it  *)
(* has read is not the one the channel will have.                          *)
LEMMA SynchronizeInv ==
    ASSUME ChannelInv, SyncEpoch \/ SyncSize \/ SyncElements PROVE ChannelInv'
<1> USE MuenAssumption DEF NULL_EPOCH
<1> DEFINE Readers == [epoch : 0 .. MaxEpoch, size : 0 .. 1, elements : {0, Elements}, rc : 0 .. MaxWc]
<1>0. UNCHANGED <<hdr, epoch, data, wpc, todo, new>> /\ WriterInv' /\ DataInv'
  BY ReaderLeaves DEF Reader
<1>t. /\ epoch \in 0 .. MaxEpoch /\ epoch <= new.epoch /\ hdr["size"] \in 0 .. 1
      /\ hdr["elements"] \in {0, Elements} /\ (wpc # "off" => new.epoch > 0) /\ new.epoch \in Nat
      /\ (epoch # 0 => hdr["size"] = 1 /\ hdr["elements"] = Elements)
      /\ hdr["wc"] \in Nat /\ reader \in Readers /\ 0 \in 0 .. MaxWc
  BY DEF ChannelInv, WriterInv, ReaderInv
<1>1. CASE SyncEpoch
  <2>1. /\ rpc = "sync_epoch" /\ rpc' = "sync_size" /\ UNCHANGED <<rop, element, result>>
        /\ reader' = [reader EXCEPT !.epoch = epoch]
    BY <1>1 DEF SyncEpoch, ReaderStep
  <2>2. reader' \in Readers /\ reader'.epoch = epoch
    BY <1>t, <2>1
  <2> QED
    BY <1>0, <1>t, <2>1, <2>2 DEF ChannelInv, ReaderInv, CopyInv, ReadIsExact, Attached
<1>2. CASE SyncSize
  <2>1. /\ rpc = "sync_size" /\ rpc' = "sync_elements" /\ UNCHANGED <<rop, element, result>>
        /\ reader' = [reader EXCEPT !.size = hdr["size"]]
    BY <1>2 DEF SyncSize, ReaderStep
  <2>2. /\ reader' \in Readers /\ reader'.epoch = reader.epoch /\ reader'.size = hdr["size"]
    BY <1>t, <2>1
  <2> QED
    BY <1>0, <1>t, <2>1, <2>2 DEF ChannelInv, ReaderInv, CopyInv, ReadIsExact, Attached
<1>3. CASE SyncElements
  <2>1. /\ rpc = "sync_elements" /\ UNCHANGED <<rop, element>>
        /\ reader' = [reader EXCEPT !.elements = hdr["elements"], !.rc = 0]
        /\ \/ rpc' = "idle" /\ result' = "EPOCH_CHANGED"
           \/ rpc' = "wc" /\ rop # "read" /\ UNCHANGED result
    BY <1>3 DEF SyncElements, ReaderStep, Return
  <2>2. /\ reader' \in Readers /\ reader'.epoch = reader.epoch /\ reader'.size = reader.size
        /\ reader'.elements = hdr["elements"] /\ reader'.rc = 0
    BY <1>t, <2>1, Zenon
  <2> QED
    BY <1>0, <1>t, <2>1, <2>2 DEF ChannelInv, ReaderInv, CopyInv, ReadIsExact, Attached, Results
<1> QED
  BY <1>1, <1>2, <1>3

(* The copy starts only from an element that the reader is behind.         *)
LEMMA ReadWcInv == ASSUME ChannelInv, ReadWc PROVE ChannelInv'
<1> USE MuenAssumption DEF NULL_EPOCH
<1>0. UNCHANGED <<hdr, epoch, data, wpc, todo, new>> /\ WriterInv' /\ DataInv'
  BY ReaderLeaves DEF Reader
<1>1. rpc = "wc" /\ UNCHANGED <<rop, reader, element>> /\ rop \in {"read", "pending"}
  BY DEF ReadWc, ReaderStep, ChannelInv, ReaderInv
<1>2. CASE rpc' = "idle" /\ result' \in {"PENDING", "NOT_PENDING", "NO_DATA", "OVERRUN"}
  BY <1>0, <1>1, <1>2 DEF ChannelInv, ReaderInv, CopyInv, ReadIsExact, Attached, Results
<1>3. CASE rpc' = "copy1" /\ rop = "read" /\ hdr["wc"] # reader.rc /\ Lag(hdr["wc"]) <= reader.elements
           /\ UNCHANGED result
  <2>1. hdr["wc"] \in 0 .. MaxWc /\ reader.rc \in 0 .. MaxWc /\ reader.elements = Elements
    BY <1>1, <1>3 DEF ChannelInv, ReaderInv, WriterInv
  <2>2. reader.rc < hdr["wc"] /\ reader.rc < MaxWc
    BY <1>3, <2>1, LagExact
  <2> QED
    BY <1>0, <1>1, <1>3, <2>2 DEF ChannelInv, ReaderInv, CopyInv, ReadIsExact, Attached
<1>4. Lag(hdr["wc"]) \in Int /\ reader.elements \in Int
  <2>1. Word \in Nat \ {0} /\ hdr["wc"] - reader.rc \in Int /\ reader.elements \in Int
    BY DEF ChannelInv, ReaderInv, WriterInv
  <2> QED
    BY <2>1 DEF Lag, Sub
<1>5. CASE rop = "pending"
  <2>1. Return(IF hdr["wc"] > reader.rc THEN "PENDING" ELSE "NOT_PENDING")
    BY <1>5 DEF ReadWc
  <2> QED
    BY <1>2, <2>1 DEF Return
<1>6. CASE rop = "read" /\ hdr["wc"] = reader.rc
  <2>1. Return("NO_DATA")
    BY <1>6 DEF ReadWc
  <2> QED
    BY <1>2, <2>1 DEF Return
<1>7. CASE rop = "read" /\ hdr["wc"] # reader.rc
  <2>1. IF Lag(hdr["wc"]) > reader.elements THEN Return("OVERRUN")
                                           ELSE rpc' = "copy1" /\ UNCHANGED result
    BY <1>7 DEF ReadWc
  <2> QED
    BY <1>2, <1>3, <1>4, <1>7, <2>1 DEF Return
<1> QED
  BY <1>1, <1>5, <1>6, <1>7

(* What is copied is the element, as long as no write has announced it.    *)
LEMMA ReadHalfInv ==
    ASSUME ChannelInv, ReadHalf(1, "copy1", "copy2") \/ ReadHalf(2, "copy2", "wsc")
    PROVE  ChannelInv'
<1> USE MuenAssumption DEF NULL_EPOCH
<1>0. UNCHANGED <<hdr, epoch, data, wpc, todo, new>> /\ WriterInv' /\ DataInv'
  BY ReaderLeaves DEF Reader
<1>1. PICK h \in Halves2 :
        /\ rpc = (IF h = 1 THEN "copy1" ELSE "copy2") /\ rpc' = IF h = 1 THEN "copy2" ELSE "wsc"
        /\ element' = [element EXCEPT ![h] = data[(reader.rc % reader.elements) * reader.size][h]]
        /\ UNCHANGED <<rop, reader, result>>
  BY DEF ReadHalf, Halves2, ReaderStep
<1>2. reader.elements = Elements /\ reader.size = 1 /\ reader.rc \in Nat
  BY <1>1 DEF ChannelInv, ReaderInv
<1>3. reader.rc % Elements \in Slots /\ (reader.rc % Elements) * 1 = reader.rc % Elements
  BY <1>2 DEF Slots
<1>4. element' = [element EXCEPT ![h] = data[reader.rc % Elements][h]]
  BY <1>1, <1>2, <1>3, ZenonT(30)
<1>5. data[reader.rc % Elements][h] \in Pairs /\ element \in [Halves2 -> Pairs]
  BY <1>3 DEF ChannelInv, WriterInv, ReaderInv
<1>6. /\ element' \in [Halves2 -> Pairs] /\ element'[h] = data[reader.rc % Elements][h]
      /\ \A g \in Halves2 : g # h => element'[g] = element[g]
  BY <1>4, <1>5
<1>7. Attached /\ hdr["wsc"] <= reader.rc + Elements => data[reader.rc % Elements][h] = <<epoch, reader.rc>>
  BY <1>1, <1>2 DEF ChannelInv, ReaderInv, DataInv, Attached
<1>8. ReaderInv'
  BY <1>0, <1>1, <1>6 DEF ChannelInv, ReaderInv, Attached
<1>9. CopyInv'
  <2>1. CASE h = 1
    BY <1>0, <1>1, <1>6, <1>7, <2>1 DEF CopyInv, Attached
  <2>2. CASE h = 2
    <3>1. Attached /\ hdr["wsc"] <= reader.rc + Elements => element[1] = <<epoch, reader.rc>>
      BY <1>1, <2>2 DEF ChannelInv, CopyInv
    <3> QED
      BY <1>0, <1>1, <1>6, <1>7, <2>2, <3>1 DEF CopyInv, Attached, Halves2
  <2> QED
    BY <2>1, <2>2 DEF Halves2
<1>10. ReadIsExact'
  BY <1>1 DEF ReadIsExact
<1> QED
  BY <1>0, <1>8, <1>9, <1>10 DEF ChannelInv

(* The announcement read after the copy tells whether it is to be trusted. *)
LEMMA ReadWscInv == ASSUME ChannelInv, ReadWsc PROVE ChannelInv'
<1> USE MuenAssumption DEF NULL_EPOCH
<1>0. UNCHANGED <<hdr, epoch, data, wpc, todo, new>> /\ WriterInv' /\ DataInv'
  BY ReaderLeaves DEF Reader
<1>1. rpc = "wsc" /\ rpc' = "recheck" /\ UNCHANGED <<rop, element>>
  BY DEF ReadWsc, ReaderStep
<1>2. reader.elements = Elements /\ reader.rc \in 0 .. MaxWc /\ reader.rc < MaxWc /\ hdr["wsc"] \in 0 .. MaxWc
  BY <1>1 DEF ChannelInv, ReaderInv, WriterInv
<1>3. CASE result' = "OVERRUN" /\ UNCHANGED reader
  BY <1>0, <1>1, <1>3 DEF ChannelInv, ReaderInv, CopyInv, ReadIsExact, Attached, Results
<1>4. CASE ~(Lag(hdr["wsc"]) > reader.elements) /\ result' = "SUCCESS"
           /\ reader' = [reader EXCEPT !.rc = (@ + 1) % Word]
  <2>1. reader.rc + 1 \in 0 .. Word - 1 /\ Word \in Nat \ {0}
    BY <1>2
  <2>2. (reader.rc + 1) % Word = reader.rc + 1
    BY <2>1
  <2>3. reader' = [reader EXCEPT !.rc = reader.rc + 1]
    BY <1>4, <2>2
  <2>4. /\ reader' \in [epoch : 0 .. MaxEpoch, size : 0 .. 1, elements : {0, Elements}, rc : 0 .. MaxWc]
        /\ reader'.epoch = reader.epoch /\ reader'.size = reader.size
        /\ reader'.elements = reader.elements /\ reader'.rc = reader.rc + 1
    BY <1>2, <2>3 DEF ChannelInv, ReaderInv
  <2>5. hdr["wsc"] <= reader.rc + Elements
    <3>1. Lag(hdr["wsc"]) \in Int
      BY <1>2, <2>1 DEF Lag, Sub
    <3>2. Lag(hdr["wsc"]) <= Elements
      BY <1>2, <1>4, <3>1
    <3> QED
      BY <1>2, <3>2, LagExact
  <2>6. ReaderInv'
    <3>1. Attached' => Attached /\ reader.rc + 1 <= hdr'["wc"] /\ reader'.size = 1
      BY <1>0, <1>1, <1>2, <2>4 DEF ChannelInv, ReaderInv, WriterInv, Attached
    <3>2. reader.epoch # 0 /\ reader.elements = Elements /\ reader.size = 1
      BY <1>1 DEF ChannelInv, ReaderInv
    <3> QED
      BY <1>0, <1>1, <1>4, <2>4, <3>1, <3>2 DEF ChannelInv, ReaderInv, Results
  <2>7. CopyInv'
    <3>1. Attached => \A h \in Halves2 : element[h] = <<epoch, reader.rc>>
      BY <1>1, <2>5 DEF ChannelInv, CopyInv, Halves2
    <3>2. reader'.rc - 1 = reader.rc
      BY <1>2, <2>4
    <3> QED
      BY <1>0, <1>1, <2>4, <3>1, <3>2 DEF CopyInv, Attached
  <2> QED
    BY <1>0, <1>1, <2>6, <2>7 DEF ChannelInv, ReadIsExact
<1> QED
  BY <1>3, <1>4 DEF ReadWsc

(* An epoch that is still there has been there all along.                  *)
LEMMA RecheckInv == ASSUME ChannelInv, RecheckEpoch PROVE ChannelInv'
<1> USE MuenAssumption DEF NULL_EPOCH
<1>0. UNCHANGED <<hdr, epoch, data, wpc, todo, new>> /\ WriterInv' /\ DataInv'
  BY ReaderLeaves DEF Reader
<1>1. rpc = "recheck" /\ rpc' = "idle" /\ UNCHANGED <<rop, element>>
  BY DEF RecheckEpoch, ReaderStep
<1>2. CASE reader.epoch # epoch
  <2>1. result' = "EPOCH_CHANGED" /\ reader' = [reader EXCEPT !.epoch = 0]
    BY <1>2 DEF RecheckEpoch
  <2>2. /\ reader' \in [epoch : 0 .. MaxEpoch, size : 0 .. 1, elements : {0, Elements}, rc : 0 .. MaxWc]
        /\ reader'.epoch = 0
    BY <2>1 DEF ChannelInv, ReaderInv
  <2>3. ~Attached' /\ new.epoch \in Nat /\ (wpc # "off" => new.epoch > 0)
    BY <1>0, <2>2 DEF Attached, ChannelInv, WriterInv
  <2> QED
    BY <1>0, <1>1, <2>1, <2>2, <2>3 DEF ChannelInv, ReaderInv, CopyInv, ReadIsExact, Results
<1>3. CASE reader.epoch = epoch
  <2>1. UNCHANGED <<result, reader>>
    BY <1>3 DEF RecheckEpoch
  <2>2. Attached
    BY <1>1, <1>3, SMTT(30) DEF Attached, ChannelInv, ReaderInv
  <2>3. ReadIsExact'
    BY <1>0, <1>1, <1>3, <2>1, <2>2 DEF ChannelInv, CopyInv, ReadIsExact, Halves2
  <2> QED
    BY <1>0, <1>1, <2>1, <2>3 DEF ChannelInv, ReaderInv, CopyInv, Attached
<1> QED
  BY <1>2, <1>3

(* So no step of the writer or of the reader breaks the invariant.         *)
LEMMA ChannelNextInv == ChannelInv /\ [Next]_vars => ChannelInv'
<1>1. ASSUME ChannelInv, Writer PROVE ChannelInv'
  BY <1>1, SetupInv, ActivateInv, WriteStartInv, WriteHalfInv, WriteDoneInv DEF Writer
<1>2. ASSUME ChannelInv, Reader PROVE ChannelInv'
  BY <1>2, EnterInv, SynchronizeInv, ReadWcInv, ReadHalfInv, ReadWscInv, RecheckInv, SMTT(30) DEF Reader
<1>3. ASSUME ChannelInv, UNCHANGED vars PROVE ChannelInv'
  BY <1>3 DEF vars, channel, writer, rdr, ChannelInv, WriterInv, DataInv, ReaderInv, CopyInv,
              ReadIsExact, Attached, Geometry, NULL_EPOCH
<1> QED
  BY <1>1, <1>2, <1>3 DEF Next

(* The invariant says what is claimed of the channel.                      *)
LEMMA ChannelSound == ChannelInv => ReadIsExact /\ GeometryKnown
<1> SUFFICES ASSUME ChannelInv PROVE TypeOK /\ GeometryKnown
  BY DEF ChannelInv
<1> USE MuenAssumption DEF NULL_EPOCH
<1>1. hdr \in [Fields -> 0 .. Word - 1]
  <2>1. \A f \in Fields : hdr[f] \in 0 .. Word - 1
    BY DEF ChannelInv, WriterInv, Fields
  <2> QED
    BY <2>1 DEF ChannelInv, WriterInv
<1>2. epoch # 0 => hdr["wsc"] - hdr["wc"] \in 0 .. 1
  BY DEF ChannelInv, WriterInv
<1>3. data \in [0 .. Elements - 1 -> [1 .. 2 -> (0 .. MaxEpoch) \X (0 .. MaxWc)]]
  BY SMTT(30) DEF ChannelInv, WriterInv, Slots, Halves2, Pairs
<1>4. epoch \in {0, new.epoch} /\ new.epoch \in 0 .. MaxEpoch
  BY DEF ChannelInv, WriterInv
<1>5. TypeOK
  BY <1>1, <1>2, <1>3, <1>4, Zenon DEF TypeOK, ChannelInv, WriterInv, ReaderInv, Writing
<1> QED
  BY <1>5 DEF GeometryKnown, ChannelInv, ReaderInv

-----------------------------------------------------------------------------
(* Rate is rounded down, and fits its 32 bits; a step of the clock within  *)
(* a frame takes at least a tick.                                          *)
LEMMA MuenRate ==
    /\ Rate \in Nat /\ Step \in Nat \ {0}
    /\ Rate * TickRate <= NsecPerSec * Fraction
    /\ NsecPerSec * Fraction < (Rate + 1) * TickRate
<1> DEFINE N == NsecPerSec * Fraction
           q == N \div TickRate
<1>1. /\ NsecPerSec \in Nat \ {0} /\ TickRate \in Nat \ {0} /\ TickRate > NsecPerSec
      /\ Fraction \in Nat \ {0}
  BY MuenClockAssumption
<1>2. N \in Nat
  BY <1>1
<1>3. q \in Nat /\ q * TickRate <= N /\ N < (q + 1) * TickRate
  <2> HIDE DEF N
  <2> QED
    BY <1>1, <1>2, Quotient
<1>4. q < Fraction
  <2> HIDE DEF q
  <2> SUFFICES ASSUME Fraction <= q PROVE FALSE
    BY <1>1, <1>3
  <2>1. Fraction * TickRate <= q * TickRate
    BY <1>1, <1>3, Scaled
  <2>2. (NsecPerSec + 1) * Fraction <= TickRate * Fraction
    BY <1>1, NsecPerSec + 1 \in Nat, NsecPerSec + 1 <= TickRate, Scaled
  <2>3. (NsecPerSec + 1) * Fraction = N + Fraction /\ TickRate * Fraction = Fraction * TickRate
    BY <1>1
  <2>4. Fraction * TickRate \in Nat /\ q * TickRate \in Nat
    BY <1>1, <1>3
  <2> HIDE DEF N
  <2> QED
    BY <1>1, <1>2, <1>3, <2>1, <2>2, <2>3, <2>4
<1>5. Rate = q
  <2>1. Rate = q % Fraction
    BY DEF Rate
  <2> HIDE DEF q
  <2> QED
    BY <1>1, <1>3, <1>4, <2>1
<1>6. Step \in Nat \ {0}
  <2> DEFINE t == TickRate + (NsecPerSec - 1)
  <2>1. t \in Nat /\ t >= NsecPerSec
    BY <1>1
  <2>2. Step = t \div NsecPerSec
    BY DEF Step
  <2> HIDE DEF t
  <2>3. Step \in Nat /\ t < (Step + 1) * NsecPerSec
    BY <1>1, <2>1, <2>2, Quotient
  <2>4. Step # 0
    <3> SUFFICES ASSUME Step = 0 PROVE FALSE
      OBVIOUS
    <3>1. (Step + 1) * NsecPerSec = NsecPerSec
      BY <1>1
    <3> QED
      BY <1>1, <2>1, <2>3, <3>1
  <2> QED
    BY <2>3, <2>4
<1> QED
  BY <1>3, <1>5, <1>6

Ticks == 0 .. MaxTsc

(* The clock trails the TSC by a call at least, and by a frame at most     *)
(* within the frame it was last read in; frames do not overlap.            *)
FrameInv ==
    /\ {now, sched_start, next_start, current_start, tsc_base} \subseteq Ticks
    /\ sched_start <= now /\ now < sched_start + FrameTicks
    /\ current_start <= tsc_base /\ tsc_base <= current_start + FrameTicks
    /\ tsc_base + CallTicks <= now
    /\ sched_start = current_start \/ sched_start >= current_start + FrameTicks
    /\ m_pc = "clock" =>
          /\ tsc_base + CallTicks + CallTicks <= now
          /\ next_start + CallTicks <= now
          /\ tsc_base + CallTicks < next_start + FrameTicks
          /\ next_start = current_start \/ next_start >= current_start + FrameTicks
          /\ sched_start = next_start \/ sched_start >= next_start + FrameTicks

(* The clock never shows more than has passed and loses a nanosecond a     *)
(* call at most, or has not been set up and stands still.                  *)
TimeInv ==
    /\ time_base \in Nat /\ reads \in Nat
    /\ time_base * TickRate <= tsc_base * NsecPerSec
    /\ IF region THEN tsc_base * NsecPerSec * Fraction
                        <= TickRate * ((time_base + reads) * Fraction + tsc_base)
                 ELSE time_base = 0

(* What a round of solo5_yield has looked at, it has noted.                *)
PollInv ==
    /\ m_pc \in {"time_init", "app", "poll", "start", "clock", "done"}
    /\ acquired \subseteq Handles /\ pending \subseteq Handles /\ had \subseteq Handles
    /\ tmp_ready_set \subseteq had
    /\ i \in 0 .. 64 /\ deadline \in Nat
    /\ kept \subseteq had /\ kept \subseteq acquired \cap pending
    /\ m_pc = "poll" => \A h \in kept : h < i => h \in tmp_ready_set
    /\ m_pc # "poll" => kept \subseteq tmp_ready_set
    /\ m_pc \in {"time_init", "app"} => kept = {} /\ i = 0
    /\ m_pc = "time_init" => acquired = {}
    /\ m_pc \notin {"poll", "done"} => tmp_ready_set = {}
    /\ m_pc = "poll" \/ (m_pc \in {"start", "clock"} /\ deadline > 0) =>
          acquired \cap pending \subseteq had
    /\ m_pc = "done" /\ tmp_ready_set = {} => time_base >= deadline

MuenInv == FrameInv /\ TimeInv /\ PollInv

(* The constants, as the steps below use them.                             *)
LEMMA MuenConstants ==
    /\ CallTicks \in Nat /\ FrameTicks \in Nat /\ MaxTsc \in Nat /\ TscWord \in Nat
    /\ min_delta \in Nat /\ min_delta <= CallTicks
    /\ 1 <= CallTicks /\ CallTicks <= FrameTicks /\ FrameTicks <= MaxTsc /\ MaxTsc < TscWord
    /\ \A h \in Handles : h \in 0 .. 63 /\ \A g \in 0 .. 64 : g \notin Handles => h < g
BY MuenClockAssumption, MuenRate DEF min_delta

(* The guest starts at the second frame, with the clock at 0.              *)
LEMMA MuenInitInv == MuenInit => MuenInv
<1> SUFFICES ASSUME MuenInit PROVE MuenInv
  OBVIOUS
<1>1. FrameInv
  BY MuenConstants DEF MuenInit, FrameInv, Ticks
<1>2. TimeInv
  BY MuenClockAssumption DEF MuenInit, TimeInv
<1>3. PollInv
  BY DEF MuenInit, PollInv
<1> QED
  BY <1>1, <1>2, <1>3 DEF MuenInv

(* Everything but the scheduler and the clock leaves the clock alone.      *)
LEMMA ClockLeft ==
    ASSUME MuenInv, UNCHANGED <<now, sched_start, region, clock>>, m_pc' # "clock" \/ m_pc = "clock"
    PROVE  FrameInv' /\ TimeInv'
BY DEF MuenInv, FrameInv, TimeInv, clock

(* The scheduler's step.                                                   *)
LEMMA NextFrameInv == ASSUME MuenInv, NextFrame PROVE MuenInv'
<1>1. /\ sched_start + FrameTicks <= MaxTsc /\ sched_start' = sched_start + FrameTicks
      /\ now' = sched_start + FrameTicks
      /\ UNCHANGED <<m_pc, region, next_start, current_start, tsc_base, time_base, reads, net, yield, seen>>
  BY DEF NextFrame, clock
<1>2. FrameInv'
  BY <1>1, MuenConstants DEF MuenInv, FrameInv, Ticks
<1> QED
  BY <1>1, <1>2 DEF MuenInv, TimeInv, PollInv, net, yield, seen

(* solo5_clock_monotonic starts: time passes, maybe into the next frame.   *)
LEMMA ReadStartInv == ASSUME MuenInv, ReadStart PROVE MuenInv'
<1>1. /\ m_pc = "start" /\ m_pc' = "clock" /\ now + CallTicks <= MaxTsc /\ next_start' = sched_start
      /\ now' = now + CallTicks
      /\ UNCHANGED <<region, current_start, tsc_base, time_base, reads, net, yield, seen>>
  BY DEF ReadStart
<1>2. CASE now + CallTicks < sched_start + FrameTicks /\ sched_start' = sched_start
  BY <1>1, <1>2, MuenConstants DEF MuenInv, FrameInv, Ticks, TimeInv, PollInv, net, yield, seen
<1>3. CASE ~(now + CallTicks < sched_start + FrameTicks) /\ sched_start' = sched_start + FrameTicks
  <2>1. FrameInv'
    BY <1>1, <1>3, MuenConstants DEF MuenInv, FrameInv, Ticks
  <2> QED
    BY <1>1, <2>1 DEF MuenInv, TimeInv, PollInv, net, yield, seen
<1> QED
  BY <1>1, <1>2, <1>3 DEF ReadStart

(* It advances tsc_base to the frame's start or by min_delta: never back,  *)
(* never past the TSC.                                                     *)
LEMMA MonotonicInv == ASSUME MuenInv, Monotonic PROVE MuenInv' /\ time_base' >= time_base
<1>1. /\ m_pc = "clock" /\ current_start' = next_start /\ tsc_base' = TscNow /\ reads' = reads + 1
      /\ time_base' = time_base + mul64_32(TscDelta)
      /\ m_pc' = (IF time_base' < deadline THEN "poll" ELSE "done") /\ i' = 0
      /\ UNCHANGED <<now, sched_start, region, next_start, acquired, pending, deadline,
                     tmp_ready_set, had, kept>>
  BY DEF Monotonic, TimeBase, cpu, net, seen
<1>2. TscNow \in Ticks /\ tsc_base <= TscNow /\ tsc_base \in Nat
      /\ next_start <= TscNow /\ TscNow <= next_start + FrameTicks /\ TscNow + CallTicks <= now
  BY <1>1, MuenConstants DEF MuenInv, FrameInv, Ticks, TscNow
<1>3. FrameInv'
  BY <1>1, <1>2, MuenConstants DEF MuenInv, FrameInv, Ticks
<1> DEFINE d == TscNow - tsc_base
<1>4. d \in Nat /\ TscDelta = d /\ TscNow = tsc_base + d
  <2>1. d \in 0 .. TscWord - 1 /\ TscWord \in Nat \ {0}
    BY <1>2, MuenConstants DEF Ticks
  <2> QED
    BY <1>2, <2>1, MuenConstants DEF TscDelta, Ticks
<1> DEFINE q == (d * tsc_mult) \div Fraction
<1>t. NsecPerSec \in Nat /\ TickRate \in Nat \ {0} /\ Fraction \in Nat \ {0}
      /\ time_base \in Nat /\ reads \in Nat
  BY MuenClockAssumption DEF MuenInv, TimeInv
<1>5. /\ q \in Nat /\ (~region => q = 0)
      /\ region => /\ q * TickRate <= d * NsecPerSec
                   /\ d * NsecPerSec * Fraction <= TickRate * ((q + 1) * Fraction + d)
  <2>1. CASE region
    <3>1. tsc_mult = Rate
      BY <2>1 DEF tsc_mult
    <3> HIDE DEF d
    <3> QED
      BY <1>4, <1>t, <2>1, <3>1, MuenRate, Converted, Zenon
  <2>2. CASE ~region
    <3>1. tsc_mult = 0
      BY <2>2 DEF tsc_mult
    <3> HIDE DEF d
    <3>2. d * tsc_mult = 0
      BY <1>4, <3>1
    <3> QED
      BY <1>t, <2>2, <3>2
  <2> QED
    BY <2>1, <2>2
<1>6. time_base' = time_base + q
  BY <1>1, <1>4 DEF mul64_32
<1> HIDE DEF d, q
<1>7. region => /\ (time_base + q) * TickRate <= (tsc_base + d) * NsecPerSec
                /\ (tsc_base + d) * NsecPerSec * Fraction
                     <= TickRate * ((time_base + q + (reads + 1)) * Fraction + (tsc_base + d))
  BY <1>2, <1>4, <1>5, <1>t, Advanced DEF MuenInv, TimeInv
<1>8. TimeInv'
  <2>1. CASE region
    BY <1>1, <1>4, <1>5, <1>6, <1>7, <1>t, <2>1 DEF TimeInv
  <2>2. CASE ~region
    <3>1. time_base' = 0 /\ tsc_base' \in Nat /\ reads' \in Nat /\ ~region'
      BY <1>1, <1>2, <1>4, <1>5, <1>6, <1>t, <2>2 DEF MuenInv, TimeInv
    <3>2. \A x, y, z \in Nat : 0 * x <= y * z
      OBVIOUS
    <3>3. time_base' * TickRate <= tsc_base' * NsecPerSec
      BY <1>t, <3>1, <3>2, Zenon
    <3> QED
      BY <3>1, <3>3, Zenon DEF TimeInv
  <2> QED
    BY <2>1, <2>2
<1>9. PollInv'
  <2>1. tmp_ready_set = {} /\ kept = {}
    BY <1>1 DEF MuenInv, PollInv
  <2>2. time_base' \in Nat /\ deadline \in Nat
    BY <1>5, <1>6, <1>t DEF MuenInv, PollInv
  <2>3. CASE time_base' < deadline
    BY <1>1, <2>1, <2>2, <2>3 DEF MuenInv, PollInv
  <2>4. CASE ~(time_base' < deadline)
    BY <1>1, <2>1, <2>2, <2>4 DEF MuenInv, PollInv
  <2> QED
    BY <2>3, <2>4
<1>10. time_base' >= time_base
  BY <1>5, <1>6, <1>t
<1> QED
  BY <1>3, <1>8, <1>9, <1>10 DEF MuenInv

(* The rounds of solo5_yield.                                              *)
LEMMA PollStepInv ==
    ASSUME MuenInv, time_init \/ Poll \/ Polled \/ Returns PROVE MuenInv'
<1>0. FrameInv' /\ TimeInv'
  BY ClockLeft DEF time_init, Poll, Polled, Returns, cpu, clock, MuenInv, PollInv
<1>1. CASE time_init
  BY <1>0, <1>1 DEF time_init, MuenInv, PollInv, net, yield, seen, clock
<1>2. CASE Poll
  <2>1. /\ m_pc = "poll" /\ i \in Handles /\ i' = i + 1
        /\ tmp_ready_set' = tmp_ready_set \cup {h \in {i} : h \in acquired /\ h \in pending}
        /\ UNCHANGED <<m_pc, acquired, pending, deadline, had, kept>>
    BY <1>2 DEF Poll, muen_net_pending_data, net, seen
  <2>2. i' \in 0 .. 64
    BY <2>1, MuenConstants
  <2>3. tmp_ready_set' \subseteq had
    BY <2>1, Zenon DEF MuenInv, PollInv
  <2>4. ASSUME NEW h \in kept, h < i + 1 PROVE h \in tmp_ready_set'
    <3>1. h \in acquired /\ h \in pending /\ h \in Handles
      BY DEF MuenInv, PollInv
    <3>2. h < i \/ h = i
      BY <2>1, <2>4, <3>1, MuenConstants
    <3> QED
      BY <2>1, <3>1, <3>2 DEF MuenInv, PollInv
  <2> QED
    BY <1>0, <2>1, <2>2, <2>3, <2>4 DEF MuenInv, PollInv
<1>3. CASE Polled
  <2>1. /\ m_pc = "poll" /\ i \notin Handles /\ m_pc' = IF tmp_ready_set # {} THEN "done" ELSE "start"
        /\ UNCHANGED <<acquired, pending, deadline, i, tmp_ready_set, had, kept, time_base>>
    BY <1>3 DEF Polled, net, yield, seen, clock
  <2>2. kept \subseteq tmp_ready_set
    BY <2>1, MuenConstants DEF MuenInv, PollInv
  <2> QED
    BY <1>0, <2>1, <2>2 DEF MuenInv, PollInv
<1>4. CASE Returns
  BY <1>0, <1>4 DEF Returns, MuenInv, PollInv, net
<1> QED
  BY <1>1, <1>2, <1>3, <1>4

(* The application's calls, the other ends and the time server.            *)
LEMMA OutsideInv ==
    ASSUME MuenInv,
           CallClock \/ CallYield \/ Publish
           \/ \E h \in Handles : net_acquire(h) \/ net_read(h) \/ Arrives(h) \/ Restarts(h)
    PROVE  MuenInv'
<1>0. FrameInv' /\ TimeInv' /\ UNCHANGED time_base
  BY ClockLeft DEF CallClock, CallYield, Call, Publish, net_acquire, net_read, Arrives, Restarts, cpu, clock
<1>1. CASE CallClock
  BY <1>0, <1>1 DEF CallClock, Call, MuenInv, PollInv, net
<1>2. CASE CallYield
  <2>1. PICK dl \in Deadlines : Call("poll", dl, acquired \cap pending)
    BY <1>2 DEF CallYield
  <2>2. dl \in Nat
    BY MuenClockAssumption
  <2> QED
    BY <1>0, <2>1, <2>2, MuenConstants DEF Call, MuenInv, PollInv, net
<1>3. CASE Publish
  BY <1>0, <1>3 DEF Publish, MuenInv, PollInv, net, yield, seen
<1>4. ASSUME NEW h \in Handles, net_acquire(h) PROVE MuenInv'
  BY <1>0, <1>4 DEF net_acquire, MuenInv, PollInv, yield, seen
<1>5. ASSUME NEW h \in Handles, net_read(h) PROVE MuenInv'
  BY <1>0, <1>5 DEF net_read, MuenInv, PollInv, yield, seen
<1>6. ASSUME NEW h \in Handles, Arrives(h) PROVE MuenInv'
  <2>1. /\ pending' = pending \cup {h} /\ had' = had \cup {g \in {h} \cap acquired : m_pc # "app"}
        /\ UNCHANGED <<m_pc, acquired, deadline, i, tmp_ready_set, kept>>
    BY <1>6 DEF Arrives, yield
  <2> QED
    BY <1>0, <2>1 DEF MuenInv, PollInv
<1>7. ASSUME NEW h \in Handles, Restarts(h) PROVE MuenInv'
  BY <1>0, <1>7 DEF Restarts, MuenInv, PollInv, yield
<1> QED
  BY <1>1, <1>2, <1>3, <1>4, <1>5, <1>6, <1>7

(* So no step of the guest or of its surroundings breaks the invariant.    *)
LEMMA MuenNextInv == MuenInv /\ [MuenNext]_m_vars => MuenInv'
<1>1. ASSUME MuenInv, UNCHANGED m_vars PROVE MuenInv'
  BY <1>1 DEF m_vars, cpu, clock, net, yield, seen, MuenInv, FrameInv, TimeInv, PollInv
<1> QED
  BY <1>1, NextFrameInv, ReadStartInv, MonotonicInv, PollStepInv, OutsideInv DEF MuenNext, InCall

(* The invariant says what is claimed of the clock and of solo5_yield.     *)
LEMMA MuenSound == MuenInv => MuenClockAccurate /\ MuenYieldSound
<1> SUFFICES ASSUME MuenInv PROVE MuenClockAccurate /\ MuenYieldSound
  OBVIOUS
<1>1. time_base <= tsc_base
  <2>1. NsecPerSec \in Nat /\ TickRate \in Nat \ {0} /\ NsecPerSec <= TickRate /\ time_base \in Nat
        /\ tsc_base \in Nat /\ time_base * TickRate <= tsc_base * NsecPerSec
    BY MuenClockAssumption, MuenConstants DEF MuenInv, TimeInv, FrameInv, Ticks
  <2>2. NsecPerSec * tsc_base <= TickRate * tsc_base
    BY <2>1, Scaled
  <2>3. NsecPerSec * tsc_base = tsc_base * NsecPerSec /\ TickRate * tsc_base = tsc_base * TickRate
        /\ tsc_base * NsecPerSec \in Nat /\ tsc_base * TickRate \in Nat /\ time_base * TickRate \in Nat
    BY <2>1
  <2>4. time_base * TickRate <= tsc_base * TickRate
    BY <2>1, <2>2, <2>3
  <2> QED
    BY <2>1, <2>4, Cancelled
<1>2. time_base \in 0 .. MaxTsc
  BY <1>1, MuenConstants DEF MuenInv, TimeInv, FrameInv, Ticks
<1>3. MuenTypeOK
  BY <1>2 DEF MuenTypeOK, MuenInv, FrameInv, PollInv, Ticks
<1>4. tsc_base <= now
  BY MuenConstants DEF MuenInv, FrameInv, Ticks
<1>5. MuenClockAccurate
  BY <1>3, <1>4 DEF MuenClockAccurate, MuenInv, FrameInv, TimeInv
<1>6. MuenYieldSound
  BY DEF MuenYieldSound, MuenInv, PollInv
<1> QED
  BY <1>5, <1>6

-----------------------------------------------------------------------------
(* The guest keeps both invariants: a step of one part leaves the other    *)
(* alone.                                                                  *)
LEMMA GuestInvariants == GuestSpec => [](ChannelInv /\ MuenInv)
<1>1. GuestInit => ChannelInv /\ MuenInv
  BY ChannelInitInv, MuenInitInv DEF GuestInit
<1>2. ChannelInv /\ MuenInv /\ [GuestNext]_guestVars => (ChannelInv /\ MuenInv)'
  <2>1. [GuestNext]_guestVars => [Next]_vars /\ [MuenNext]_m_vars
    BY DEF GuestNext, InChannel, InYield, guestVars
  <2> QED
    BY <2>1, ChannelNextInv, MuenNextInv
<1> QED
  BY <1>1, <1>2, PTL DEF GuestSpec

(* A read that reports success has copied, whole, the next element of the  *)
(* epoch the reader is in, though the writer never waits for the copy and  *)
(* may restart at any time (reader.c against writer.c).                    *)
THEOREM ReadsExact == GuestSpec => []ReadIsExact
BY GuestInvariants, ChannelSound, PTL

(* The reader never divides by the 0 elements of a header that is being    *)
(* set up, never copies from outside the data area, and no counter of the  *)
(* channel leaves its word.                                                *)
THEOREM ChannelGeometry == GuestSpec => []GeometryKnown
BY GuestInvariants, ChannelSound, PTL

(* solo5_clock_monotonic of the Muen bindings never passes the TSC and     *)
(* never goes back over a frame, shows no more time than has passed, and   *)
(* loses at most a nanosecond a call.                                      *)
THEOREM MuenClock == GuestSpec => []MuenClockAccurate
BY GuestInvariants, MuenSound, PTL

(* solo5_yield of the Muen bindings reports every device that had data     *)
(* throughout the call, no device that never had, and none only at the     *)
(* deadline.                                                               *)
THEOREM MuenYieldPromise == GuestSpec => []MuenYieldSound
BY GuestInvariants, MuenSound, PTL

-----------------------------------------------------------------------------
(* The rounds of polling and readings of the clock are steps of the world  *)
(* or stutter; the round that ends the call decides.                       *)
LEMMA MuenWorldStep ==
    ASSUME MuenInv, MuenInv', UNCHANGED <<m_pc, deadline, tmp_ready_set>>,
           time_base' >= time_base,
           IF m_pc \in {"time_init", "app"}
             THEN UNCHANGED <<had, kept>>
             ELSE /\ had' = had \cup ((acquired \cap pending)' \ (acquired \cap pending))
                  /\ kept' = kept \ ((acquired \cap pending) \ (acquired \cap pending)')
    PROVE  Promise!World
<1>1. time_base' \in Nat /\ (acquired \cap pending)' \subseteq Handles
      /\ m_pc \in {"time_init", "app", "poll", "start", "clock", "done"}
  BY DEF MuenInv, TimeInv, PollInv
<1> QED
  BY <1>1 DEF Promise!World

LEMMA MuenYieldStep ==
    ASSUME MuenInv, MuenInv', [MuenNext]_m_vars
    PROVE  [Promise!Next]_(Promise!promiseVars)
<1>i. /\ kept \subseteq acquired \cap pending
      /\ m_pc \in {"time_init", "app"} => kept = {}
      /\ time_base \in Nat /\ time_base' \in Nat /\ deadline \in Nat /\ deadline' \in Nat
      /\ m_pc = "time_init" => acquired = {}
      /\ acquired \subseteq Handles /\ pending \subseteq Handles
  BY DEF MuenInv, TimeInv, PollInv
<1>a. m_pc' = "done" => Promise!Answered'
  BY DEF MuenInv, PollInv, Promise!Answered, Promise!Due
<1>b. m_pc' # "done" => Promise!Answered'
  BY DEF MuenInv, PollInv, Promise!Answered
<1>1. CASE UNCHANGED m_vars
  BY <1>1 DEF m_vars, clock, net, yield, seen, Promise!promiseVars
<1>2. CASE time_init \/ Publish \/ NextFrame \/ ReadStart
  BY <1>2 DEF time_init, Publish, NextFrame, ReadStart, clock, net, yield, seen, Promise!promiseVars
<1>3. CASE Poll
  BY <1>3 DEF Poll, clock, net, seen, Promise!promiseVars
<1>4. CASE Polled
  <2>1. m_pc = "poll" /\ m_pc' \in {"done", "start"}
        /\ UNCHANGED <<time_base, acquired, pending, deadline, had, kept>>
    BY <1>4 DEF Polled, clock, net, yield, seen
  <2>2. CASE m_pc' = "done"
    BY <1>a, <1>i, <2>1, <2>2 DEF Promise!Decide, Promise!Next
  <2>3. CASE m_pc' = "start"
    BY <2>1, <2>3 DEF Promise!promiseVars
  <2> QED
    BY <2>1, <2>2, <2>3
<1>5. CASE Monotonic
  <2>1. /\ m_pc = "clock" /\ m_pc' \in {"done", "poll"} /\ time_base' >= time_base
        /\ UNCHANGED <<acquired, pending, deadline, had, kept>>
    BY <1>5, MonotonicInv DEF Monotonic, net, seen
  <2>2. CASE m_pc' = "done"
    BY <1>a, <1>i, <2>1, <2>2 DEF Promise!Decide, Promise!Next
  <2>3. CASE m_pc' = "poll"
    BY <1>i, <2>1, <2>3 DEF Promise!World, Promise!Next
  <2> QED
    BY <2>1, <2>2, <2>3
<1>6. CASE Returns
  BY <1>6 DEF Returns, clock, net, Promise!Return, Promise!Next
<1>7. CASE CallClock \/ CallYield
  <2>1. /\ m_pc = "app" /\ m_pc' \in {"start", "poll"}
        /\ \E watched \in {acquired \cap pending, {}} : had' = watched /\ kept' = watched
        /\ UNCHANGED <<time_base, acquired, pending>>
    BY <1>7 DEF CallClock, CallYield, Call, clock, net
  <2> QED
    BY <1>b, <1>i, <2>1 DEF Promise!Call, Promise!Next
<1>8. ASSUME NEW h \in Handles, net_acquire(h) \/ net_read(h) PROVE Promise!Next
  <2>1. m_pc = "app" /\ UNCHANGED <<m_pc, deadline, tmp_ready_set, time_base, had, kept>>
    BY <1>8 DEF net_acquire, net_read, clock, yield, seen
  <2>2. Promise!World
    BY <1>i, <2>1, MuenWorldStep
  <2> QED
    BY <2>2 DEF Promise!Next
<1>9. ASSUME NEW h \in Handles, Arrives(h) PROVE Promise!Next
  <2>1. /\ h \notin pending /\ pending' = pending \cup {h}
        /\ had' = had \cup {g \in {h} \cap acquired : m_pc # "app"}
        /\ UNCHANGED <<m_pc, deadline, tmp_ready_set, time_base, acquired, kept>>
    BY <1>9 DEF Arrives, clock, yield
  <2>2. Promise!World
    BY <1>i, <2>1, MuenWorldStep
  <2> QED
    BY <2>2 DEF Promise!Next
<1>10. ASSUME NEW h \in Handles, Restarts(h) PROVE Promise!Next
  <2>1. /\ h \in pending /\ pending' = pending \ {h} /\ kept' = kept \ {h}
        /\ UNCHANGED <<m_pc, deadline, tmp_ready_set, time_base, acquired, had>>
    BY <1>10 DEF Restarts, clock, yield
  <2>2. had' = had \cup ((acquired \cap pending)' \ (acquired \cap pending))
        /\ kept' = kept \ ((acquired \cap pending) \ (acquired \cap pending)')
    BY <1>i, <2>1
  <2>3. m_pc \in {"time_init", "app"} => UNCHANGED <<had, kept>>
    BY <1>i, <2>1
  <2>4. Promise!World
    BY <1>i, <2>1, <2>2, <2>3, MuenWorldStep
  <2> QED
    BY <2>4 DEF Promise!Next
<1> QED
  BY <1>1, <1>2, <1>3, <1>4, <1>5, <1>6, <1>7, <1>8, <1>9, <1>10 DEF MuenNext, InCall

(* solo5_yield of the Muen bindings implements the promise of solo5.h: to  *)
(* the application its rounds of polling and its clock that moves by       *)
(* frames are one wait, which ends at the deadline or with the devices     *)
(* that are ready (muen-yield.c, muen-clock.c).                            *)
THEOREM MuenKeepsPromise == GuestSpec => MuenImplementsYield
<1>1. GuestInit => Promise!Init
  BY DEF GuestInit, MuenInit, Promise!Init
<1>2. ASSUME MuenInv, MuenInv', [GuestNext]_guestVars
      PROVE  [Promise!Next]_(Promise!promiseVars)
  <2>1. [MuenNext]_m_vars
    BY <1>2 DEF GuestNext, InChannel, InYield, guestVars
  <2> QED
    BY <1>2, <2>1, MuenYieldStep
<1> QED
  BY <1>1, <1>2, GuestInvariants, PTL DEF GuestSpec, MuenImplementsYield, Promise!Spec
=============================================================================
