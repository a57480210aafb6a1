------------------------------ MODULE WeidWire ------------------------------
(***************************************************************************)
(* From a datagram on the link-quality socket to the records staged in the *)
(* engine: the receive of wei_sock_drain (wei_poll.c) with its fixed       *)
(* buffer, the checks of weid_on_datagram (weid_wire.c), the mapping of    *)
(* each entry and wei_infer_stage_record. The senders are of several       *)
(* builds: they may differ in wire version and in sizeof(stats_arg_t), cut *)
(* a payload at the 16-bit length, or declare a length that is not theirs. *)
(*                                                                         *)
(* Data: a payload byte is known by the station reading it belongs to, its *)
(* place in it, and the build that laid it out, so that an entry read from *)
(* the wrong bytes shows. Of a reading the activity flag and the channel   *)
(* utilisation are kept, the two that the mapping changes.                 *)
(***************************************************************************)
EXTENDS SlotTable, Sequences

CONSTANTS Reading,    \* stats_arg_t values: [mac, cli_Active, channel_utilization]
          Junk,       \* what an entry read from the wrong bytes looks like
          Types,      \* message types other than PERIODIC_STATS
          Version,    \* LQ_IPC_WIRE_VERSION
          ElemSize,   \* sizeof(stats_arg_t) of this build
          Builds,     \* [version, size] of the senders' builds
          LenMax,     \* UINT16_MAX, the most the length field can say
          DgramMax,   \* WEI_DGRAM_MAX, the receive buffer
          MaxEntries  \* bound: readings in one frame

HdrLen == 6           \* offsetof(weid_tlv_t, value)

(* The buffer holds the largest frame the length field can describe. *)
ASSUME BufferAssumption ==
    /\ ElemSize \in Nat \ {0} /\ LenMax \in Nat /\ MaxEntries \in Nat
    /\ DgramMax \in Nat /\ DgramMax >= HdrLen + LenMax

ASSUME ReadingAssumption ==
    /\ \A r \in Reading \cup {Junk} : r.mac \in Mac /\ r.channel_utilization \in Int
    /\ Junk \notin Reading

(* A build has a wire version and an element size, and only statistics     *)
(* carry the statistics type.                                              *)
ASSUME SenderAssumption ==
    /\ Version \in Nat /\ Builds \subseteq [version : Nat, size : Nat \ {0}]
    /\ "PERIODIC_STATS" \notin Types

VARIABLES slots,      \* eng->map.slots and eng->snapshot
          frame,      \* the accepted datagram being staged, or NoFrame
          cursor,     \* i, the entry to stage next
          latest,     \* ghost: the record last sent for each MAC
          owed        \* ghost: MACs the last legal statistics frame named

ghostVars == <<latest, owed>>
wireVars == <<slots, frame, cursor, ghostVars>>

Ours == [version |-> Version, size |-> ElemSize]

MacString == [version |-> Version, size |-> 1]

Least(a, b) == IF a < b THEN a ELSE b

Cut(bytes, n) == SubSeq(bytes, 1, Least(Len(bytes), n))

(* The payload a build lays out for a sequence of readings... *)
Cells(rs, build) ==
    [k \in 1 .. Len(rs) * build.size |->
        [reading |-> rs[(k - 1) \div build.size + 1],
         at |-> (k - 1) % build.size, build |-> build]]

(* ...and the frame around it. The sender caps the value at LenMax. *)
FrameOf(type, rs, build) ==
    LET value == Cut(Cells(rs, build), LenMax)
    IN  [type |-> type, version |-> build.version, elem_size |-> build.size,
         len |-> Len(value), value |-> value, bytes |-> HdrLen + Len(value)]

Readings == UNION {[1 .. n -> Reading] : n \in 0 .. MaxEntries}

(* What the senders put on the wire: statistics, other messages, which     *)
(* carry one MAC, frames whose length field is off, and runts.             *)
Stats == {FrameOf("PERIODIC_STATS", rs, b) : rs \in Readings, b \in Builds}

Others == {FrameOf(t, <<r>>, MacString) : t \in Types, r \in Reading}

Mislabelled ==
    {[f EXCEPT !.len = n] : f \in {g \in Stats : Len(g.value) <= ElemSize},
                            n \in {0, 1, ElemSize, LenMax}}

Runts == {[f EXCEPT !.bytes = n, !.value = <<>>] :
             f \in {FrameOf("PERIODIC_STATS", <<>>, Ours)}, n \in {1, HdrLen - 1}}

Wire == Stats \cup Others \cup Mislabelled \cup Runts

-----------------------------------------------------------------------------
(* A buffer of UINT16_MAX bytes, which forgets the header. *)
ReceivedShort(f) ==
    [f EXCEPT !.bytes = Least(@, LenMax),
              !.value = Cut(@, IF LenMax > HdrLen THEN LenMax - HdrLen ELSE 0)]

(* recv() into the static buffer: what does not fit is cut off. *)
Received(f) ==
    [f EXCEPT !.bytes = Least(@, DgramMax),
              !.value = Cut(@, DgramMax - HdrLen)]

(* Validation without the element-size check. *)
AcceptedAnySize(f) ==
    /\ f.bytes >= HdrLen
    /\ f.version = Version
    /\ f.len = f.bytes - HdrLen
    /\ f.type = "PERIODIC_STATS"
    /\ (f.bytes - HdrLen) % ElemSize = 0

(* The checks of weid_on_datagram, in their order: runt, version, declared *)
(* length, type, element size, whole entries.                              *)
Accepted(f) ==
    /\ f.bytes >= HdrLen
    /\ f.version = Version
    /\ f.len = f.bytes - HdrLen
    /\ f.type = "PERIODIC_STATS"
    /\ f.elem_size = ElemSize
    /\ (f.bytes - HdrLen) % ElemSize = 0

Count(f) == (f.bytes - HdrLen) \div ElemSize

(* memcpy of entry i. Bytes past the datagram are those of an earlier one. *)
Entry(f, i) ==
    LET at(j) == f.value[i * ElemSize + j]
        whole == /\ (i + 1) * ElemSize <= Len(f.value)
                 /\ \A j \in 1 .. ElemSize :
                       /\ at(j).build = Ours /\ at(j).at = j - 1
                       /\ at(j).reading = at(1).reading
    IN  IF whole THEN at(1).reading ELSE Junk

Clamp(v) == IF v < 0 THEN 0 ELSE IF v > 100 THEN 100 ELSE v

(* weid_wire_map_record *)
MapRecord(r) ==
    [activity_state |-> IF r.cli_Active THEN "ACTIVE" ELSE "IDLE",
     chan_util_pct |-> Clamp(r.channel_utilization) % 256]

FreeSlot == [mac |-> NoMac, in_use |-> FALSE, rec |-> MapRecord(Junk)]

(* wei_infer_stage_record: a full map drops the record. *)
Stage(r) ==
    IF HasSlot(slots, r.mac)
    THEN [slots EXCEPT ![SlotFor(slots, r.mac)] =
             [mac |-> r.mac, in_use |-> TRUE, rec |-> MapRecord(r)]]
    ELSE slots

-----------------------------------------------------------------------------
(* What was sent, by the contract of weid_receiver.h: a statistics frame   *)
(* of this build with whole entries, and the readings in it.               *)
LegalStats(f) ==
    /\ f.type = "PERIODIC_STATS" /\ f.bytes = HdrLen + Len(f.value)
    /\ f.version = Version /\ f.elem_size = ElemSize
    /\ f.len = Len(f.value) /\ f.len % ElemSize = 0

Sent(f) ==
    [k \in 1 .. f.len \div ElemSize |-> f.value[(k - 1) * ElemSize + 1].reading]

Named(f) == {Sent(f)[k].mac : k \in DOMAIN Sent(f)}

LastFor(f, mac) ==
    LET rs == Sent(f)
        k == CHOOSE k \in DOMAIN rs :
                rs[k].mac = mac /\ \A j \in k + 1 .. Len(rs) : rs[j].mac # mac
    IN  MapRecord(rs[k])

NoRecord == [activity_state |-> "NONE", chan_util_pct |-> 0]

NoFrame == FrameOf("NONE", <<>>, Ours)

Idle == frame = NoFrame

WireInit ==
    /\ slots = [i \in Slot |-> FreeSlot]
    /\ frame = NoFrame /\ cursor = 0
    /\ latest = [m \in Mac |-> NoRecord] /\ owed = {}

(* wei_sock_drain takes the next datagram and hands it to the callback,    *)
(* which returns at once unless there are entries to stage. The ghosts     *)
(* record what was sent, whatever becomes of it here.                      *)
OnDatagram(f) ==
    /\ Idle
    /\ frame' = IF Accepted(Received(f)) /\ Count(Received(f)) > 0
                THEN Received(f) ELSE NoFrame
    /\ cursor' = 0
    /\ IF LegalStats(f)
       THEN /\ latest' = [m \in Mac |-> IF m \in Named(f) THEN LastFor(f, m)
                                        ELSE latest[m]]
            /\ owed' = Named(f)
       ELSE owed' = {} /\ UNCHANGED latest
    /\ UNCHANGED slots

(* The loop over the entries of an accepted frame, one record a time. *)
StageEntry ==
    /\ ~Idle
    /\ slots' = Stage(Entry(frame, cursor))
    /\ IF cursor + 1 < Count(frame)
       THEN cursor' = cursor + 1 /\ UNCHANGED frame
       ELSE cursor' = 0 /\ frame' = NoFrame
    /\ UNCHANGED ghostVars

(* A tick between two datagrams reaps a slot (wei_infer_map_reap). *)
Reap(i) ==
    /\ Idle /\ slots[i].in_use
    /\ slots' = [slots EXCEPT ![i] = FreeSlot]
    /\ owed' = {}
    /\ UNCHANGED <<frame, cursor, latest>>

WireNext ==
    \/ \E f \in Wire : OnDatagram(f)
    \/ StageEntry
    \/ \E i \in Slot : Reap(i)

WireSpec == WireInit /\ [][WireNext]_wireVars

-----------------------------------------------------------------------------
(* Between two datagrams every staged record is the last one that a sender *)
(* of this build sent for that MAC: no drifted, cut, mislabelled or runt   *)
(* frame and no other message leaves a trace, and within a frame the last  *)
(* entry of a MAC wins. (weid_receiver.h:46 says that departure messages   *)
(* are acted on; the code returns on them.)                                *)
StagedIsLatest ==
    Idle => \A i \in Slot : slots[i].in_use => slots[i].rec = latest[slots[i].mac]

(* No legal statistics frame is lost to the buffer or to the checks, the   *)
(* largest one included: once its callback returns, each of its stations   *)
(* is a member, unless the map is full of others.                          *)
LegalFramesLand ==
    Idle => \A m \in owed : Tracked(slots, m) \/ \A i \in Slot : slots[i].in_use
=============================================================================
