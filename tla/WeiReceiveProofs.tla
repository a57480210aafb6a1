-------------------------- MODULE WeiReceiveProofs --------------------------
(***************************************************************************)
(* Proofs about the receive side: the clock of the loop and the socket     *)
(* path that the daemon and the diagnostic tool share (WeiLoop), and what  *)
(* becomes of a datagram once it is read (WeidWire), for any tick period,  *)
(* element size, buffer, set of sender builds and number of entries. The   *)
(* three have separate state: each has an invariant of its own.            *)
(***************************************************************************)
EXTENDS WeiLoop, WeidWire, SlotTableProofs

-----------------------------------------------------------------------------
(* The clock. *)
TickTypeOK == /\ tick_ms \in 0 .. UINT_MAX
              /\ armed \in 0 .. UINT_MAX
              /\ since \in 0 .. UINT_MAX
              /\ left \in Nat
              /\ timer \in Int
              /\ slip \in 0 .. MaxSlip

(* Only a call under way can be late. *)
SlipOfCall == at \notin {"call", "poll"} => slip = 0

TickInv == TickTypeOK /\ SlipOfCall /\ DeadlineStands

LEMMA UintMax == /\ UINT_MAX \in Nat /\ INT_MAX \in Nat /\ MaxSlip \in Nat
                 /\ INT_MAX + MaxSlip < UINT_MAX
BY TickAssumption DEF UINT_MAX

(* The conversion to int keeps what fits, and yields an int in any case. *)
LEMMA AsIntKeeps ==
    ASSUME NEW n \in Nat
    PROVE  AsInt(n) \in Int /\ (n <= INT_MAX => AsInt(n) = n)
BY UintMax DEF AsInt

LEMMA TickInitInv == TickInit => TickInv
BY UintMax, TickAssumption DEF TickInit, TickInv, TickTypeOK, SlipOfCall, DeadlineStands, NonNegative

(* A step of the loop, and the environment's. *)
LEMMA ClockStepInv == TickInv /\ (ClockStep \/ PathHealthy \/ Reopen \/ PollInterrupted)
                          => TickInv'
<1> SUFFICES ASSUME TickInv, ClockStep \/ PathHealthy \/ Reopen \/ PollInterrupted
             PROVE  TickInv'
  OBVIOUS
<1> USE UintMax DEF TickInv, TickTypeOK, SlipOfCall
<1>1. CASE Wait
  <2>1. TickTypeOK' /\ SlipOfCall'
    BY <1>1, AsIntKeeps DEF Wait
  <2>2. armed <= INT_MAX => left <= INT_MAX
    BY <1>1 DEF Wait, DeadlineStands, NonNegative
  <2>3. armed' <= INT_MAX => timer' = left' /\ slip' = 0
    BY <1>1, <2>2, AsIntKeeps DEF Wait
  <2>4. left' = NonNegative(armed' - since')
    BY <1>1 DEF Wait, DeadlineStands
  <2>5. QED
    BY <2>1, <2>3, <2>4 DEF DeadlineStands
<1>2. CASE Poll \/ Returns \/ Drain \/ DrainEnds \/ NotDue \/ PollInterrupted
  BY <1>2 DEF Poll, Returns, PollTimeout, PollIn, Drain, DrainEnds, NotDue,
              PollInterrupted, DeadlineStands
<1>3. CASE TickDue \/ PathHealthy \/ Reopen
  BY <1>3 DEF TickDue, PathHealthy, Reopen, DeadlineStands
<1>4. CASE Rearm
  <2>1. TickTypeOK' /\ SlipOfCall'
    BY <1>4 DEF Rearm, NonNegative
  <2>2. at' = "wait" /\ left' = NonNegative(armed' - since')
    BY <1>4 DEF Rearm
  <2>3. QED
    BY <2>1, <2>2 DEF DeadlineStands
<1>5. QED
  BY <1>1, <1>2, <1>3, <1>4 DEF ClockStep

LEMMA TickEnvInv ==
    TickInv /\ (Elapse \/ Datagram \/ (\E p \in Periods : Retune(p))) => TickInv'
<1> SUFFICES ASSUME TickInv, Elapse \/ Datagram \/ (\E p \in Periods : Retune(p))
             PROVE  TickInv'
  OBVIOUS
<1> USE UintMax DEF TickInv, TickTypeOK, SlipOfCall
<1>1. CASE Elapse
  <2>1. TickTypeOK' /\ SlipOfCall'
    BY <1>1 DEF Elapse, NonNegative
  <2>2. CASE at \in {"revive", "on_tick"}
    BY <1>1, <2>1, <2>2 DEF Elapse, DeadlineStands
  <2>3. CASE at \notin {"revive", "on_tick"}
    <3>1. left' = NonNegative(armed' - since')
      BY <1>1, <2>3 DEF Elapse, DeadlineStands, NonNegative
    <3>2. at = "call" /\ armed <= INT_MAX =>
              timer' = NonNegative(armed' - since' + slip')
      BY <1>1 DEF Elapse, DeadlineStands, NonNegative
    <3>3. at = "poll" /\ armed <= INT_MAX =>
              timer' = NonNegative(armed' - since' + slip')
      BY <1>1 DEF Elapse, DeadlineStands, NonNegative
    <3>4. QED
      BY <1>1, <2>1, <3>1, <3>2, <3>3 DEF Elapse, DeadlineStands
  <2>4. QED
    BY <2>2, <2>3
<1>2. CASE Datagram
  BY <1>2 DEF Datagram, DeadlineStands
<1>3. ASSUME NEW p \in Periods, Retune(p) PROVE TickInv'
  BY <1>3, TickAssumption DEF Retune, DeadlineStands
<1>4. QED
  BY <1>1, <1>2, <1>3

LEMMA TickLeftAlone == TickInv /\ UNCHANGED tickVars => TickInv'
BY DEF TickInv, TickTypeOK, SlipOfCall, DeadlineStands, tickVars

LEMMA StoppedInv == Stopped => TickInv'
BY UintMax, TickAssumption
   DEF Stopped, TickInv, TickTypeOK, SlipOfCall, DeadlineStands, NonNegative

(* The deadline of the loop stands a period after the previous tick was    *)
(* found due, and poll() is told to sleep until then, for every            *)
(* width of int, every default period and every sequence of retunes.       *)
THEOREM DeadlineNeverDrifts == LoopSpec => []DeadlineStands
<1>1. LoopInit => TickInv
  BY TickInitInv DEF LoopInit
<1>2. TickInv /\ [LoopNext]_loopVars => TickInv'
  BY ClockStepInv, TickEnvInv, TickLeftAlone, StoppedInv
     DEF LoopNext, LoopStep, HealthyTick, ReopeningTick, TimePasses, ToolRuns, loopVars
<1>3. TickInv => DeadlineStands
  BY DEF TickInv
<1>4. QED
  BY <1>1, <1>2, <1>3, PTL DEF LoopSpec

-----------------------------------------------------------------------------
(* The path. An orderly operator never has both processes there. *)
OneAtATime == orderly => wei = "down" \/ tool = "off"

PathInv == OneAtATime /\ InsteadKeepsPath

LEMMA PathLeftAlone == PathInv /\ UNCHANGED dumpVars => PathInv'
BY DEF PathInv, OneAtATime, InsteadKeepsPath, dumpVars, weiVars, toolVars

LEMMA WeiStepInv == PathInv /\ (WeiStart \/ WeiOpens \/ WeiTick \/ WeiStop) => PathInv'
<1> SUFFICES ASSUME PathInv, WeiStart \/ WeiOpens \/ WeiTick \/ WeiStop PROVE PathInv'
  OBVIOUS
<1> USE DEF PathInv, OneAtATime, InsteadKeepsPath, weiVars, toolVars
<1>1. CASE WeiStart
  BY <1>1 DEF WeiStart
<1>2. CASE WeiUnlink
  BY <1>2 DEF WeiUnlink
<1>3. CASE WeiBind
  BY <1>3 DEF WeiBind
<1>4. CASE WeiBindFails
  BY <1>4 DEF WeiBindFails
<1>5. CASE WeiTick
  BY <1>5 DEF WeiTick
<1>6. CASE WeiStop
  BY <1>6 DEF WeiStop
<1>7. QED
  BY <1>1, <1>2, <1>3, <1>4, <1>5, <1>6 DEF WeiOpens

LEMMA ToolStepInv ==
    PathInv /\ (ToolStep \/ ToolStart \/ ToolRecvFails \/ ToolKilled \/ Interrupt \/ Send)
        => PathInv'
<1> SUFFICES ASSUME PathInv, ToolStep \/ ToolStart \/ ToolRecvFails \/ ToolKilled
                                 \/ Interrupt \/ Send
             PROVE  PathInv'
  OBVIOUS
<1> USE DEF PathInv, OneAtATime, InsteadKeepsPath, weiVars, toolVars
<1>1. CASE ToolStart
  BY <1>1 DEF ToolStart
<1>2. CASE ToolUnlink
  BY <1>2 DEF ToolUnlink
<1>3. CASE ToolBind
  BY <1>3 DEF ToolBind
<1>4. CASE ToolBindFails
  BY <1>4 DEF ToolBindFails
<1>5. CASE ToolLoop
  BY <1>5 DEF ToolLoop
<1>6. CASE ToolRecv \/ ToolRecvFails
  BY <1>6 DEF ToolRecv, ToolRecvFails
<1>7. CASE ToolClose
  BY <1>7 DEF ToolClose
<1>8. CASE ToolLeave
  BY <1>8 DEF ToolLeave
<1>9. CASE ToolKilled
  BY <1>9 DEF ToolKilled
<1>10. CASE Interrupt \/ Send
  BY <1>10 DEF Interrupt, Send
<1>11. QED
  BY <1>1, <1>2, <1>3, <1>4, <1>5, <1>6, <1>7, <1>8, <1>9, <1>10 DEF ToolStep

(* Run instead of each other, daemon and tool keep the path: each finds it *)
(* free when it binds, however the previous owner ended, and owns it while *)
(* it receives.                                                            *)
THEOREM InsteadIsSafe == LoopSpec => []InsteadKeepsPath
<1>1. LoopInit => PathInv
  BY DEF LoopInit, DumpInit, PathInv, OneAtATime, InsteadKeepsPath
<1>2. PathInv /\ [LoopNext]_loopVars => PathInv'
  BY PathLeftAlone, WeiStepInv, ToolStepInv
     DEF LoopNext, LoopStep, HealthyTick, ReopeningTick, TimePasses, ToolRuns,
         Stopped, loopVars
<1>3. PathInv => InsteadKeepsPath
  BY DEF PathInv
<1>4. QED
  BY <1>1, <1>2, <1>3, PTL DEF LoopSpec

-----------------------------------------------------------------------------
(* Entry arithmetic with a symbolic element size. *)
LEMMA ProductMonotone ==
    ASSUME NEW a \in Nat, NEW b \in Nat, NEW s \in Nat, a <= b
    PROVE  a * s \in Nat /\ b * s \in Nat /\ a * s <= b * s
<1>1. PICK d \in Nat : b = a + d
  <2>1. b - a \in Nat /\ b = a + (b - a)
    OBVIOUS
  <2>2. QED
    BY <2>1
<1>2. b * s = a * s + d * s /\ d * s \in Nat /\ a * s \in Nat
  BY <1>1, Z3
<1>3. QED
  BY <1>2

LEMMA DivMod ==
    ASSUME NEW a \in Nat, NEW s \in Nat \ {0}
    PROVE  /\ a \div s \in Nat /\ a % s \in 0 .. s - 1
           /\ a = (a \div s) * s + (a % s)
BY Z3

(* The place of byte j + 1 of entry i. *)
LEMMA EntryPlace ==
    ASSUME NEW s \in Nat \ {0}, NEW i \in Nat, NEW j \in 0 .. s - 1
    PROVE  (i * s + j) \div s = i /\ (i * s + j) % s = j
<1> DEFINE a == i * s + j
           q == a \div s
<1>1. i * s \in Nat /\ a \in Nat
  BY ProductMonotone
<1>2. q \in Nat /\ a % s \in 0 .. s - 1 /\ a = q * s + (a % s)
  BY <1>1, DivMod
<1>3. a = i * s + j
  OBVIOUS
<1> HIDE DEF a, q
<1>4. (i + 1) * s = i * s + s /\ (q + 1) * s = q * s + s
  BY <1>2, Z3
<1>5. ~(q < i)
  <2>1. q < i => (q + 1) * s <= i * s
    BY <1>2, ProductMonotone
  <2>2. QED
    BY <1>1, <1>2, <1>3, <1>4, <2>1, ProductMonotone
<1>6. ~(i < q)
  <2>1. i < q => (i + 1) * s <= q * s
    BY <1>2, ProductMonotone
  <2>2. QED
    BY <1>1, <1>2, <1>3, <1>4, <2>1, ProductMonotone
<1>7. q = i
  BY <1>2, <1>5, <1>6
<1>8. QED
  BY <1>1, <1>2, <1>3, <1>7, ProductMonotone DEF q, a

LEMMA DivBelow ==
    ASSUME NEW a \in Nat, NEW s \in Nat \ {0}, NEW n \in Nat, a < n * s
    PROVE  a \div s \in 0 .. n - 1
<1> DEFINE q == a \div s
<1>1. q \in Nat /\ a % s \in 0 .. s - 1 /\ a = q * s + (a % s)
  BY DivMod
<1> HIDE DEF q
<1>2. n <= q => n * s <= q * s
  BY <1>1, ProductMonotone
<1>3. ~(n <= q)
  BY <1>1, <1>2, ProductMonotone
<1>4. QED
  BY <1>1, <1>3 DEF q
-----------------------------------------------------------------------------
(* Frames. *)
Build == [version : Nat, size : Nat \ {0}]

Cell == [reading : Reading, at : Nat, build : Build]

Frame == [type : Types \cup {"PERIODIC_STATS", "NONE"}, version : Nat,
          elem_size : Nat \ {0}, len : Nat, value : Seq(Cell), bytes : Nat]

LEMMA CutFacts ==
    ASSUME NEW S, NEW bytes \in Seq(S), NEW n \in Nat
    PROVE  /\ Cut(bytes, n) \in Seq(S)
           /\ Len(Cut(bytes, n)) = Least(Len(bytes), n)
           /\ \A k \in 1 .. Len(Cut(bytes, n)) : Cut(bytes, n)[k] = bytes[k]
           /\ Len(bytes) <= n => Cut(bytes, n) = bytes
<1> DEFINE l == Least(Len(bytes), n)
<1>1. l \in 0 .. Len(bytes) /\ l <= n /\ (Len(bytes) <= n => l = Len(bytes))
  BY DEF Least
<1> HIDE DEF l
<1>2. Cut(bytes, n) = SubSeq(bytes, 1, l)
  BY DEF Cut, l
<1>3. /\ SubSeq(bytes, 1, l) \in Seq(S) /\ Len(SubSeq(bytes, 1, l)) = l
      /\ \A k \in 1 .. l : SubSeq(bytes, 1, l)[k] = bytes[k]
      /\ l = Len(bytes) => SubSeq(bytes, 1, l) = bytes
  BY <1>1
<1>4. QED
  BY <1>1, <1>2, <1>3 DEF l

LEMMA CellsFacts ==
    ASSUME NEW rs \in Seq(Reading), NEW b \in Build
    PROVE  /\ Cells(rs, b) \in Seq(Cell)
           /\ Len(Cells(rs, b)) = Len(rs) * b.size
           /\ \A k \in 1 .. Len(rs) * b.size :
                 /\ Cells(rs, b)[k] \in Cell
                 /\ Cells(rs, b)[k].reading = rs[((k - 1) \div b.size) + 1]
                 /\ Cells(rs, b)[k].at = (k - 1) % b.size
                 /\ Cells(rs, b)[k].build = b
<1> DEFINE n == Len(rs)
<1>1. rs \in [1 .. n -> Reading]
  OBVIOUS
<1>2. n \in Nat /\ Len(rs) = n /\ b.size \in Nat \ {0}
  BY DEF Build
<1> HIDE DEF n
<1> DEFINE c == Cells(rs, b)
<1>3. n * b.size \in Nat
  BY <1>2, ProductMonotone
<1>4. c = [k \in 1 .. n * b.size |->
              [reading |-> rs[((k - 1) \div b.size) + 1],
               at |-> (k - 1) % b.size, build |-> b]]
  BY <1>2 DEF Cells
<1> HIDE DEF c
<1>5. ASSUME NEW k \in 1 .. n * b.size
      PROVE  /\ c[k] \in Cell
             /\ c[k].reading = rs[((k - 1) \div b.size) + 1]
             /\ c[k].at = (k - 1) % b.size /\ c[k].build = b
  <2>1. k - 1 \in Nat /\ k - 1 < n * b.size
    BY <1>3
  <2>2. (k - 1) \div b.size \in 0 .. n - 1 /\ (k - 1) % b.size \in Nat
    <3>1. \A a \in Nat : /\ a < n * b.size => a \div b.size \in 0 .. n - 1
                         /\ a % b.size \in 0 .. b.size - 1
      BY <1>2, DivBelow, DivMod
    <3>2. 0 .. b.size - 1 \subseteq Nat
      BY <1>2
    <3>3. QED
      BY <2>1, <3>1, <3>2
  <2> DEFINE p == ((k - 1) \div b.size) + 1
             m == (k - 1) % b.size
  <2>3. p \in 1 .. n
    BY <1>2, <2>2
  <2>4. c[k] = [reading |-> rs[p], at |-> m, build |-> b]
    BY <1>4
  <2>5. m \in Nat
    BY <2>2
  <2> HIDE DEF p, m
  <2>6. rs[p] \in Reading
    BY <1>1, <2>3
  <2>7. c[k] \in Cell /\ c[k].reading = rs[p] /\ c[k].at = m /\ c[k].build = b
    BY <2>4, <2>5, <2>6 DEF Cell
  <2>8. QED
    BY <2>7 DEF p, m
<1>6. c \in [1 .. n * b.size -> Cell]
  BY <1>4, <1>5
<1>7. c \in Seq(Cell) /\ Len(c) = n * b.size
  BY <1>3, <1>6
<1>8. QED
  BY <1>2, <1>5, <1>7 DEF c

LEMMA OursIsABuild == Ours \in Build /\ Ours.size = ElemSize /\ MacString \in Build
<1>1. Version \in Nat /\ ElemSize \in Nat \ {0} /\ 1 \in Nat \ {0}
  BY BufferAssumption, SenderAssumption
<1>2. QED
  BY <1>1, Zenon DEF Ours, MacString, Build

(* Every frame a sender builds fits the length field and the buffer. *)
Fits(f) == Len(f.value) <= LenMax /\ f.bytes <= DgramMax

Laid(f, type, rs, b) ==
    /\ f \in Frame /\ Fits(f)
    /\ f.type = type /\ f.version = b.version /\ f.elem_size = b.size
    /\ f.len = Len(f.value) /\ f.bytes = HdrLen + Len(f.value)
    /\ f.value = Cut(Cells(rs, b), LenMax)

LEMMA FrameOfFacts ==
    ASSUME NEW t \in Types \cup {"PERIODIC_STATS", "NONE"},
           NEW rs \in Seq(Reading), NEW b \in Build
    PROVE  Laid(FrameOf(t, rs, b), t, rs, b)
<1> DEFINE v == Cut(Cells(rs, b), LenMax)
           f == FrameOf(t, rs, b)
<1>1. Cells(rs, b) \in Seq(Cell)
  BY CellsFacts
<1>2. LenMax \in Nat /\ DgramMax \in Nat /\ HdrLen + LenMax <= DgramMax
  BY BufferAssumption DEF HdrLen
<1>3. /\ v \in Seq(Cell) /\ Len(v) \in Nat
      /\ Len(v) = Least(Len(Cells(rs, b)), LenMax)
  BY <1>1, <1>2, CutFacts
<1>4. Len(v) <= LenMax
  BY <1>1, <1>2, <1>3 DEF Least
<1>5. HdrLen + Len(v) \in Nat /\ HdrLen + Len(v) <= DgramMax
  BY <1>2, <1>3, <1>4 DEF HdrLen
<1>6. f = [type |-> t, version |-> b.version, elem_size |-> b.size,
           len |-> Len(v), value |-> v, bytes |-> HdrLen + Len(v)]
  BY Zenon DEF FrameOf
<1> HIDE DEF v, f
<1>7. b.version \in Nat /\ b.size \in Nat \ {0}
  BY DEF Build
<1>8. f \in Frame
  BY <1>3, <1>5, <1>6, <1>7, Zenon DEF Frame
<1>9. /\ f.type = t /\ f.version = b.version /\ f.elem_size = b.size
      /\ f.len = Len(v) /\ f.bytes = HdrLen + Len(v) /\ f.value = v
  BY <1>6, Zenon
<1>10. Fits(f)
  BY <1>4, <1>5, <1>9 DEF Fits
<1>11. QED
  BY <1>8, <1>9, <1>10 DEF v, f, Laid

LEMMA ReadingsAreSeqs == Readings \subseteq Seq(Reading)
<1> SUFFICES ASSUME NEW n \in 0 .. MaxEntries, NEW rs \in [1 .. n -> Reading]
             PROVE  rs \in Seq(Reading)
  BY DEF Readings
<1>1. n \in Nat
  BY BufferAssumption
<1>2. QED
  BY <1>1

(* Senders' frames, with the length field right, off, or cut short. *)
LEMMA WireFrames ==
    ASSUME NEW f \in Wire
    PROVE  f \in Frame /\ Fits(f)
<1> USE OursIsABuild, ReadingsAreSeqs
<1>0. Builds \subseteq Build
  BY SenderAssumption DEF Build
<1>1. ASSUME NEW g \in Stats PROVE g \in Frame /\ Fits(g)
  <2>1. PICK rs \in Readings, b \in Builds : g = FrameOf("PERIODIC_STATS", rs, b)
    BY <1>1 DEF Stats
  <2>2. QED
    BY <1>0, <2>1, FrameOfFacts DEF Laid
<1>2. CASE f \in Others
  <2>1. PICK t \in Types, r \in Reading : f = FrameOf(t, <<r>>, MacString)
    BY <1>2 DEF Others
  <2>2. <<r>> \in Seq(Reading)
    OBVIOUS
  <2>3. QED
    BY <2>1, <2>2, FrameOfFacts DEF Laid
<1>3. CASE f \in Mislabelled
  <2>1. PICK g \in Stats, n \in {0, 1, ElemSize, LenMax} : f = [g EXCEPT !.len = n]
    BY <1>3 DEF Mislabelled
  <2>2. n \in Nat
    BY BufferAssumption
  <2>3. g \in Frame /\ Fits(g)
    BY <1>1
  <2>4. f \in Frame /\ f.value = g.value /\ f.bytes = g.bytes
    BY <2>1, <2>2, <2>3, Zenon DEF Frame
  <2>5. QED
    BY <2>3, <2>4 DEF Fits
<1>4. CASE f \in Runts
  <2> DEFINE g == FrameOf("PERIODIC_STATS", <<>>, Ours)
  <2>1. PICK n \in {1, HdrLen - 1} : f = [g EXCEPT !.bytes = n, !.value = <<>>]
    BY <1>4 DEF Runts
  <2>2. <<>> \in Seq(Reading) /\ <<>> \in Seq(Cell) /\ Len(<<>>) = 0
    OBVIOUS
  <2>3. g \in Frame
    BY <2>2, FrameOfFacts DEF Laid
  <2> HIDE DEF g
  <2>4. n \in Nat /\ n <= DgramMax /\ 0 <= LenMax
    BY <2>1, BufferAssumption DEF HdrLen
  <2>5. f \in Frame /\ f.value = <<>> /\ f.bytes = n
    BY <2>1, <2>2, <2>3, <2>4, Zenon DEF Frame
  <2>6. QED
    BY <2>2, <2>4, <2>5 DEF Fits
<1>5. QED
  BY <1>1, <1>2, <1>3, <1>4 DEF Wire

(* Nothing on the wire is cut by the receive buffer. *)
LEMMA ReceivedWhole ==
    ASSUME NEW f \in Frame, Fits(f)
    PROVE  Received(f) = f
<1>1. f.value \in Seq(Cell) /\ f.bytes \in Nat
  BY Zenon DEF Frame
<1>2. DgramMax - HdrLen \in Nat /\ LenMax <= DgramMax - HdrLen /\ LenMax \in Nat
  BY BufferAssumption DEF HdrLen
<1>3. Cut(f.value, DgramMax - HdrLen) = f.value
  BY <1>1, <1>2, CutFacts DEF Fits
<1>4. Least(f.bytes, DgramMax) = f.bytes
  BY <1>1, BufferAssumption DEF Fits, Least
<1>5. QED
  BY <1>3, <1>4, Zenon DEF Received, Frame

(* An accepted frame: what it holds was laid out by this build. *)
OurFrame(f) ==
    /\ f \in Frame /\ LegalStats(f)
    /\ \E rs \in Readings : f.value = Cut(Cells(rs, Ours), LenMax)

(* The checks accept exactly the legal statistics frames. *)
LEMMA AcceptedIsLegal ==
    ASSUME NEW f \in Wire
    PROVE  /\ Accepted(f) <=> LegalStats(f)
           /\ Accepted(f) => OurFrame(f)
<1>0. f \in Frame /\ Len(f.value) \in Nat /\ f.bytes \in Nat
  BY WireFrames DEF Frame
<1>1. ASSUME LegalStats(f) PROVE Accepted(f)
  <2>1. f.bytes - HdrLen = Len(f.value) /\ f.bytes >= HdrLen
    BY <1>0, <1>1 DEF LegalStats, HdrLen
  <2>2. QED
    BY <1>1, <2>1 DEF LegalStats, Accepted
<1>2. ASSUME NEW g \in Stats, g.version = Version, g.elem_size = ElemSize
      PROVE  /\ g.bytes = HdrLen + Len(g.value)
             /\ \E rs \in Readings : g.value = Cut(Cells(rs, Ours), LenMax)
  <2>1. PICK rs \in Readings, b \in Builds : g = FrameOf("PERIODIC_STATS", rs, b)
    BY <1>2 DEF Stats
  <2>2. b \in Build
    BY SenderAssumption DEF Build
  <2>3. /\ g.version = b.version /\ g.elem_size = b.size
        /\ g.bytes = HdrLen + Len(g.value)
        /\ g.value = Cut(Cells(rs, b), LenMax)
    <3>1. rs \in Seq(Reading)
      BY ReadingsAreSeqs
    <3>2. Laid(g, "PERIODIC_STATS", rs, b)
      BY <2>1, <2>2, <3>1, FrameOfFacts
    <3>3. QED
      BY <3>2 DEF Laid
  <2>4. b = Ours
    BY <1>2, <2>2, <2>3, Zenon DEF Ours, Build
  <2>5. QED
    BY <2>3, <2>4
<1>3. ASSUME Accepted(f)
      PROVE  /\ f.bytes = HdrLen + Len(f.value)
             /\ \E rs \in Readings : f.value = Cut(Cells(rs, Ours), LenMax)
  <2>1. CASE f \in Stats
    BY <1>2, <1>3, <2>1 DEF Accepted
  <2>2. CASE f \in Others
    <3>1. PICK t \in Types, r \in Reading : f = FrameOf(t, <<r>>, MacString)
      BY <2>2 DEF Others
    <3>2. <<r>> \in Seq(Reading)
      OBVIOUS
    <3>3. f.type = t
      <4>1. Laid(f, t, <<r>>, MacString)
        BY <3>1, <3>2, OursIsABuild, FrameOfFacts
      <4>2. QED
        BY <4>1 DEF Laid
    <3>4. QED
      BY <1>3, <3>3, SenderAssumption DEF Accepted
  <2>3. CASE f \in Mislabelled
    <3>1. PICK g \in Stats, n \in {0, 1, ElemSize, LenMax} : f = [g EXCEPT !.len = n]
      BY <2>3 DEF Mislabelled
    <3>2. g \in Frame
      BY WireFrames DEF Wire
    <3>3. /\ f.value = g.value /\ f.bytes = g.bytes
          /\ f.version = g.version /\ f.elem_size = g.elem_size
      BY <3>1, <3>2, Zenon DEF Frame
    <3>4. QED
      BY <1>2, <1>3, <3>3 DEF Accepted
  <2>4. CASE f \in Runts
    <3> DEFINE g == FrameOf("PERIODIC_STATS", <<>>, Ours)
    <3>1. PICK n \in {1, HdrLen - 1} : f = [g EXCEPT !.bytes = n, !.value = <<>>]
      BY <2>4 DEF Runts
    <3>2. g \in Frame
      <4>1. <<>> \in Seq(Reading)
        OBVIOUS
      <4>2. QED
        BY <4>1, OursIsABuild, FrameOfFacts DEF Laid
    <3> HIDE DEF g
    <3>3. f.bytes = n
      BY <3>1, <3>2, Zenon DEF Frame
    <3>4. QED
      BY <1>3, <3>1, <3>3 DEF Accepted, HdrLen
  <2>5. QED
    BY <2>1, <2>2, <2>3, <2>4 DEF Wire
<1>4. Accepted(f) => LegalStats(f)
  <2> SUFFICES ASSUME Accepted(f) PROVE LegalStats(f)
    OBVIOUS
  <2>1. f.bytes = HdrLen + Len(f.value)
    BY <1>3
  <2>2. f.bytes - HdrLen = Len(f.value)
    BY <1>0, <2>1 DEF HdrLen
  <2>3. QED
    BY <2>1, <2>2 DEF Accepted, LegalStats
<1>5. QED
  BY <1>0, <1>1, <1>3, <1>4 DEF OurFrame

-----------------------------------------------------------------------------
(* The entries of an accepted frame. *)
LEMMA EntryIsSent ==
    ASSUME NEW f, OurFrame(f)
    PROVE  /\ Count(f) \in Nat /\ DOMAIN Sent(f) = 1 .. Count(f)
           /\ Sent(f) \in Seq(Reading) /\ Len(Sent(f)) = Count(f)
           /\ \A i \in 0 .. Count(f) - 1 : Entry(f, i) = Sent(f)[i + 1]
<1> DEFINE n == Count(f)
           E == ElemSize
           v == f.value
<1>1. E \in Nat \ {0} /\ LenMax \in Nat
  BY BufferAssumption
<1>2. v \in Seq(Cell) /\ Len(v) \in Nat
  BY DEF OurFrame, Frame
<1>3. f.bytes - HdrLen = Len(v) /\ f.len = Len(v) /\ Len(v) % E = 0
  BY <1>2 DEF OurFrame, LegalStats, HdrLen
<1>4. n = Len(v) \div E
  BY <1>3 DEF Count
<1>5. n \in Nat /\ Len(v) = n * E
  <2>1. n \in Nat /\ Len(v) = n * E + (Len(v) % E)
    BY <1>1, <1>2, <1>4, DivMod
  <2>2. n * E \in Nat
    BY <1>1, <2>1, ProductMonotone
  <2>3. QED
    BY <1>3, <2>1, <2>2
<1>6. PICK rs \in Readings : v = Cut(Cells(rs, Ours), LenMax)
  BY DEF OurFrame
<1>7. rs \in Seq(Reading) /\ Ours \in Build /\ Ours.size = E
  BY <1>6, ReadingsAreSeqs, OursIsABuild
<1>8. /\ Cells(rs, Ours) \in Seq(Cell)
      /\ Len(Cells(rs, Ours)) = Len(rs) * E
      /\ \A k \in 1 .. Len(rs) * E :
            /\ Cells(rs, Ours)[k].reading = rs[((k - 1) \div E) + 1]
            /\ Cells(rs, Ours)[k].at = (k - 1) % E
            /\ Cells(rs, Ours)[k].build = Ours
  BY <1>7, CellsFacts
<1>9. /\ Len(v) <= Len(rs) * E
      /\ \A k \in 1 .. Len(v) : v[k] = Cells(rs, Ours)[k]
  <2>1. Len(v) = Least(Len(rs) * E, LenMax)
    BY <1>1, <1>6, <1>8, CutFacts
  <2>2. Len(rs) * E \in Nat
    BY <1>1, <1>7, ProductMonotone
  <2>3. Len(v) <= Len(rs) * E
    BY <1>1, <2>1, <2>2 DEF Least
  <2>4. QED
    BY <1>1, <1>6, <1>8, <2>3, CutFacts
<1>10. Sent(f) = [k \in 1 .. n |-> v[(k - 1) * E + 1].reading]
  BY <1>3, <1>4 DEF Sent
<1> HIDE DEF n
<1>11. ASSUME NEW i \in 0 .. n - 1, NEW j \in 1 .. E
       PROVE  /\ i * E + j \in 1 .. Len(v) /\ i * E \in Nat
              /\ (i + 1) * E <= Len(v)
              /\ v[i * E + j].reading = rs[i + 1]
              /\ v[i * E + j].at = j - 1
              /\ v[i * E + j].build = Ours
  <2>1. i \in Nat /\ i + 1 <= n
    BY <1>5
  <2>2. i * E \in Nat /\ (i + 1) * E = i * E + E /\ (i + 1) * E <= n * E
    <3>1. (i + 1) * E = i * E + E
      BY <1>1, <2>1, Z3
    <3>2. QED
      BY <1>1, <1>5, <2>1, <3>1, ProductMonotone
  <2> DEFINE k == i * E + j
  <2>3. k \in 1 .. Len(v)
    BY <1>1, <1>5, <2>2
  <2>4. k \in 1 .. Len(rs) * E
    BY <1>1, <1>2, <1>7, <1>9, <2>3, ProductMonotone
  <2>5. k - 1 = i * E + (j - 1) /\ j - 1 \in 0 .. E - 1
    BY <1>1, <2>2
  <2> HIDE DEF k
  <2>6. (k - 1) \div E = i /\ (k - 1) % E = j - 1
    <3>1. \A d \in 0 .. E - 1 : (i * E + d) \div E = i /\ (i * E + d) % E = d
      BY <1>1, <2>1, EntryPlace
    <3>2. QED
      BY <2>5, <3>1
  <2>7. /\ v[k].reading = rs[i + 1] /\ v[k].at = j - 1 /\ v[k].build = Ours
    BY <1>8, <1>9, <2>3, <2>4, <2>6
  <2>8. QED
    BY <1>5, <2>2, <2>3, <2>7 DEF k
<1>12. ASSUME NEW i \in 0 .. n - 1
       PROVE  Sent(f)[i + 1] = rs[i + 1] /\ rs[i + 1] \in Reading
  <2>1. 1 \in 1 .. E /\ i + 1 \in 1 .. n /\ (i + 1) - 1 = i
    BY <1>1, <1>5
  <2>2. Sent(f)[i + 1] = v[i * E + 1].reading
    BY <1>10, <2>1
  <2>3. v[i * E + 1] \in Cell
    BY <1>2, <1>11, <2>1
  <2>4. v[i * E + 1].reading \in Reading
    BY <2>3 DEF Cell
  <2>5. QED
    BY <1>11, <2>1, <2>2, <2>4
<1>13. ASSUME NEW i \in 0 .. n - 1
       PROVE  Entry(f, i) = rs[i + 1]
  <2>1. /\ (i + 1) * E <= Len(v)
        /\ \A j \in 1 .. E : /\ v[i * E + j].build = Ours /\ v[i * E + j].at = j - 1
                             /\ v[i * E + j].reading = v[i * E + 1].reading
    BY <1>1, <1>11
  <2>2. v[i * E + 1].reading = rs[i + 1]
    BY <1>1, <1>11
  <2>3. QED
    BY <2>1, <2>2, Zenon DEF Entry
<1>14. Sent(f) \in Seq(Reading) /\ Len(Sent(f)) = n /\ DOMAIN Sent(f) = 1 .. n
  <2>1. \A k \in 1 .. n : k - 1 \in 0 .. n - 1 /\ (k - 1) + 1 = k
    BY <1>5
  <2>2. \A k \in 1 .. n : Sent(f)[k] \in Reading
    BY <1>12, <2>1
  <2>3. DOMAIN Sent(f) = 1 .. n /\ Sent(f) = [k \in 1 .. n |-> Sent(f)[k]]
    BY <1>10
  <2>4. Sent(f) \in [1 .. n -> Reading]
    BY <2>2, <2>3
  <2>5. QED
    BY <1>5, <2>3, <2>4
<1>15. QED
  BY <1>5, <1>12, <1>13, <1>14 DEF n

-----------------------------------------------------------------------------
(* A table of the map: one slot a station, live slots hold stations. *)
Table(tbl) ==
    /\ tbl = [i \in Slot |-> tbl[i]] /\ UniqueMacs(tbl)
    /\ \A i \in Slot : tbl[i].in_use => tbl[i].mac \in Mac

(* Entry k is the last one of its station among the first c of the frame. *)
LastUpTo(f, k, c) == \A j \in k + 1 .. c : Sent(f)[j].mac # Sent(f)[k].mac

(* Where the loop over a frame stands after c entries: stations it does    *)
(* not name keep their record, those it has passed have their last entry   *)
(* so far, or were refused by a full map. What the slot of a station still *)
(* to come holds does not matter: its entry will overwrite it.             *)
Progress(tbl, log, f, c) ==
    /\ \A i \in Slot : tbl[i].in_use =>
          /\ tbl[i].mac \notin Named(f) => tbl[i].rec = log[tbl[i].mac]
          /\ \A k \in 1 .. c :
                Sent(f)[k].mac = tbl[i].mac /\ LastUpTo(f, k, c) =>
                    tbl[i].rec = MapRecord(Sent(f)[k])
    /\ \A k \in 1 .. c :
          Tracked(tbl, Sent(f)[k].mac) \/ \A i \in Slot : tbl[i].in_use

LEMMA NamedEntries ==
    ASSUME NEW f, OurFrame(f)
    PROVE  /\ Named(f) \subseteq Mac
           /\ \A k \in 1 .. Count(f) : Sent(f)[k].mac \in Named(f)
           /\ \A m \in Named(f) : \E k \in 1 .. Count(f) : Sent(f)[k].mac = m
<1>1. /\ Sent(f) \in Seq(Reading) /\ DOMAIN Sent(f) = 1 .. Count(f)
      /\ Len(Sent(f)) = Count(f)
  BY EntryIsSent
<1>2. \A k \in 1 .. Count(f) : Sent(f)[k] \in Reading
  BY <1>1
<1>3. \A k \in 1 .. Count(f) : Sent(f)[k].mac \in Mac
  BY <1>2, ReadingAssumption
<1>4. QED
  BY <1>1, <1>3 DEF Named

(* One entry more. *)
LEMMA StageProgress ==
    ASSUME NEW f, OurFrame(f), NEW c \in 0 .. Count(f) - 1, Table(slots),
           NEW log, Progress(slots, log, f, c),
           NEW new, new = Stage(Entry(f, c))
    PROVE  Table(new) /\ Progress(new, log, f, c + 1)
<1> DEFINE r == Entry(f, c)
           mac == r.mac
<1>0. Count(f) \in Nat /\ c \in Nat /\ c + 1 \in 1 .. Count(f)
  BY EntryIsSent
<1>1. r = Sent(f)[c + 1]
  BY EntryIsSent
<1>2. mac \in Named(f) /\ mac \in Mac /\ Sent(f)[c + 1].mac = mac
  BY <1>0, <1>1, NamedEntries
<1> HIDE DEF r
<1>3. \A k \in 1 .. c + 1 : k \in 1 .. c \/ k = c + 1
  BY <1>0
<1>4. ASSUME NEW k \in 1 .. c + 1, LastUpTo(f, k, c + 1), Sent(f)[k].mac # mac
      PROVE  k \in 1 .. c /\ LastUpTo(f, k, c)
  <2>1. k \in 1 .. c
    BY <1>2, <1>3, <1>4
  <2>2. \A j \in k + 1 .. c : j \in k + 1 .. c + 1
    BY <1>0
  <2>3. QED
    BY <1>4, <2>1, <2>2 DEF LastUpTo
<1>5. ASSUME NEW k \in 1 .. c + 1, LastUpTo(f, k, c + 1), Sent(f)[k].mac = mac
      PROVE  k = c + 1
  <2>1. k \in 1 .. c => c + 1 \in k + 1 .. c + 1
    BY <1>0
  <2>2. QED
    BY <1>2, <1>3, <1>5, <2>1 DEF LastUpTo
<1>6. ASSUME NEW i \in Slot, new[i] = slots[i], slots[i].in_use, slots[i].mac # mac
      PROVE  /\ new[i].mac \notin Named(f) => new[i].rec = log[new[i].mac]
             /\ \A k \in 1 .. c + 1 :
                   Sent(f)[k].mac = new[i].mac /\ LastUpTo(f, k, c + 1) =>
                       new[i].rec = MapRecord(Sent(f)[k])
  BY <1>4, <1>6 DEF Progress
<1>7. CASE HasSlot(slots, mac)
  <2> DEFINE s == SlotFor(slots, mac)
             rec == [mac |-> mac, in_use |-> TRUE, rec |-> MapRecord(r)]
  <2>1. s \in Slot /\ (~slots[s].in_use \/ slots[s].mac = mac)
    BY <1>7, SlotForChosen DEF FindOrAdd, FirstFree, Holds
  <2>2. new = [slots EXCEPT ![s] = rec]
    BY <1>7, Zenon DEF Stage, r
  <2>3. rec.in_use /\ rec.mac = mac /\ rec.rec = MapRecord(r)
    OBVIOUS
  <2> HIDE DEF rec
  <2>4. /\ UniqueMacs(new)
        /\ \A i \in Slot : Holds(new, i, mac) <=> i = s
        /\ \A i \in Slot : i # s => new[i] = slots[i]
        /\ new[s] = rec
    BY <1>7, <2>2, <2>3, StoreKeepsUnique DEF Table
  <2> HIDE DEF s
  <2>5. new = [i \in Slot |-> new[i]]
    BY <2>2 DEF Table
  <2>6. Table(new)
    BY <1>2, <2>3, <2>4, <2>5 DEF Table
  <2>7. ASSUME NEW i \in Slot, new[i].in_use
        PROVE  /\ new[i].mac \notin Named(f) => new[i].rec = log[new[i].mac]
               /\ \A k \in 1 .. c + 1 :
                     Sent(f)[k].mac = new[i].mac /\ LastUpTo(f, k, c + 1) =>
                         new[i].rec = MapRecord(Sent(f)[k])
    <3>1. CASE i = s
      BY <1>1, <1>2, <1>5, <2>3, <2>4, <3>1
    <3>2. CASE i # s
      <4>1. new[i] = slots[i] /\ slots[i].in_use /\ slots[i].mac # mac
        BY <2>4, <2>7, <3>2 DEF Holds
      <4>2. QED
        BY <1>6, <4>1
    <3>3. QED
      BY <3>1, <3>2
  <2>8. ASSUME NEW k \in 1 .. c + 1
        PROVE  Tracked(new, Sent(f)[k].mac) \/ \A i \in Slot : new[i].in_use
    <3>1. CASE k = c + 1
      BY <1>2, <2>1, <2>4, <3>1 DEF Tracked
    <3>2. CASE k \in 1 .. c
      <4>1. \A i \in Slot : slots[i].in_use =>
               new[i].in_use /\ new[i].mac = slots[i].mac
        BY <2>1, <2>3, <2>4
      <4>2. Tracked(slots, Sent(f)[k].mac) \/ \A i \in Slot : slots[i].in_use
        BY <3>2 DEF Progress
      <4>3. QED
        BY <4>1, <4>2 DEF Tracked, Holds
    <3>3. QED
      BY <1>3, <3>1, <3>2
  <2>9. QED
    BY <2>6, <2>7, <2>8 DEF Progress
<1>8. CASE ~HasSlot(slots, mac)
  <2>1. new = slots
    BY <1>8 DEF Stage, r
  <2>2. \A i \in Slot : slots[i].in_use /\ slots[i].mac # mac
    BY <1>8, NoSlotMeansFull
  <2>3. QED
    BY <1>6, <2>1, <2>2 DEF Progress
<1>9. QED
  BY <1>7, <1>8

(* After the last entry the loop has applied the last one of each station. *)
LEMMA FrameApplied ==
    ASSUME NEW f, OurFrame(f), NEW tbl, NEW log, Progress(tbl, log, f, Count(f)),
           \A m \in Named(f) : log[m] = LastFor(f, m)
    PROVE  /\ \A i \in Slot : tbl[i].in_use => tbl[i].rec = log[tbl[i].mac]
           /\ \A m \in Named(f) : Tracked(tbl, m) \/ \A i \in Slot : tbl[i].in_use
<1> DEFINE n == Count(f)
           rs == Sent(f)
<1>1. n \in Nat /\ DOMAIN rs = 1 .. n /\ Len(rs) = n
  BY EntryIsSent
<1>2. ASSUME NEW i \in Slot, tbl[i].in_use PROVE tbl[i].rec = log[tbl[i].mac]
  <2> DEFINE m == tbl[i].mac
  <2>1. CASE m \notin Named(f)
    BY <1>2, <2>1 DEF Progress
  <2>2. CASE m \in Named(f)
    <3> DEFINE D == {d \in 0 .. n - 1 : rs[n - d].mac = m}
    <3>1. PICK k0 \in 1 .. n : rs[k0].mac = m
      BY <2>2, NamedEntries
    <3>2. D \subseteq Nat /\ n - k0 \in D
      BY <1>1, <3>1
    <3>3. PICK d \in D : \A e \in D : ~(<<e, d>> \in OpToRel(<, Nat))
      BY <3>2, NatLessThanWellFounded, WFMin
    <3>4. \A e \in D : ~(e < d)
      BY <3>2, <3>3 DEF OpToRel
    <3> DEFINE last(k) == rs[k].mac = m /\ \A j \in k + 1 .. Len(rs) : rs[j].mac # m
               k1 == CHOOSE k \in DOMAIN rs : last(k)
    <3>5. n - d \in DOMAIN rs /\ last(n - d)
      <4>1. d \in 0 .. n - 1 /\ rs[n - d].mac = m
        BY <3>3
      <4>2. n - d \in DOMAIN rs
        BY <1>1, <4>1
      <4>3. ASSUME NEW j \in (n - d) + 1 .. n, rs[j].mac = m PROVE FALSE
        <5>1. n - j \in 0 .. n - 1 /\ n - (n - j) = j /\ n - j < d
          BY <1>1, <4>1
        <5>2. n - j \in D
          BY <4>3, <5>1
        <5>3. QED
          BY <3>4, <5>1, <5>2
      <4>4. QED
        BY <1>1, <4>1, <4>2, <4>3
    <3> HIDE DEF D
    <3>6. k1 \in 1 .. n /\ last(k1)
      <4> HIDE DEF last
      <4>1. QED
        BY <1>1, <3>5
    <3>7. LastFor(f, m) = MapRecord(rs[k1])
      BY Zenon DEF LastFor
    <3> HIDE DEF k1
    <3>8. LastUpTo(f, k1, n)
      BY <1>1, <3>6 DEF LastUpTo
    <3>9. tbl[i].rec = MapRecord(rs[k1])
      BY <1>2, <3>6, <3>8 DEF Progress
    <3>10. QED
      BY <2>2, <3>7, <3>9
  <2>3. QED
    BY <2>1, <2>2
<1>3. QED
  BY <1>2, NamedEntries DEF Progress

-----------------------------------------------------------------------------
(* Between frames the properties themselves; within one, its progress. *)
Staging ==
    /\ OurFrame(frame) /\ cursor \in 0 .. Count(frame) - 1
    /\ owed = Named(frame)
    /\ \A m \in Named(frame) : latest[m] = LastFor(frame, m)
    /\ Progress(slots, latest, frame, cursor)

WireInv ==
    /\ Table(slots)
    /\ StagedIsLatest
    /\ LegalFramesLand
    /\ ~Idle => Staging

LEMMA NoFrameIsNone == NoFrame.type = "NONE"
<1>1. <<>> \in Seq(Reading)
  OBVIOUS
<1>2. Laid(NoFrame, "NONE", <<>>, Ours)
  BY <1>1, OursIsABuild, FrameOfFacts DEF NoFrame
<1>3. QED
  BY <1>2 DEF Laid

LEMMA WireInitInv == WireInit => WireInv
<1> SUFFICES ASSUME WireInit PROVE WireInv
  OBVIOUS
<1>1. \A i \in Slot : ~slots[i].in_use
  BY DEF WireInit, FreeSlot
<1>2. slots = [i \in Slot |-> slots[i]]
  BY DEF WireInit
<1>3. QED
  BY <1>1, <1>2 DEF WireInit, WireInv, Table, UniqueMacs, StagedIsLatest,
     LegalFramesLand, Idle

LEMMA OnDatagramInv ==
    ASSUME WireInv, NEW f \in Wire, OnDatagram(f)
    PROVE  WireInv'
<1>1. Received(f) = f
  BY WireFrames, ReceivedWhole
<1>2. Idle /\ slots' = slots /\ cursor' = 0
  BY DEF OnDatagram
<1>3. frame' = IF Accepted(f) /\ Count(f) > 0 THEN f ELSE NoFrame
  BY <1>1 DEF OnDatagram
<1>4. \A i \in Slot : slots[i].in_use =>
          slots[i].mac \in Mac /\ slots[i].rec = latest[slots[i].mac]
  BY <1>2 DEF WireInv, Table, StagedIsLatest
<1>5. Table(slots')
  BY <1>2 DEF WireInv
<1>6. CASE LegalStats(f)
  <2>1. Accepted(f) /\ OurFrame(f)
    BY <1>6, AcceptedIsLegal
  <2>2. /\ latest' = [m \in Mac |-> IF m \in Named(f) THEN LastFor(f, m)
                                    ELSE latest[m]]
        /\ owed' = Named(f)
    BY <1>6 DEF OnDatagram
  <2>3. /\ Count(f) \in Nat /\ Named(f) \subseteq Mac
        /\ \A m \in Named(f) : \E k \in 1 .. Count(f) : Sent(f)[k].mac = m
    BY <2>1, EntryIsSent, NamedEntries
  <2>4. \A i \in Slot : slots[i].in_use /\ slots[i].mac \notin Named(f) =>
            slots[i].rec = latest'[slots[i].mac]
    BY <1>4, <2>2
  <2>5. CASE Count(f) > 0
    <3>1. frame' = f /\ f.type = "PERIODIC_STATS"
      BY <1>3, <1>6, <2>1, <2>5 DEF LegalStats
    <3>2. ~(Idle')
      BY <3>1, NoFrameIsNone DEF Idle
    <3>3. \A k : k \notin 1 .. 0
      OBVIOUS
    <3>4. Progress(slots', latest', f, 0)
      BY <1>2, <2>4, <3>3 DEF Progress
    <3>5. \A m \in Named(f) : latest'[m] = LastFor(f, m)
      BY <2>2, <2>3
    <3>6. 0 \in 0 .. Count(f) - 1
      BY <2>3, <2>5
    <3>7. Staging'
      BY <1>2, <2>1, <2>2, <3>1, <3>4, <3>5, <3>6 DEF Staging
    <3>8. QED
      BY <1>5, <3>2, <3>7 DEF WireInv, StagedIsLatest, LegalFramesLand
  <2>6. CASE ~(Count(f) > 0)
    <3>1. Named(f) = {}
      BY <2>3, <2>6
    <3>2. frame' = NoFrame
      BY <1>3, <2>6
    <3>3. QED
      BY <1>2, <1>5, <2>2, <2>4, <3>1, <3>2
         DEF WireInv, StagedIsLatest, LegalFramesLand, Idle
  <2>7. QED
    BY <2>5, <2>6
<1>7. CASE ~LegalStats(f)
  <2>1. frame' = NoFrame /\ owed' = {} /\ latest' = latest
    BY <1>3, <1>7, AcceptedIsLegal DEF OnDatagram
  <2>2. QED
    BY <1>2, <1>4, <1>5, <2>1 DEF WireInv, StagedIsLatest, LegalFramesLand, Idle
<1>8. QED
  BY <1>6, <1>7

LEMMA StageEntryInv ==
    ASSUME WireInv, StageEntry
    PROVE  WireInv'
<1>1. ~Idle /\ UNCHANGED <<latest, owed>> /\ slots' = Stage(Entry(frame, cursor))
  BY DEF StageEntry, ghostVars
<1>2. Staging /\ Table(slots)
  BY <1>1 DEF WireInv
<1>3. Table(slots') /\ Progress(slots', latest, frame, cursor + 1)
  BY <1>1, <1>2, StageProgress DEF Staging
<1>4. Count(frame) \in Nat /\ cursor \in Nat /\ cursor < Count(frame)
  BY <1>2, EntryIsSent DEF Staging
<1>5. CASE cursor + 1 < Count(frame)
  <2>1. cursor' = cursor + 1 /\ frame' = frame
    BY <1>5 DEF StageEntry
  <2>2. cursor' \in 0 .. Count(frame) - 1
    BY <1>4, <1>5, <2>1
  <2>3. ~(Idle') /\ Staging'
    BY <1>1, <1>2, <1>3, <2>1, <2>2 DEF Staging, Idle
  <2>4. QED
    BY <1>3, <2>3 DEF WireInv, StagedIsLatest, LegalFramesLand
<1>6. CASE ~(cursor + 1 < Count(frame))
  <2>1. frame' = NoFrame
    BY <1>6 DEF StageEntry
  <2>2. cursor + 1 = Count(frame)
    BY <1>4, <1>6
  <2>3. /\ \A i \in Slot : slots'[i].in_use => slots'[i].rec = latest[slots'[i].mac]
        /\ \A m \in owed : Tracked(slots', m) \/ \A i \in Slot : slots'[i].in_use
    BY <1>2, <1>3, <2>2, FrameApplied DEF Staging
  <2>4. QED
    BY <1>1, <1>3, <2>1, <2>3 DEF WireInv, StagedIsLatest, LegalFramesLand, Idle
<1>7. QED
  BY <1>5, <1>6

LEMMA WireReapInv ==
    ASSUME WireInv, NEW i \in Slot, Reap(i)
    PROVE  WireInv'
<1>1. /\ Idle /\ Idle' /\ owed' = {} /\ latest' = latest
      /\ slots' = [slots EXCEPT ![i] = FreeSlot]
  BY DEF Reap, Idle
<1>2. slots = [k \in Slot |-> slots[k]]
  BY DEF WireInv, Table
<1>3. /\ slots' = [k \in Slot |-> slots'[k]]
      /\ \A k \in Slot : slots'[k] = IF k = i THEN FreeSlot ELSE slots[k]
  BY <1>1, <1>2
<1>4. ~FreeSlot.in_use
  BY DEF FreeSlot
<1>5. Table(slots')
  BY <1>3, <1>4 DEF WireInv, Table, UniqueMacs
<1>6. QED
  BY <1>1, <1>3, <1>4, <1>5 DEF WireInv, StagedIsLatest, LegalFramesLand

LEMMA WireNextInv == WireInv /\ [WireNext]_wireVars => WireInv'
<1> SUFFICES ASSUME WireInv, [WireNext]_wireVars PROVE WireInv'
  OBVIOUS
<1>1. CASE UNCHANGED wireVars
  BY <1>1 DEF wireVars, ghostVars, WireInv, Table, UniqueMacs, StagedIsLatest,
     LegalFramesLand, Idle, Staging, Progress, Tracked, Holds
<1>2. QED
  BY <1>1, OnDatagramInv, StageEntryInv, WireReapInv DEF WireNext

LEMMA WireInvariant == WireSpec => []WireInv
BY WireInitInv, WireNextInv, PTL DEF WireSpec

(* For any builds among the senders, any element size and any mixture of   *)
(* cut, mislabelled, drifted and foreign frames, what is staged between    *)
(* datagrams is what a sender of this build last sent for the station.     *)
THEOREM StagedRecordIsTheLatest == WireSpec => []StagedIsLatest
<1>1. WireInv => StagedIsLatest
  BY DEF WireInv
<1>2. QED
  BY WireInvariant, <1>1, PTL

(* With a buffer of the header and the largest value, no legal statistics  *)
(* frame is lost: only a full map keeps a named station out.               *)
THEOREM NoLegalFrameIsLost == WireSpec => []LegalFramesLand
<1>1. WireInv => LegalFramesLand
  BY DEF WireInv
<1>2. QED
  BY WireInvariant, <1>1, PTL
=============================================================================
