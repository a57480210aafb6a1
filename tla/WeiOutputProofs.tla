--------------------------- MODULE WeiOutputProofs ---------------------------
(***************************************************************************)
(* The report buffer and the log file keep within their bounds for every   *)
(* size of buffer, line and file, whatever is written and whatever fails.  *)
(***************************************************************************)
EXTENDS WeiOutput, TLAPS

(* Either writer leaves the other's state alone. *)
LEMMA OutStep == [OutNext]_outVars => [BufNext]_bufVars /\ [LogNext]_logVars
BY DEF OutNext, outVars

LEMMA OutIsBoth == OutSpec => BufSpec /\ LogSpec
<1>1. OutInit => BufInitState /\ LogInit
  BY DEF OutInit
<1>2. QED
  BY <1>1, OutStep, PTL DEF OutSpec, BufSpec, LogSpec

-----------------------------------------------------------------------------
BufTypeOK ==
    /\ cap \in Nat /\ tree \in Nat /\ asked \in Nat /\ served \in Nat
    /\ refused \in BOOLEAN /\ spent \in BOOLEAN
    /\ answer \in {"json", "NULL"}

(* The buffer never shrinks, so it still holds every report it once held;  *)
(* the tree in hand is the document that was asked for.                    *)
BufferHoldsServed ==
    /\ served <= cap
    /\ Idle /\ answer = "json" => asked <= cap
    /\ ~Idle => tree = asked

BufInv ==
    /\ BufTypeOK
    /\ BufferHoldsServed
    /\ LostOnlyForCause
    /\ SteadyStateIsFree

LEMMA BufInitInv == BufInitState => BufInv
<1> SUFFICES ASSUME BufInitState PROVE BufInv
  OBVIOUS
<1>1. BufTypeOK
  BY DEF BufInitState, BufTypeOK
<1>2. BufferHoldsServed /\ LostOnlyForCause
  BY BufAssumption DEF BufInitState, BufferHoldsServed, LostOnlyForCause, Idle
<1>3. SteadyStateIsFree
  BY DEF BufInitState, SteadyStateIsFree
<1>4. QED
  BY <1>1, <1>2, <1>3 DEF BufInv

(* Doubling ends at the ceiling and never takes away. *)
LEMMA NextCapGrows ==
    ASSUME cap \in Nat, cap > 0, cap < BufMax
    PROVE  NextCap \in Nat /\ NextCap > cap /\ NextCap <= BufMax
BY BufAssumption DEF NextCap

LEMMA BufNextInv == BufInv /\ [BufNext]_bufVars => BufInv'
<1> SUFFICES ASSUME BufInv, [BufNext]_bufVars PROVE BufInv'
  OBVIOUS
<1> USE BufAssumption
    DEF BufInv, BufTypeOK, BufferHoldsServed, LostOnlyForCause,
        SteadyStateIsFree, Idle, Return
<1>1. ASSUME NEW n \in DocSizes, Build(n) PROVE BufInv'
  BY <1>1 DEF Build, Larger
<1>2. ASSUME NEW n \in DocSizes, BuildFails(n) PROVE BufInv'
  BY <1>2 DEF BuildFails, Larger
<1>3. CASE Malloc
  BY <1>3 DEF Malloc
<1>4. CASE MallocFails
  BY <1>4 DEF MallocFails
<1>5. CASE PrintFits
  BY <1>5 DEF PrintFits
<1>6. CASE TooLarge
  BY <1>6 DEF TooLarge, Overflows
<1>7. CASE Realloc
  BY <1>7, NextCapGrows DEF Realloc, Overflows
<1>8. CASE ReallocFails
  BY <1>8 DEF ReallocFails, Overflows
<1>9. CASE UNCHANGED bufVars
  BY <1>9 DEF bufVars
<1>10. QED
  BY <1>1, <1>2, <1>3, <1>4, <1>5, <1>6, <1>7, <1>8, <1>9 DEF BufNext, Serialize

(* The serialiser loses a report only for want of memory or because the    *)
(* ceiling forbids the buffer it needs, and stays under the ceiling.       *)
THEOREM ReportsLostForCause == OutSpec => []LostOnlyForCause
<1>1. BufInv => LostOnlyForCause
  BY DEF BufInv
<1>2. QED
  BY <1>1, OutIsBoth, BufInitInv, BufNextInv, PTL DEF BufSpec

(* A report that is no larger than one served before allocates nothing.    *)
THEOREM SteadyStateCostsNothing == OutSpec => []SteadyStateIsFree
<1>1. BufInv => SteadyStateIsFree
  BY DEF BufInv
<1>2. QED
  BY <1>1, OutIsBoth, BufInitInv, BufNextInv, PTL DEF BufSpec

-----------------------------------------------------------------------------
(* However long its parts, a line fits its buffer with a byte to spare.    *)
LEMMA LineFits ==
    ASSUME NEW p \in Int, NEW n \in Int
    PROVE  LineLen(p, n) \in 0 .. LineSize - 1
BY LogAssumption DEF LineLen, Within

LogTypeOK == bytes \in Nat /\ pending \in Nat /\ size \in Nat

(* The counter accounts for every byte on file or held back by stdio since *)
(* the file was opened; without a stream nothing is held back.             *)
CounterCoversFile ==
    /\ fp => bytes = size + pending
    /\ ~fp => pending = 0

LogInv == LogTypeOK /\ CounterCoversFile /\ LogBounded

LEMMA LogInitInv == LogInit => LogInv
<1> SUFFICES ASSUME LogInit PROVE LogInv
  OBVIOUS
<1>1. LogTypeOK
  BY LogAssumption DEF LogInit, LogTypeOK
<1>2. CounterCoversFile
  BY DEF LogInit, CounterCoversFile
<1>3. LogBounded
  BY LogAssumption DEF LogInit, LogBounded
<1>4. QED
  BY <1>1, <1>2, <1>3 DEF LogInv

(* What one line adds to a stream and a file that agree with their counter. *)
LEMMA AppendKeepsCount ==
    ASSUME NEW held \in Nat, NEW onFile \in Nat, NEW len \in 0 .. LineSize - 1,
           Append(onFile + held, held, onFile, len), onFile + held <= FileMax
    PROVE  /\ bytes' \in Nat /\ pending' \in Nat /\ size' \in Nat
           /\ bytes' = size' + pending'
           /\ LogBounded'
BY LogAssumption DEF Append, LogBounded

(* A stream that holds nothing back adds nothing to its file. *)
LEMMA AddNothing == ASSUME NEW a \in Nat, NEW b \in Nat, b = 0 PROVE a + b = a
  OBVIOUS

LEMMA LogNextInv == LogInv /\ [LogNext]_logVars => LogInv'
<1> SUFFICES ASSUME LogInv, [LogNext]_logVars PROVE LogInv'
  OBVIOUS
<1> USE LogAssumption DEF LogInv, LogTypeOK, CounterCoversFile
<1>1. ASSUME NEW len \in 0 .. LineSize - 1, WritesLine(len) PROVE LogInv'
  <2>1. CASE OpenAndWrite(len)
    BY <2>1, AppendKeepsCount DEF OpenAndWrite
  <2>2. CASE OpenFails(len)
    BY <2>2 DEF OpenFails, LogBounded
  <2>3. CASE Restart(len)
    BY <2>3, AppendKeepsCount DEF Restart
  <2>4. CASE RestartFails(len)
    <3>1. bytes' = 0 /\ pending' = 0
      BY <2>4 DEF RestartFails
    <3>2. size' \in Nat /\ size' <= size + pending
      BY <2>4 DEF RestartFails
    <3>3. size + pending < FileMax + LineSize
      BY DEF LogBounded
    <3>4. LogTypeOK'
      BY <3>1, <3>2
    <3>5. size' + pending' < FileMax + LineSize
      <4>1. size' < FileMax + LineSize
        BY <3>2, <3>3
      <4>2. size' + pending' = size'
        BY <3>1, <3>2, AddNothing
      <4>3. QED
        BY <4>1, <4>2
    <3>6. CounterCoversFile'
      BY <2>4 DEF RestartFails
    <3>7. QED
      BY <3>4, <3>5, <3>6 DEF LogBounded
  <2>5. CASE Write(len)
    BY <2>5, AppendKeepsCount DEF Write, Full
  <2>6. QED
    BY <1>1, <2>1, <2>2, <2>3, <2>4, <2>5 DEF WritesLine
<1>2. CASE UNCHANGED logVars
  BY <1>2 DEF logVars, LogBounded
<1>3. QED
  BY <1>1, <1>2, LineFits DEF LogNext

(* The log on tmpfs never outgrows its cap by a whole line.                *)
THEOREM LogStaysBounded == OutSpec => []LogBounded
<1>1. LogInv => LogBounded
  BY DEF LogInv
<1>2. QED
  BY <1>1, OutIsBoth, LogInitInv, LogNextInv, PTL DEF LogSpec
=============================================================================
