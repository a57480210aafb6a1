---------------------------- MODULE WeiReportBuf ----------------------------
(***************************************************************************)
(* The one serialisation buffer of the report publisher                    *)
(* (wei_perfreport.c): wei_perfreport_build_json makes a document, and     *)
(* wei_perfreport_json_serialize prints it into a buffer that is allocated *)
(* on first use, doubled while the document does not fit, kept for ever    *)
(* and never larger than BufMax. Every allocation can fail.                *)
(*                                                                         *)
(* Data: a document is the buffer size that cJSON_PrintPreallocated needs  *)
(* for it.                                                                 *)
(***************************************************************************)
EXTENDS Naturals

CONSTANTS BufInit,    \* WEI_PERFREPORT_JSON_BUF_INIT
          BufMax,     \* WEI_PERFREPORT_JSON_BUF_MAX
          DocSizes    \* sizes that documents need

ASSUME BufAssumption ==
    /\ BufInit \in Nat \ {0} /\ BufMax \in Nat /\ BufInit <= BufMax
    /\ DocSizes \subseteq Nat \ {0}

VARIABLES cap,      \* wei_perfreport_json_buf_cap; 0 while the buffer is NULL
          tree,     \* the size the cJSON tree in hand needs, 0 without one
          answer,   \* what the last call returned: "json", "NULL"
          asked,    \* ghost: the last call's document
          refused,  \* ghost: an allocation of the last call failed
          spent,    \* ghost: the last call (re)allocated the buffer
          served    \* ghost: the largest document served before this call

bufVars == <<cap, tree, answer, asked, refused, spent, served>>

Larger(a, b) == IF a > b THEN a ELSE b

BufInitState ==
    /\ cap = 0 /\ tree = 0 /\ answer = "json"
    /\ asked = 0 /\ refused = FALSE /\ spent = FALSE /\ served = 0

Idle == tree = 0

(* cJSON_Delete and return. *)
Return(a) == tree' = 0 /\ answer' = a

(* wei_perfreport_build_json makes the document... *)
Build(size) ==
    /\ Idle
    /\ tree' = size /\ asked' = size
    /\ served' = IF answer = "json" THEN Larger(served, asked) ELSE served
    /\ refused' = FALSE /\ spent' = FALSE
    /\ UNCHANGED <<cap, answer>>

(* ...or cannot create one. *)
BuildFails(size) ==
    /\ Idle
    /\ Return("NULL") /\ asked' = size /\ refused' = TRUE /\ spent' = FALSE
    /\ served' = IF answer = "json" THEN Larger(served, asked) ELSE served
    /\ UNCHANGED cap

(* The first pass allocates the buffer. *)
Malloc ==
    /\ ~Idle /\ cap = 0
    /\ cap' = BufInit /\ spent' = TRUE
    /\ UNCHANGED <<tree, answer, asked, refused, served>>

MallocFails ==
    /\ ~Idle /\ cap = 0
    /\ refused' = TRUE /\ Return("NULL")
    /\ UNCHANGED <<cap, asked, spent, served>>

(* A serialiser that gives its buffer back after each report. *)
PrintAndFree ==
    /\ ~Idle /\ cap > 0 /\ tree <= cap
    /\ Return("json") /\ cap' = 0
    /\ UNCHANGED <<asked, refused, spent, served>>

PrintFits ==
    /\ ~Idle /\ cap > 0 /\ tree <= cap
    /\ Return("json")
    /\ UNCHANGED <<cap, asked, refused, spent, served>>

(* The document does not fit... *)
Overflows == ~Idle /\ cap > 0 /\ tree > cap

(* A ceiling met as soon as the doubled size would pass it. *)
TooLargeEarly ==
    /\ Overflows /\ cap * 2 > BufMax
    /\ Return("NULL")
    /\ UNCHANGED <<cap, asked, refused, spent, served>>

(* ...the ceiling... *)
TooLarge ==
    /\ Overflows /\ cap >= BufMax
    /\ Return("NULL")
    /\ UNCHANGED <<cap, asked, refused, spent, served>>

NextCap == IF cap * 2 > BufMax THEN BufMax ELSE cap * 2

(* ...or the buffer, which is doubled. *)
Realloc ==
    /\ Overflows /\ cap < BufMax
    /\ cap' = NextCap /\ spent' = TRUE
    /\ UNCHANGED <<tree, answer, asked, refused, served>>

ReallocFails ==
    /\ Overflows /\ cap < BufMax
    /\ refused' = TRUE /\ Return("NULL")
    /\ UNCHANGED <<cap, asked, spent, served>>

Serialize ==
    Malloc \/ MallocFails \/ PrintFits \/ TooLarge \/ Realloc \/ ReallocFails

BufNext == (\E n \in DocSizes : Build(n) \/ BuildFails(n)) \/ Serialize

BufSpec == BufInitState /\ [][BufNext]_bufVars

-----------------------------------------------------------------------------
(* A report is lost only to a failed allocation or because no permitted    *)
(* buffer holds it: growth stops neither short of the ceiling nor past it. *)
LostOnlyForCause ==
    /\ cap <= BufMax
    /\ Idle /\ answer = "NULL" => refused \/ asked > BufMax

(* "A steady-state report costs no allocation": one no larger than some    *)
(* report served before finds the buffer large enough, through failures in *)
(* between.                                                                *)
SteadyStateIsFree == spent => asked > served

=============================================================================
