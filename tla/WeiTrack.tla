------------------------------ MODULE WeiTrack ------------------------------
(***************************************************************************)
(* The C3 crossing-with-duration tracker (wei_track.c): a table of entries *)
(* that time how long a metric stays below its band. The unit holds no     *)
(* state of its own; its callers own the table (the engine) or embed       *)
(* single entries (the lifecycle roster), so every operation is an         *)
(* operator on a table or an entry.                                        *)
(*                                                                         *)
(* start_ts = 0 is the code's own "no excursion in progress" sentinel.     *)
(***************************************************************************)
EXTENDS SlotTable

FreeEntry ==
    [mac |-> NoMac, in_use |-> FALSE, last_seen |-> 0,
     start_ts |-> 0, accumulated |-> 0, count |-> 0]

LiveEntry ==
    [mac : Mac, in_use : {TRUE}, last_seen : Nat,
     start_ts : Nat, accumulated : Nat, count : Nat]

Entry == LiveEntry \cup {FreeEntry}

TrackInit == [i \in Slot |-> FreeEntry]

(* wei_track_get for a MAC that has a slot: refresh it or claim it clean.  *)
TrackGet(tbl, mac, now_ms) ==
    LET i == SlotFor(tbl, mac)
        e == IF Holds(tbl, i, mac) THEN tbl[i]
             ELSE [FreeEntry EXCEPT !.mac = mac, !.in_use = TRUE]
    IN  [tbl EXCEPT ![i] = [e EXCEPT !.last_seen = now_ms]]

TrackReap(tbl, now_ms, absence_ms) ==
    [i \in Slot |-> IF tbl[i].in_use /\ now_ms - tbl[i].last_seen > absence_ms
                    THEN FreeEntry ELSE tbl[i]]

(* A tracker that forgets an excursion still in progress when it closes    *)
(* the interval (the start stamp is lost with the counters).               *)
TrackCollectDropsOpen(e) ==
    [e EXCEPT !.count = 0, !.accumulated = 0, !.start_ts = 0]

(* wei_track_tick: a metric below band opens an excursion, counted once;   *)
(* back within band closes it and keeps only a duration of floor or more.  *)
TrackTick(e, metric, now_ms, band, floor_ms) ==
    LET elapsed == now_ms - e.start_ts
    IN  IF metric < band
        THEN IF e.start_ts = 0
             THEN [e EXCEPT !.start_ts = now_ms, !.count = @ + 1]
             ELSE e
        ELSE IF e.start_ts # 0
             THEN [e EXCEPT !.start_ts = 0,
                            !.accumulated = IF elapsed >= floor_ms
                                            THEN @ + elapsed ELSE @]
             ELSE e

(* wei_track_collect: the interval's count and duration are handed out     *)
(* (the caller reads them from e) and reset; start_ts keeps running.       *)
TrackCollect(e) == [e EXCEPT !.count = 0, !.accumulated = 0]
=============================================================================
