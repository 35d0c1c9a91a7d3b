----------------------------- MODULE FrameStore -----------------------------
(***************************************************************************)
(* The frame buffers of ledspi-server.c: the part of g_runtime_state that  *)
(* the mutex g_runtime_state.mutex guards, and the three functions that    *)
(* change it under that mutex -- ensure_frame_data, set_next_frame_data    *)
(* and rotate_frames.  A critical section is one step here; the locking    *)
(* itself is in the module Threads.                                        *)
(*                                                                         *)
(* A frame is abstracted to its number in the order of the calls to        *)
(* set_next_frame_data: memcpy and memset together write every byte of the *)
(* next buffer, so the buffer holds that frame and nothing else.           *)
(***************************************************************************)
EXTENDS Integers

CONSTANTS
  Blocks,     \* the three heap blocks malloc returns for the frame buffers
  NULL,       \* the null pointer
  Uninit,     \* what a malloc'ed block holds before it is written
  LedCount,   \* g_server_config.leds_per_strip * SPISCAPE_MAX_STRIPS
  Boot,       \* the instant the program starts; 0 is the epoch
  MaxFrames,  \* bound: calls to set_next_frame_data
  RecvUntil,  \* bound: the last instant at which a frame arrives
  MaxTime     \* bound: the last instant of the clock

ASSUME StoreAssumption ==
  /\ \E a, b, c \in Blocks : a # b /\ b # c /\ a # c
  /\ NULL \notin Blocks
  /\ Uninit \notin Nat
  /\ LedCount \in Nat \ {0}
  /\ MaxFrames \in Nat /\ RecvUntil \in Nat /\ MaxTime \in Nat
  /\ Boot \in 0 .. MaxTime

VARIABLES
  frame_data,   \* the pointers previous_, current_ and next_frame_data
  has_frame,    \* the flags has_prev_, has_current_ and has_next_frame
  frame_tv,     \* the times previous_, current_ and next_frame_tv
  prev_current_delta_tv,
  last_remote_data_tv,
  frame_size,   \* 0 until ensure_frame_data has allocated the buffers
  heap,         \* what each block holds
  now,          \* what gettimeofday returns
  received,     \* ghost: calls to set_next_frame_data so far
  early         \* ghost: those of them that came before the allocation

storeVars == <<frame_data, has_frame, frame_tv, prev_current_delta_tv,
               last_remote_data_tv, frame_size, heap, now, received, early>>

Slots == {"prev", "current", "next"}
Frames == 1 .. MaxFrames
Held(slot) == heap[frame_data[slot]]

StoreTypeOK ==
  /\ frame_data \in [Slots -> Blocks \cup {NULL}]
  /\ has_frame \in [Slots -> BOOLEAN]
  /\ frame_tv \in [Slots -> 0 .. MaxTime]
  /\ prev_current_delta_tv \in 0 .. MaxTime
  /\ last_remote_data_tv \in 0 .. MaxTime
  /\ frame_size \in {0, LedCount}
  /\ heap \in [Blocks -> Frames \cup {Uninit}]
  /\ now \in 0 .. MaxTime
  /\ received \in 0 .. MaxFrames
  /\ early \in 0 .. received

StoreInit ==
  /\ frame_data = [s \in Slots |-> NULL]
  /\ has_frame = [s \in Slots |-> FALSE]
  /\ frame_tv = [s \in Slots |-> 0]
  /\ prev_current_delta_tv = 0
  /\ last_remote_data_tv = 0
  /\ frame_size = 0
  /\ heap = [b \in Blocks |-> Uninit]
  /\ now = Boot
  /\ received = 0
  /\ early = 0

-----------------------------------------------------------------------------
(***************************************************************************)
(* rotate_frames: the current frame becomes the previous one and the next  *)
(* frame the current one, each only if it is there; the buffers are        *)
(* exchanged, never copied.                                                *)
(***************************************************************************)
SwapLosesOne(f, a, b) == [f EXCEPT ![a] = f[b]]   \* a mutant of Swap

Swap(f, a, b) == [f EXCEPT ![a] = f[b], ![b] = f[a]]

(* A mutant of RotatedData: the next frame is taken in first.              *)
RotatedDataNextFirst ==
  LET taken == IF has_frame["next"] THEN Swap(frame_data, "current", "next")
                                    ELSE frame_data
  IN  IF has_frame["current"] THEN Swap(taken, "prev", "current") ELSE taken

RotatedData ==
  LET shifted == IF has_frame["current"] THEN Swap(frame_data, "prev", "current")
                                         ELSE frame_data
  IN  IF has_frame["next"] THEN Swap(shifted, "current", "next") ELSE shifted

RotatedFlags ==
  [has_frame EXCEPT !["prev"] = has_frame["current"],
                    !["current"] = has_frame["next"],
                    !["next"] = FALSE]

RotatedTimes ==
  [frame_tv EXCEPT
     !["prev"] = IF has_frame["current"] THEN frame_tv["current"] ELSE @,
     !["current"] = IF has_frame["next"] THEN frame_tv["next"] ELSE @]

(* A mutant of RotatedDelta: the times are those before the rotation.      *)
RotatedDeltaTooEarly ==
  IF RotatedFlags["current"] /\ RotatedFlags["prev"]
    THEN frame_tv["current"] - frame_tv["prev"]
    ELSE prev_current_delta_tv

RotatedDelta ==
  IF RotatedFlags["current"] /\ RotatedFlags["prev"]
    THEN RotatedTimes["current"] - RotatedTimes["prev"]
    ELSE prev_current_delta_tv

RotateFrames ==
  /\ frame_data' = RotatedData
  /\ has_frame' = RotatedFlags
  /\ frame_tv' = RotatedTimes
  /\ prev_current_delta_tv' = RotatedDelta
  /\ UNCHANGED <<last_remote_data_tv, frame_size, heap, now, received, early>>

(***************************************************************************)
(* set_next_frame_data: rotate, then store the new frame.  While           *)
(* frame_size is 0 the copy is cut down to nothing, but the flags and the  *)
(* times change all the same.                                              *)
(***************************************************************************)
SetNextFrameData(is_remote) ==
  /\ received < MaxFrames /\ now <= RecvUntil
  /\ frame_data' = RotatedData
  /\ has_frame' = [RotatedFlags EXCEPT !["next"] = TRUE]
  /\ frame_tv' = [RotatedTimes EXCEPT !["next"] = now]
  /\ prev_current_delta_tv' = RotatedDelta
  /\ last_remote_data_tv' = IF is_remote THEN now ELSE last_remote_data_tv
  /\ received' = received + 1
  /\ \/ /\ frame_size > 0
        /\ heap' = [heap EXCEPT ![RotatedData["next"]] = received + 1]
        /\ UNCHANGED early
     \/ /\ frame_size = 0
        /\ early' = received + 1
        /\ UNCHANGED heap
  /\ UNCHANGED <<frame_size, now>>

(***************************************************************************)
(* ensure_frame_data: when the size is not the configured one, allocate    *)
(* the buffers anew, forget the next frame and restart the times.  The     *)
(* flags of the previous and the current frame stay as they are.           *)
(***************************************************************************)
EnsureFrameData ==
  /\ \/ /\ frame_size # LedCount
        /\ frame_data' \in [Slots -> Blocks]
        /\ \A s, t \in Slots : s # t => frame_data'[s] # frame_data'[t]
        /\ frame_size' = LedCount
        /\ heap' = [b \in Blocks |-> Uninit]
        /\ has_frame' = [has_frame EXCEPT !["next"] = FALSE]
        /\ frame_tv' = [s \in Slots |-> now]
     \/ /\ frame_size = LedCount
        /\ UNCHANGED <<frame_data, frame_size, heap, has_frame, frame_tv>>
  /\ UNCHANGED <<prev_current_delta_tv, last_remote_data_tv, now, received, early>>

Tick ==
  /\ now < MaxTime
  /\ now' = now + 1
  /\ UNCHANGED <<frame_data, has_frame, frame_tv, prev_current_delta_tv,
                 last_remote_data_tv, frame_size, heap, received, early>>
=============================================================================
