----------------------------- MODULE RenderLoop -----------------------------
(***************************************************************************)
(* The threads that work on the frame buffers: the receiving threads, each *)
(* call of which to set_next_frame_data is one step; main, which allocates *)
(* the buffers and opens the SPI device after it has started the other     *)
(* threads; and the loop of render_thread, cut where the code releases the *)
(* mutex.  What the loop sends to the LEDs is the variable led.            *)
(***************************************************************************)
EXTENDS FrameStore

CONSTANTS
  Origins,       \* who sends frames: TRUE for the network, FALSE for the demo
  SuspendAfter,  \* the age of the data at which rendering is suspended: 6 s
  CounterMod     \* the width of frame_counter: 2^32 in the code

ASSUME LoopAssumption ==
  /\ Origins \subseteq BOOLEAN
  /\ SuspendAfter \in Nat \ {0}
  /\ CounterMod \in Nat \ {0, 1}

VARIABLES
  main_pc,        \* where main is in ensure_server_setup
  spio_conn,      \* whether g_runtime_state.spio_conn is set
  render_pc,      \* "loop", or "rotate" between the unlock and rotate_frames
  frame_counter,
  led             \* the last frame written to the SPI device

threadVars == <<main_pc, spio_conn, render_pc, frame_counter, led>>
vars == <<storeVars, threadVars>>

Full == 65536                     \* frame_progress16 is a uint16_t
Dark == [prev |-> 0, current |-> 0, progress |-> 0]

TypeOK ==
  /\ StoreTypeOK
  /\ main_pc \in {"frame_data", "spi", "done"}
  /\ spio_conn \in BOOLEAN
  /\ render_pc \in {"loop", "rotate"}
  /\ frame_counter \in 0 .. CounterMod - 1
  /\ led \in [prev : 0 .. MaxFrames \cup {Uninit},
              current : 0 .. MaxFrames \cup {Uninit},
              progress : 0 .. Full - 1]

Init ==
  /\ StoreInit
  /\ main_pc = "frame_data"
  /\ spio_conn = FALSE
  /\ render_pc = "loop"
  /\ frame_counter = 0
  /\ led = Dark

-----------------------------------------------------------------------------
(* main: ensure_server_setup, which runs beside the threads it started.    *)
(* A device that cannot be opened aborts the process.                      *)

MainAllocates ==
  /\ main_pc = "frame_data"
  /\ EnsureFrameData
  /\ main_pc' = "spi"
  /\ UNCHANGED <<spio_conn, render_pc, frame_counter, led>>

MainOpensSpi ==
  /\ main_pc = "spi"
  /\ spio_conn' = TRUE
  /\ main_pc' = "done"
  /\ UNCHANGED <<storeVars, render_pc, frame_counter, led>>

Receive ==
  /\ \E is_remote \in Origins : SetNextFrameData(is_remote)
  /\ UNCHANGED threadVars

TimePasses ==
  /\ Tick
  /\ UNCHANGED threadVars

-----------------------------------------------------------------------------
(* render_thread: one turn of the loop is one of the five actions below,   *)
(* and RenderRotates is the second critical section of a late turn.        *)

FrameProgress == now - frame_tv["next"]
LastFrameTime == prev_current_delta_tv
HavePair == has_frame["prev"] /\ has_frame["current"]
Exhausted == FrameProgress > LastFrameTime
ReallyLate == FrameProgress > 2 * LastFrameTime

(* A mutant of FrameProgress16: inverted.                                  *)
InvFrameProgress16 ==
  IF LastFrameTime = 0 THEN 0
    ELSE (Full - 1) - (((FrameProgress * Full) \div LastFrameTime) % Full)

(* (uint16_t) ((frame_progress_us << 16) / last_frame_time_us).  A divisor *)
(* of 0 is undefined: the process traps, or, as on AArch64, the quotient   *)
(* is 0.                                                                   *)
FrameProgress16 ==
  IF LastFrameTime = 0 THEN 0
                       ELSE ((FrameProgress * Full) \div LastFrameTime) % Full

BeginTurn ==
  /\ render_pc = "loop"
  /\ frame_counter' = (frame_counter + 1) % CounterMod
  /\ UNCHANGED <<storeVars, main_pc, spio_conn>>

RenderAwaitsServer ==
  /\ BeginTurn
  /\ ~spio_conn
  /\ UNCHANGED <<render_pc, led>>

RenderLacksFrames ==
  /\ BeginTurn
  /\ spio_conn
  /\ ~HavePair
  /\ UNCHANGED <<render_pc, led>>

RenderExhaustedBlindly ==                \* a mutant: has_next_frame ignored
  /\ BeginTurn
  /\ spio_conn /\ HavePair
  /\ Exhausted
  /\ render_pc' = IF ReallyLate THEN "rotate" ELSE "loop"
  /\ UNCHANGED led

RenderExhaustedUnlessSuspended ==        \* a mutant: suspension comes first
  /\ BeginTurn
  /\ spio_conn /\ HavePair
  /\ Exhausted
  /\ render_pc' = IF has_frame["next"] /\ ReallyLate /\ FrameProgress < SuspendAfter
                    THEN "rotate" ELSE "loop"
  /\ UNCHANGED led

RenderExhausted ==
  /\ BeginTurn
  /\ spio_conn /\ HavePair
  /\ Exhausted
  /\ render_pc' = IF has_frame["next"] /\ ReallyLate THEN "rotate" ELSE "loop"
  /\ UNCHANGED led

RenderSuspended ==
  /\ BeginTurn
  /\ spio_conn /\ HavePair
  /\ ~Exhausted /\ FrameProgress >= SuspendAfter
  /\ UNCHANGED <<render_pc, led>>

RenderFrame ==
  /\ BeginTurn
  /\ spio_conn /\ HavePair
  /\ ~Exhausted /\ FrameProgress < SuspendAfter
  /\ led' = [prev |-> Held("prev"), current |-> Held("current"),
             progress |-> FrameProgress16]
  /\ UNCHANGED render_pc

RenderRotates ==
  /\ render_pc = "rotate"
  /\ RotateFrames
  /\ render_pc' = "loop"
  /\ UNCHANGED <<main_pc, spio_conn, frame_counter, led>>

Render ==
  \/ RenderAwaitsServer
  \/ RenderLacksFrames
  \/ RenderExhausted
  \/ RenderSuspended
  \/ RenderFrame
  \/ RenderRotates

Main == MainAllocates \/ MainOpensSpi

Next == Main \/ Receive \/ TimePasses \/ Render

Spec == Init /\ [][Next]_vars

(* The scheduler runs every thread that is ready and the clock goes on;    *)
(* nothing makes a client send.                                            *)
FairSpec == Spec /\ WF_vars(Main) /\ WF_vars(Render) /\ WF_vars(TimePasses)
-----------------------------------------------------------------------------
(* The number of a frame; 0 for the contents of a block never written.     *)
FrameNo(frame) == IF frame = Uninit THEN 0 ELSE frame

(* How many frames have arrived after the one a slot is meant to hold.     *)
Age(slot) ==
  CASE slot = "next" -> 0
    [] slot = "current" -> IF has_frame["next"] THEN 1 ELSE 0
    [] slot = "prev" -> IF has_frame["next"] /\ has_frame["current"] THEN 2 ELSE 1

(* Frames that arrived before the allocation were never stored.            *)
Stored(n) == IF n <= early THEN Uninit ELSE n

(* The three buffers stay three different blocks through every exchange of *)
(* their pointers by rotate_frames, and are all null before the            *)
(* allocation: no frame is ever copied over one that is still in use.      *)
BuffersDistinct ==
  IF frame_size = 0
    THEN \A s \in Slots : frame_data[s] = NULL
    ELSE /\ \A s \in Slots : frame_data[s] \in Blocks
         /\ \A s, t \in Slots : s # t => frame_data[s] # frame_data[t]

(* The buffers flagged as present are a window on the stream of frames     *)
(* without a gap or a repetition: the next one holds the newest frame, and *)
(* the current and the previous ones the frames right before it, whichever *)
(* thread rotates.  Only a frame that came before ensure_frame_data is a   *)
(* block nobody wrote.                                                     *)
WindowOfFrames ==
  frame_size > 0 => \A s \in Slots : has_frame[s] => Held(s) = Stored(received - Age(s))

(* The times of the three slots are in the order of the slots, and the     *)
(* interval the render loop divides by belongs to the pair it blends,      *)
(* although rotate_frames computes it only when the pair is complete.      *)
IntervalOfPair ==
  /\ frame_tv["prev"] <= frame_tv["current"]
  /\ frame_tv["current"] <= frame_tv["next"]
  /\ frame_tv["next"] <= now
  /\ HavePair /\ (frame_size = 0 \/ received > early)
       => prev_current_delta_tv = frame_tv["current"] - frame_tv["prev"]

(* The render thread releases the mutex between its decision to rotate and *)
(* rotate_frames; whatever arrives in between, the frame it decided to     *)
(* take, or a newer one, is still there, so the rotation never leaves the  *)
(* loop without a current frame.                                           *)
RotationHasFrame ==
  render_pc = "rotate" => spio_conn /\ has_frame["next"] /\ has_frame["current"]

(* The order in which main starts the system up, against the other threads *)
(* that run meanwhile: nothing is written to the LEDs before the SPI       *)
(* device is open, which is after the buffers are allocated, and every     *)
(* frame that arrived until then is lost.                                  *)
StartupOrder ==
  /\ frame_size = 0 <=> main_pc = "frame_data"
  /\ spio_conn <=> main_pc = "done"
  /\ frame_size = 0 => early = received
  /\ ~spio_conn => led = Dark /\ render_pc = "loop"

(* What the LEDs show is a stored frame that is not newer than the current *)
(* one, or nothing yet.                                                    *)
LedsAreBehind ==
  IF FrameNo(led.current) = 0
    THEN FrameNo(led.prev) = 0
    ELSE /\ early < FrameNo(led.current)
         /\ FrameNo(led.current) <= received - Age("current")

(* The inductive invariant: each part needs the others.                    *)
IInv ==
  /\ TypeOK
  /\ BuffersDistinct
  /\ WindowOfFrames
  /\ IntervalOfPair
  /\ RotationHasFrame
  /\ StartupOrder
  /\ LedsAreBehind

(* While the same pair is blended, whatever arrives or rotates meanwhile,  *)
(* the blend goes backward only at the instant at which the 16-bit         *)
(* progress overflows, or where the interval is zero.                      *)
BlendInOrder ==
  [][RenderFrame /\ led'.prev = led.prev /\ led'.current = led.current
       => led'.progress >= led.progress \/ FrameProgress = LastFrameTime]_vars

(* The buffers and the render loop together implement DisplayOrder: what   *)
(* is written to the LEDs never goes back to an earlier frame, and blends  *)
(* two consecutive frames that are among the three newest.                 *)
Display == INSTANCE DisplayOrder WITH
  arrived <- received, from <- FrameNo(led.prev), to <- FrameNo(led.current)
DisplaySpec == Display!Spec

(* A frame that waits while a pair is on display does not wait for ever:   *)
(* a further frame arrives, or the loop rotates it in when it is really    *)
(* late, even if rendering has been suspended for lack of data.            *)
LateFrameTaken ==
  \A n \in Frames :
    (received = n /\ HavePair /\ has_frame["next"]) ~> (received > n \/ ~has_frame["next"])

-----------------------------------------------------------------------------
(* What the comments of render_thread say and the code does not do.        *)

(* "we only force frame rotation if the next frame is really late": when   *)
(* rotate_frames runs, the next frame is more than two intervals old.      *)
ForcedRotationIsLate == [][RenderRotates => ReallyLate]_vars

(* "Skip frames if there isn't enough data": what is rendered has been     *)
(* received.                                                               *)
RendersReceivedData == led.prev # Uninit /\ led.current # Uninit

(* "current percentage (as a 16-bit value)": the later in the interval,    *)
(* the larger the value, so the blend of one pair only goes forward.       *)
BlendGoesForward ==
  [][RenderFrame /\ led'.prev = led.prev /\ led'.current = led.current
       => led'.progress >= led.progress]_vars

(* "a final frame case ... If we have more data, rotate it in": a final    *)
(* frame that is rotated in is also rendered.                              *)
FinalFrameIsRendered ==
  \A n \in Frames :
    (render_pc = "rotate" /\ received = n) ~> FrameNo(led.current) >= n
=============================================================================
