------------------------------ MODULE E131Pace ------------------------------
(***************************************************************************)
(* How e131_server_thread paces itself by frame_counter, which the loop of *)
(* render_thread advances in every turn.  The thread reads the counter     *)
(* without the mutex, once for each use of it.  What it does with a packet *)
(* is in E131.                                                             *)
(***************************************************************************)
EXTENDS Integers

CONSTANTS
  MaxStrips,   \* SPISCAPE_MAX_STRIPS, 1 in the code
  CounterMod   \* 2^32: frame_counter and packets_since_update are uint32_t

ASSUME PaceAssumption ==
  MaxStrips \in Nat \ {0} /\ CounterMod \in Nat \ {0, 1} /\ MaxStrips < CounterMod

VARIABLES
  pc,          \* "recv", "compare", "update", "test" or "wait"
  packets_since_update,
  frame_counter,
  frame_counter_at_last_update,
  render_idle, \* whether render_thread has nothing to render
  burst        \* ghost: packets received since frame_counter last changed

paceVars == <<pc, packets_since_update, frame_counter, frame_counter_at_last_update,
              render_idle, burst>>

PaceInit ==
  /\ pc = "recv"
  /\ packets_since_update = 0
  /\ frame_counter \in 0 .. CounterMod - 1
  /\ frame_counter_at_last_update = frame_counter
  /\ render_idle = TRUE
  /\ burst = 0

(* A turn of render_thread counts whether or not it renders.               *)
CountingRenderedOnly ==     \* a mutant: the counter is advanced after the checks
  /\ frame_counter' = IF render_idle THEN frame_counter ELSE (frame_counter + 1) % CounterMod
  /\ burst' = IF render_idle THEN burst ELSE 0
  /\ UNCHANGED <<pc, packets_since_update, frame_counter_at_last_update, render_idle>>

RenderTurn ==
  /\ frame_counter' = (frame_counter + 1) % CounterMod
  /\ burst' = 0
  /\ UNCHANGED <<pc, packets_since_update, frame_counter_at_last_update, render_idle>>

RenderChanges ==
  /\ render_idle' = ~render_idle
  /\ UNCHANGED <<pc, packets_since_update, frame_counter, frame_counter_at_last_update, burst>>

CountPacket ==
  /\ pc = "recv"
  /\ packets_since_update' = (packets_since_update + 1) % CounterMod
  /\ burst' = burst + 1
  /\ pc' = "compare"
  /\ UNCHANGED <<frame_counter, frame_counter_at_last_update, render_idle>>

CompareAlwaysResets ==      \* a mutant: the counter is reset after every packet
  /\ pc = "compare"
  /\ packets_since_update' = 0
  /\ pc' = "update"
  /\ UNCHANGED <<frame_counter, frame_counter_at_last_update, render_idle, burst>>

Compare ==
  /\ pc = "compare"
  /\ IF frame_counter # frame_counter_at_last_update
       THEN packets_since_update' = 0 /\ pc' = "update"
       ELSE UNCHANGED packets_since_update /\ pc' = "test"
  /\ UNCHANGED <<frame_counter, frame_counter_at_last_update, render_idle, burst>>

Update ==
  /\ pc = "update"
  /\ frame_counter_at_last_update' = frame_counter
  /\ pc' = "test"
  /\ UNCHANGED <<packets_since_update, frame_counter, render_idle, burst>>

Test ==
  /\ pc = "test"
  /\ pc' = IF packets_since_update >= MaxStrips THEN "wait" ELSE "recv"
  /\ UNCHANGED <<packets_since_update, frame_counter, frame_counter_at_last_update,
                 render_idle, burst>>

Wait ==
  /\ pc = "wait"
  /\ frame_counter # frame_counter_at_last_update
  /\ pc' = "recv"
  /\ UNCHANGED <<packets_since_update, frame_counter, frame_counter_at_last_update,
                 render_idle, burst>>

Pacing == Compare \/ Update \/ Test

PaceNext == RenderTurn \/ RenderChanges \/ CountPacket \/ Pacing \/ Wait

PaceSpec == PaceInit /\ [][PaceNext]_paceVars

(* Both threads are scheduled.  The waiting thread looks once a            *)
(* millisecond: it cannot miss the change for ever unless frame_counter    *)
(* wraps between every two looks, hence strong fairness for Wait.          *)
FairPaceSpec == PaceSpec /\ WF_paceVars(RenderTurn) /\ WF_paceVars(Pacing) /\ SF_paceVars(Wait)

-----------------------------------------------------------------------------
(* However the threads interleave, at most MaxStrips + 1 packets are taken *)
(* in while the render thread has not turned once.                         *)
AtMostAStripAhead == burst <= MaxStrips + 1

(* The thread does not wait for a render thread that has nothing to do: it *)
(* always returns to recv.                                                 *)
ReturnsToRecv == pc = "wait" ~> pc = "recv"
=============================================================================
