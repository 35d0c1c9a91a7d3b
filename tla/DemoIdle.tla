------------------------------ MODULE DemoIdle ------------------------------
(***************************************************************************)
(* The demo thread beside the receiving threads.  A turn of demo_thread    *)
(* has two critical sections: in the first it reads how long ago remote    *)
(* data arrived, in the second (set_next_frame_data) it stores a demo      *)
(* frame; between them anything may arrive.  Of the frame store only what  *)
(* this needs is kept: last_remote_data_tv, as the time since then, and    *)
(* what the newest frame is.  What becomes of the frame is the subject of  *)
(* the module FrameStore.                                                  *)
(***************************************************************************)
EXTENDS Integers

CONSTANTS
  Second,       \* instants per second
  IdleSeconds,  \* 5 in the code
  DemoModes     \* the values demo_mode takes in the configuration

ASSUME DemoAssumption ==
  /\ Second \in Nat \ {0}
  /\ IdleSeconds \in Nat
  /\ DemoModes \subseteq {"none", "black", "fade", "id"}

VARIABLES
  silence,      \* now - last_remote_data_tv, no longer counted beyond LongAgo
  demo_mode,    \* g_server_config.demo_mode
  demo_pc,      \* "check", or "send" before set_next_frame_data
  demo_enabled, \* TRUE or FALSE
  newest,       \* "nothing", "remote" or the picture of a demo frame
  late          \* ghost: demo frames stored since remote data, before LongAgo

vars == <<silence, demo_mode, demo_pc, demo_enabled, newest, late>>

LongAgo == (IdleSeconds + 1) * Second
MaxLate == 2                          \* bound of the ghost

(* last_remote_data_tv is the epoch at first.                              *)
Init ==
  /\ silence = LongAgo
  /\ demo_mode \in DemoModes
  /\ demo_pc = "check"
  /\ demo_enabled = FALSE
  /\ newest = "nothing"
  /\ late = 0

(* delta_tv.tv_sec: whole seconds, rounded down.                           *)
Idle == silence \div Second > IdleSeconds

(* What a turn fills the buffer with: zeroes in the modes none and black.  *)
DemoFrame == IF demo_mode \in {"none", "black"} THEN "black" ELSE demo_mode

(* main starts the demo thread only if there is a demo to show.            *)
ThreadCreated == demo_mode # "none"

SetNextFrameData(frame, is_remote) ==
  /\ newest' = frame
  /\ silence' = IF is_remote THEN 0 ELSE silence

RemoteFrame ==
  /\ SetNextFrameData("remote", TRUE)
  /\ late' = 0
  /\ UNCHANGED <<demo_mode, demo_pc, demo_enabled>>

DemoChecksOnce ==                  \* a mutant: the demo is never disabled again
  /\ ThreadCreated
  /\ demo_pc = "check"
  /\ demo_enabled' = (demo_enabled \/ Idle)
  /\ demo_pc' = IF demo_enabled' THEN "send" ELSE "check"
  /\ UNCHANGED <<silence, demo_mode, newest, late>>

DemoChecksMode ==                  \* a mutant: no demo at all in the mode fade
  /\ ThreadCreated
  /\ demo_pc = "check"
  /\ demo_enabled' = (Idle /\ demo_mode # "fade")
  /\ demo_pc' = IF demo_enabled' THEN "send" ELSE "check"
  /\ UNCHANGED <<silence, demo_mode, newest, late>>

DemoChecks ==
  /\ ThreadCreated
  /\ demo_pc = "check"
  /\ demo_enabled' = Idle
  /\ demo_pc' = IF demo_enabled' THEN "send" ELSE "check"
  /\ UNCHANGED <<silence, demo_mode, newest, late>>

CountLate ==
  late' = IF silence = LongAgo THEN 0
          ELSE IF late < MaxLate THEN late + 1 ELSE late

DemoSendsAsRemote ==               \* a mutant: set_next_frame_data(..., TRUE)
  /\ demo_pc = "send"
  /\ SetNextFrameData(DemoFrame, TRUE)
  /\ CountLate
  /\ demo_pc' = "check"
  /\ UNCHANGED <<demo_mode, demo_enabled>>

DemoSends ==
  /\ demo_pc = "send"
  /\ SetNextFrameData(DemoFrame, FALSE)
  /\ CountLate
  /\ demo_pc' = "check"
  /\ UNCHANGED <<demo_mode, demo_enabled>>

Tick ==
  /\ silence' = IF silence < LongAgo THEN silence + 1 ELSE silence
  /\ UNCHANGED <<demo_mode, demo_pc, demo_enabled, newest, late>>

Demo == DemoChecks \/ DemoSends

Next == RemoteFrame \/ Demo \/ Tick

Spec == Init /\ [][Next]_vars

-----------------------------------------------------------------------------
(* Remote data takes the LEDs back: of the demo frames decided on before   *)
(* it arrived, at most one is still stored after it.                       *)
OneLateDemoFrame == late <= 1

(* The demo frames do not end the demo: it stops only when remote data has *)
(* arrived, before at most one demo frame.                                 *)
DemoStopsForRemote ==
  [][demo_enabled /\ ~demo_enabled' => newest = "remote" \/ late > 0]_vars

(* When remote data stays away, the demo takes over the LEDs, in every     *)
(* mode but none.                                                          *)
DemoTakesOver ==
  newest = "remote" /\ silence > 0 /\ demo_mode # "none"
    ~> newest # "remote" \/ silence = 0

-----------------------------------------------------------------------------
(* What the help text says and the code does not do.                       *)

(* "activates when no data arrives for more than 5 seconds": a demo frame  *)
(* is stored only in such a silence.                                       *)
DemoOnlyInSilence == [][DemoSends => silence > IdleSeconds * Second]_vars
=============================================================================
