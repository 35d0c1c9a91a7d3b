-------------------------- MODULE RenderLoopProofs --------------------------
(***************************************************************************)
(* RenderLoop for every number of blocks, frames and instants: the         *)
(* inductive invariant IInv, and with it that the render loop and the      *)
(* frame buffers implement DisplayOrder.                                   *)
(***************************************************************************)
EXTENDS RenderLoop, TLAPS

(* What rotate_frames does to each slot.                                   *)
LEMMA RotationLemma ==
  ASSUME TypeOK, IntervalOfPair
  PROVE  /\ RotatedData \in [Slots -> Blocks \cup {NULL}]
         /\ RotatedFlags \in [Slots -> BOOLEAN]
         /\ RotatedFlags["prev"] = has_frame["current"]
         /\ RotatedFlags["current"] = has_frame["next"]
         /\ RotatedFlags["next"] = FALSE
         /\ RotatedTimes \in [Slots -> 0 .. MaxTime]
         /\ RotatedTimes["prev"] <= RotatedTimes["current"]
         /\ RotatedTimes["current"] <= RotatedTimes["next"]
         /\ RotatedTimes["next"] = frame_tv["next"]
         /\ RotatedDelta \in 0 .. MaxTime
<1> USE DEF TypeOK, StoreTypeOK, Slots
<1>1. RotatedData \in [Slots -> Blocks \cup {NULL}]
  BY DEF RotatedData, Swap
<1>2. /\ RotatedFlags \in [Slots -> BOOLEAN]
      /\ RotatedFlags["prev"] = has_frame["current"]
      /\ RotatedFlags["current"] = has_frame["next"]
      /\ RotatedFlags["next"] = FALSE
  BY DEF RotatedFlags
<1>3. /\ RotatedTimes \in [Slots -> 0 .. MaxTime]
      /\ RotatedTimes["prev"] <= RotatedTimes["current"]
      /\ RotatedTimes["current"] <= RotatedTimes["next"]
      /\ RotatedTimes["next"] = frame_tv["next"]
  BY DEF RotatedTimes, IntervalOfPair
<1>4. RotatedDelta \in 0 .. MaxTime
  BY <1>3, StoreAssumption DEF RotatedDelta
<1>. QED
  BY <1>1, <1>2, <1>3, <1>4

(* The exchanges of pointers never bring one block into two slots.         *)
LEMMA RotatedDistinct ==
  ASSUME TypeOK, BuffersDistinct
  PROVE  IF frame_size = 0
           THEN \A s \in Slots : RotatedData[s] = NULL
           ELSE /\ \A s \in Slots : RotatedData[s] \in Blocks
                /\ \A s, t \in Slots : s # t => RotatedData[s] # RotatedData[t]
<1> USE DEF TypeOK, StoreTypeOK, Slots
<1>1. CASE frame_size = 0
  BY <1>1 DEF BuffersDistinct, RotatedData, Swap
<1>2. CASE frame_size # 0
  BY <1>2 DEF BuffersDistinct, RotatedData, Swap
<1>. QED
  BY <1>1, <1>2

(* Each slot a rotation fills holds what the slot behind it held.          *)
LEMMA RotatedContents ==
  ASSUME TypeOK
  PROVE  /\ has_frame["current"] /\ has_frame["next"]
              => RotatedData["prev"] = frame_data["current"]
         /\ has_frame["current"] => RotatedData["prev"] = frame_data["current"]
         /\ has_frame["next"] => RotatedData["current"] = frame_data["next"]
BY DEF TypeOK, StoreTypeOK, Slots, RotatedData, Swap

LEMMA InitIInv == Init => IInv
<1> SUFFICES ASSUME Init PROVE IInv
  OBVIOUS
<1> USE StoreAssumption, LoopAssumption DEF Init, StoreInit, Slots
<1>1. TypeOK
  <2>1. led \in [prev : 0 .. MaxFrames \cup {Uninit},
                 current : 0 .. MaxFrames \cup {Uninit},
                 progress : 0 .. Full - 1]
    BY DEF Dark, Full
  <2>2. frame_counter \in 0 .. CounterMod - 1
    OBVIOUS
  <2>3. heap \in [Blocks -> Frames \cup {Uninit}]
    OBVIOUS
  <2>4. StoreTypeOK
    BY <2>3 DEF StoreTypeOK
  <2>. QED
    BY <2>1, <2>2, <2>4 DEF TypeOK
<1>2. BuffersDistinct /\ WindowOfFrames
  BY DEF BuffersDistinct, WindowOfFrames
<1>3. IntervalOfPair
  BY DEF IntervalOfPair, HavePair
<1>4. RotationHasFrame /\ StartupOrder
  BY DEF RotationHasFrame, StartupOrder
<1>5. LedsAreBehind
  BY DEF LedsAreBehind, FrameNo, Dark
<1>. QED
  BY <1>1, <1>2, <1>3, <1>4, <1>5 DEF IInv

(* A remainder modulo 2^16 is a 16-bit number.                             *)
LEMMA ModFull == ASSUME NEW q \in Int PROVE q % Full \in 0 .. Full - 1
<1>1. Full \in Nat \ {0}
  BY DEF Full
<1>. QED
  BY <1>1, Z3

(* The 16-bit progress is a 16-bit number.                                 *)
LEMMA ProgressRange ==
  ASSUME TypeOK, IntervalOfPair
  PROVE  FrameProgress16 \in 0 .. Full - 1
<1>1. FrameProgress \in Nat /\ LastFrameTime \in Nat
  BY StoreAssumption DEF TypeOK, StoreTypeOK, IntervalOfPair, FrameProgress, LastFrameTime, Slots
<1>2. CASE LastFrameTime = 0
  BY <1>2 DEF FrameProgress16, Full
<1>3. CASE LastFrameTime # 0
  <2>1. ((FrameProgress * Full) \div LastFrameTime) \in Int
    BY <1>1, <1>3 DEF Full
  <2>2. FrameProgress16 = ((FrameProgress * Full) \div LastFrameTime) % Full
    BY <1>3 DEF FrameProgress16
  <2>. QED
    BY <2>1, <2>2, ModFull
<1>. QED
  BY <1>2, <1>3

-----------------------------------------------------------------------------
(* One lemma per action that changes the buffers; each has one step per    *)
(* part of the invariant.                                                  *)

LEMMA ReceiveKeeps == IInv /\ Receive => IInv'
<1> SUFFICES ASSUME IInv, NEW is_remote \in Origins, SetNextFrameData(is_remote),
                    UNCHANGED threadVars
             PROVE  IInv'
  BY DEF Receive
<1> USE StoreAssumption DEF IInv, SetNextFrameData, threadVars, Slots
<1>0. /\ RotatedFlags \in [Slots -> BOOLEAN]
      /\ RotatedFlags["prev"] = has_frame["current"]
      /\ RotatedFlags["current"] = has_frame["next"]
      /\ has_frame' \in [Slots -> BOOLEAN]
      /\ has_frame'["prev"] = has_frame["current"]
      /\ has_frame'["current"] = has_frame["next"]
      /\ has_frame'["next"] = TRUE
  BY RotationLemma
<1>1. TypeOK'
  <2>1. frame_data' \in [Slots -> Blocks \cup {NULL}]
    BY RotationLemma
  <2>2. frame_tv' \in [Slots -> 0 .. MaxTime]
    BY RotationLemma DEF TypeOK, StoreTypeOK
  <2>3. prev_current_delta_tv' \in 0 .. MaxTime
    BY RotationLemma
  <2>4. last_remote_data_tv' \in 0 .. MaxTime
    BY DEF TypeOK, StoreTypeOK
  <2>5. received' \in 0 .. MaxFrames /\ early' \in 0 .. received'
    BY DEF TypeOK, StoreTypeOK
  <2>6. heap' \in [Blocks -> Frames \cup {Uninit}]
    BY DEF TypeOK, StoreTypeOK, Frames
  <2>7. frame_size' \in {0, LedCount} /\ now' \in 0 .. MaxTime
    BY DEF TypeOK, StoreTypeOK
  <2>8. StoreTypeOK'
    BY <1>0, <2>1, <2>2, <2>3, <2>4, <2>5, <2>6, <2>7 DEF StoreTypeOK
  <2>. QED
    BY <2>8 DEF TypeOK
<1>2. BuffersDistinct'
  BY RotatedDistinct DEF BuffersDistinct
<1>3. WindowOfFrames'
  <2> SUFFICES ASSUME frame_size > 0, NEW s \in Slots, has_frame'[s]
               PROVE  heap'[frame_data'[s]] = (Stored(received - Age(s)))'
    BY DEF WindowOfFrames, Held
  <2>1. /\ received \in Nat /\ early \in 0 .. received /\ received' = received + 1
        /\ early' = early
        /\ heap' = [heap EXCEPT ![frame_data'["next"]] = received + 1]
    BY DEF TypeOK, StoreTypeOK
  <2>2. /\ \A t \in Slots : frame_data'[t] \in Blocks
        /\ \A t \in Slots \ {"next"} : frame_data'[t] # frame_data'["next"]
    BY RotatedDistinct
  <2>3. CASE s = "next"
    BY <2>1, <2>2, <2>3 DEF Stored, Age, TypeOK, StoreTypeOK
  <2>4. CASE s = "current"
    <3>1. has_frame["next"] /\ frame_data'["current"] = frame_data["next"]
      BY <1>0, <2>4, RotatedContents
    <3>2. heap[frame_data["next"]] = Stored(received)
      BY <3>1 DEF WindowOfFrames, Held, Age, TypeOK, StoreTypeOK
    <3>3. heap'[frame_data'["current"]] = heap[frame_data["next"]]
      BY <2>1, <2>2, <3>1 DEF TypeOK, StoreTypeOK
    <3>4. Age("current")' = 1
      BY <1>0 DEF Age
    <3>. QED
      BY <2>1, <2>4, <3>2, <3>3, <3>4 DEF Stored
  <2>5. CASE s = "prev"
    <3>1. has_frame["current"] /\ frame_data'["prev"] = frame_data["current"]
      BY <1>0, <2>5, RotatedContents
    <3>2. heap[frame_data["current"]] = Stored(received - Age("current"))
      BY <3>1 DEF WindowOfFrames, Held
    <3>3. heap'[frame_data'["prev"]] = heap[frame_data["current"]]
      BY <2>1, <2>2, <3>1 DEF TypeOK, StoreTypeOK
    <3>4. /\ Age("current") \in Int
          /\ Age("prev")' = Age("current") + 1
      BY <1>0 DEF Age
    <3>. QED
      BY <2>1, <2>5, <3>2, <3>3, <3>4 DEF Stored
  <2>. QED
    BY <2>3, <2>4, <2>5
<1>4. IntervalOfPair'
  <2>1. /\ frame_tv'["prev"] = RotatedTimes["prev"]
        /\ frame_tv'["current"] = RotatedTimes["current"]
        /\ frame_tv'["next"] = now /\ now' = now
    BY RotationLemma
  <2>2. HavePair' => prev_current_delta_tv' = frame_tv'["current"] - frame_tv'["prev"]
    BY <1>0, <2>1 DEF HavePair, RotatedDelta
  <2>3. /\ frame_tv'["prev"] <= frame_tv'["current"]
        /\ frame_tv'["current"] <= now
    <3>1. /\ RotatedTimes["prev"] <= RotatedTimes["current"]
          /\ RotatedTimes["current"] <= frame_tv["next"]
          /\ RotatedTimes["current"] \in Int
      BY RotationLemma
    <3>2. frame_tv["next"] <= now /\ frame_tv["next"] \in Int /\ now \in Int
      BY DEF IntervalOfPair, TypeOK, StoreTypeOK
    <3>. QED
      BY <2>1, <3>1, <3>2
  <2>. QED
    BY <2>1, <2>2, <2>3 DEF IntervalOfPair, TypeOK, StoreTypeOK
<1>5. RotationHasFrame'
  BY <1>0 DEF RotationHasFrame, StartupOrder
<1>6. StartupOrder'
  BY DEF StartupOrder, TypeOK, StoreTypeOK
<1>7. LedsAreBehind'
  <2>1. Age("current")' = 1 /\ Age("current") \in {0, 1}
    BY <1>0 DEF Age
  <2>2. frame_size > 0 => early' = early
    OBVIOUS
  <2>3. frame_size = 0 => led = Dark
    BY DEF StartupOrder
  <2>4. led' = led /\ received' = received + 1 /\ received \in Nat /\ early \in Nat
    BY DEF TypeOK, StoreTypeOK
  <2>5. frame_size = 0 \/ frame_size > 0
    BY DEF TypeOK, StoreTypeOK
  <2>6. FrameNo(led.current) \in Int
    BY DEF FrameNo, TypeOK
  <2>7. CASE frame_size > 0
    BY <2>1, <2>2, <2>4, <2>6, <2>7 DEF LedsAreBehind, FrameNo
  <2>8. CASE frame_size = 0
    BY <2>3, <2>4, <2>8 DEF LedsAreBehind, FrameNo, Dark
  <2>. QED
    BY <2>5, <2>7, <2>8
<1>. QED
  BY <1>1, <1>2, <1>3, <1>4, <1>5, <1>6, <1>7

LEMMA AllocateKeeps == IInv /\ MainAllocates => IInv'
<1> SUFFICES ASSUME IInv, MainAllocates PROVE IInv'
  OBVIOUS
<1> USE StoreAssumption DEF IInv, MainAllocates, EnsureFrameData, Slots
<1>1. /\ frame_size = 0 /\ frame_size' = LedCount /\ LedCount # 0
      /\ frame_data' \in [Slots -> Blocks]
      /\ \A s, t \in Slots : s # t => frame_data'[s] # frame_data'[t]
      /\ heap' = [b \in Blocks |-> Uninit]
      /\ has_frame' = [has_frame EXCEPT !["next"] = FALSE]
      /\ frame_tv' = [s \in Slots |-> now]
  BY DEF StartupOrder
<1>2. received' = received /\ early' = early /\ early = received /\ received \in Nat
  BY <1>1 DEF StartupOrder, TypeOK, StoreTypeOK
<1>3. led' = led /\ led = Dark /\ render_pc' = "loop" /\ spio_conn = FALSE /\ spio_conn' = FALSE
  BY DEF StartupOrder, TypeOK
<1>4. TypeOK'
  <2>1. has_frame' \in [Slots -> BOOLEAN]
    BY <1>1 DEF TypeOK, StoreTypeOK
  <2>2. frame_tv' \in [Slots -> 0 .. MaxTime]
    BY <1>1 DEF TypeOK, StoreTypeOK
  <2>3. heap' \in [Blocks -> Frames \cup {Uninit}]
    BY <1>1
  <2>4. frame_data' \in [Slots -> Blocks \cup {NULL}]
    BY <1>1
  <2>5. StoreTypeOK'
    BY <1>1, <2>1, <2>2, <2>3, <2>4 DEF TypeOK, StoreTypeOK
  <2>. QED
    BY <2>5 DEF TypeOK
<1>5. BuffersDistinct'
  BY <1>1 DEF BuffersDistinct
<1>6. WindowOfFrames'
  <2> SUFFICES ASSUME NEW s \in Slots, has_frame'[s]
               PROVE  heap'[frame_data'[s]] = (Stored(received - Age(s)))'
    BY DEF WindowOfFrames, Held
  <2>1. heap'[frame_data'[s]] = Uninit
    BY <1>1
  <2>2. Age(s)' \in Nat
    BY DEF Age
  <2>. QED
    BY <1>2, <2>1, <2>2 DEF Stored
<1>7. IntervalOfPair'
  BY <1>1, <1>2 DEF IntervalOfPair, TypeOK, StoreTypeOK
<1>8. RotationHasFrame' /\ StartupOrder'
  BY <1>1, <1>3 DEF RotationHasFrame, StartupOrder
<1>9. LedsAreBehind'
  BY <1>3 DEF LedsAreBehind, FrameNo, Dark
<1>. QED
  BY <1>4, <1>5, <1>6, <1>7, <1>8, <1>9

LEMMA RotateKeeps == IInv /\ RenderRotates => IInv'
<1> SUFFICES ASSUME IInv, RenderRotates PROVE IInv'
  OBVIOUS
<1> USE StoreAssumption DEF IInv, RenderRotates, RotateFrames, Slots
<1>1. /\ has_frame["next"] /\ has_frame["current"]
      /\ spio_conn = TRUE /\ frame_size > 0
  BY DEF RotationHasFrame, StartupOrder, TypeOK, StoreTypeOK
<1>2. /\ has_frame' \in [Slots -> BOOLEAN]
      /\ has_frame'["prev"] = TRUE
      /\ has_frame'["current"] = TRUE
      /\ has_frame'["next"] = FALSE
  BY <1>1, RotationLemma
<1>3. /\ Age("current") = 1
      /\ Age("current")' = 0
      /\ Age("prev")' = 1
  BY <1>1, <1>2 DEF Age
<1>4. TypeOK'
  <2>1. /\ frame_data' \in [Slots -> Blocks \cup {NULL}]
        /\ frame_tv' \in [Slots -> 0 .. MaxTime]
        /\ prev_current_delta_tv' \in 0 .. MaxTime
    BY RotationLemma
  <2>. QED
    BY <1>2, <2>1 DEF TypeOK, StoreTypeOK
<1>5. BuffersDistinct'
  BY RotatedDistinct DEF BuffersDistinct
<1>6. WindowOfFrames'
  <2>1. received \in Nat /\ received' = received /\ early' = early /\ heap' = heap
    BY DEF TypeOK, StoreTypeOK
  <2>2. Held("current")' = (Stored(received - Age("current")))'
    <3>1. heap[frame_data["next"]] = Stored(received)
      BY <1>1, <2>1 DEF WindowOfFrames, Held, Age
    <3>. QED
      BY <1>1, <1>3, <2>1, <3>1, RotatedContents DEF Held, Stored
  <2>3. Held("prev")' = (Stored(received - Age("prev")))'
    <3>1. heap[frame_data["current"]] = Stored(received - 1)
      BY <1>1, <1>3 DEF WindowOfFrames, Held
    <3>. QED
      BY <1>1, <1>3, <2>1, <3>1, RotatedContents DEF Held, Stored
  <2>. QED
    BY <1>2, <2>2, <2>3 DEF WindowOfFrames
<1>7. IntervalOfPair'
  <2>1. /\ frame_tv'["prev"] <= frame_tv'["current"]
        /\ frame_tv'["current"] <= frame_tv'["next"]
        /\ frame_tv'["next"] = frame_tv["next"]
    BY RotationLemma
  <2>2. prev_current_delta_tv' = frame_tv'["current"] - frame_tv'["prev"]
    BY <1>1, RotationLemma DEF RotatedDelta
  <2>. QED
    BY <2>1, <2>2 DEF IntervalOfPair
<1>8. RotationHasFrame' /\ StartupOrder'
  BY <1>1 DEF RotationHasFrame, StartupOrder
<1>9. LedsAreBehind'
  <2>1. FrameNo(led.current) \in Int /\ received \in Nat
    BY DEF FrameNo, TypeOK, StoreTypeOK
  <2>. QED
    BY <1>3, <2>1 DEF LedsAreBehind, FrameNo
<1>. QED
  BY <1>4, <1>5, <1>6, <1>7, <1>8, <1>9

(* The parts that speak of the buffers alone are kept by whatever leaves   *)
(* the buffers alone.                                                      *)
LEMMA StoreKept ==
  ASSUME IInv, UNCHANGED storeVars
  PROVE  /\ StoreTypeOK'
         /\ BuffersDistinct'
         /\ WindowOfFrames'
         /\ IntervalOfPair'
         /\ Age("current")' = Age("current")
BY DEF IInv, TypeOK, storeVars, StoreTypeOK, BuffersDistinct, WindowOfFrames,
       IntervalOfPair, HavePair, Age, Held, Stored

LEMMA TimePassesKeeps == IInv /\ TimePasses => IInv'
<1> SUFFICES ASSUME IInv, TimePasses PROVE IInv'
  OBVIOUS
<1> USE DEF IInv, TimePasses, Tick, threadVars
<1>1. TypeOK'
  <2>1. now' \in 0 .. MaxTime
    BY StoreAssumption DEF TypeOK, StoreTypeOK
  <2>. QED
    BY <2>1 DEF TypeOK, StoreTypeOK
<1>2. BuffersDistinct' /\ WindowOfFrames'
  <2>1. BuffersDistinct'
    BY DEF BuffersDistinct
  <2>2. /\ UNCHANGED <<frame_data, has_frame, heap, received, early, frame_size>>
        /\ WindowOfFrames
    OBVIOUS
  <2>. HIDE DEF IInv, TimePasses, Tick
  <2>3. WindowOfFrames'
    BY <2>2 DEF WindowOfFrames, Held, Age, Stored
  <2>. QED
    BY <2>1, <2>3
<1>3. IntervalOfPair'
  BY DEF IntervalOfPair, HavePair, TypeOK, StoreTypeOK, Slots
<1>4. RotationHasFrame' /\ StartupOrder'
  BY DEF RotationHasFrame, StartupOrder
<1>5. LedsAreBehind'
  BY DEF LedsAreBehind, FrameNo, Age
<1>. QED
  BY <1>1, <1>2, <1>3, <1>4, <1>5

LEMMA OpensSpiKeeps == IInv /\ MainOpensSpi => IInv'
<1> SUFFICES ASSUME IInv, MainOpensSpi PROVE IInv'
  OBVIOUS
<1> USE DEF MainOpensSpi
<1>1. StoreTypeOK' /\ BuffersDistinct' /\ WindowOfFrames' /\ IntervalOfPair'
  BY StoreKept
<1>2. TypeOK'
  BY <1>1 DEF IInv, TypeOK
<1>3. StartupOrder' /\ RotationHasFrame'
  BY DEF IInv, StartupOrder, RotationHasFrame, storeVars
<1>4. LedsAreBehind'
  BY StoreKept DEF IInv, LedsAreBehind, FrameNo, storeVars
<1>. QED
  BY <1>1, <1>2, <1>3, <1>4 DEF IInv

(* The pair a turn of the loop writes to the LEDs.                         *)
LEMMA RenderedPair ==
  ASSUME IInv, RenderFrame
  PROVE  /\ led'.prev = Stored(received - Age("current") - 1)
         /\ led'.current = Stored(received - Age("current"))
         /\ led'.progress \in 0 .. Full - 1
         /\ Age("current") \in {0, 1}
<1> USE DEF IInv, RenderFrame, Slots
<1>1. HavePair /\ frame_size > 0 /\ received \in Nat
  BY StoreAssumption DEF StartupOrder, TypeOK, StoreTypeOK
<1>2. Age("current") \in {0, 1} /\ Age("prev") = Age("current") + 1
  BY <1>1 DEF Age, HavePair
<1>3. /\ Held("current") = Stored(received - Age("current"))
      /\ Held("prev") = Stored(received - Age("prev"))
  BY <1>1 DEF WindowOfFrames, HavePair
<1>4. received - Age("prev") = received - Age("current") - 1
  BY <1>1, <1>2
<1>. QED
  BY <1>2, <1>3, <1>4, ProgressRange

LEMMA RenderFrameKeeps == IInv /\ RenderFrame => IInv'
<1> SUFFICES ASSUME IInv, RenderFrame PROVE IInv'
  OBVIOUS
<1> USE DEF RenderFrame, BeginTurn
<1>1. StoreTypeOK' /\ BuffersDistinct' /\ WindowOfFrames' /\ IntervalOfPair'
  BY StoreKept
<1>2. /\ received \in Nat /\ early \in Nat /\ received <= MaxFrames
      /\ received' = received /\ early' = early
      /\ Age("current")' = Age("current")
  BY StoreKept DEF IInv, TypeOK, StoreTypeOK, storeVars
<1>3. led' \in [prev : 0 .. MaxFrames \cup {Uninit},
                current : 0 .. MaxFrames \cup {Uninit},
                progress : 0 .. Full - 1]
  <2>1. led'.prev \in 0 .. MaxFrames \cup {Uninit}
    BY <1>2, RenderedPair, StoreAssumption DEF Stored
  <2>2. led'.current \in 0 .. MaxFrames \cup {Uninit}
    BY <1>2, RenderedPair, StoreAssumption DEF Stored
  <2>3. led' = [prev |-> led'.prev, current |-> led'.current, progress |-> led'.progress]
    OBVIOUS
  <2>. QED
    BY <2>1, <2>2, <2>3, RenderedPair
<1>4. TypeOK'
  BY <1>1, <1>3, LoopAssumption DEF IInv, TypeOK
<1>5. StartupOrder' /\ RotationHasFrame'
  BY DEF IInv, StartupOrder, RotationHasFrame, storeVars
<1>6. LedsAreBehind'
  BY <1>2, RenderedPair, StoreAssumption DEF LedsAreBehind, FrameNo, Stored
<1>. QED
  BY <1>1, <1>4, <1>5, <1>6 DEF IInv

LEMMA OtherTurnsKeep ==
  IInv /\ (RenderAwaitsServer \/ RenderLacksFrames \/ RenderExhausted \/ RenderSuspended)
    => IInv'
<1> SUFFICES ASSUME IInv, BeginTurn, UNCHANGED led,
                    \/ UNCHANGED render_pc
                    \/ RenderExhausted
             PROVE  IInv'
  BY DEF RenderAwaitsServer, RenderLacksFrames, RenderExhausted, RenderSuspended
<1> USE DEF BeginTurn
<1>1. StoreTypeOK' /\ BuffersDistinct' /\ WindowOfFrames' /\ IntervalOfPair'
  BY StoreKept
<1>2. TypeOK'
  BY <1>1, LoopAssumption DEF IInv, TypeOK, RenderExhausted
<1>3. StartupOrder' /\ RotationHasFrame'
  BY DEF IInv, StartupOrder, RotationHasFrame, RenderExhausted, HavePair, storeVars
<1>4. LedsAreBehind'
  BY StoreKept DEF IInv, LedsAreBehind, FrameNo, storeVars
<1>. QED
  BY <1>1, <1>2, <1>3, <1>4 DEF IInv

LEMMA StutterKeeps == IInv /\ UNCHANGED vars => IInv'
<1> SUFFICES ASSUME IInv, UNCHANGED vars PROVE IInv'
  OBVIOUS
<1>1. StoreTypeOK' /\ BuffersDistinct' /\ WindowOfFrames' /\ IntervalOfPair'
  BY StoreKept DEF vars
<1>2. TypeOK'
  BY <1>1 DEF IInv, TypeOK, vars, threadVars
<1>3. StartupOrder' /\ RotationHasFrame'
  BY DEF IInv, StartupOrder, RotationHasFrame, vars, threadVars, storeVars
<1>4. LedsAreBehind'
  BY StoreKept DEF IInv, LedsAreBehind, FrameNo, vars, threadVars, storeVars
<1>. QED
  BY <1>1, <1>2, <1>3, <1>4 DEF IInv

(* The invariant holds of every behaviour of the threads, for any number   *)
(* of frames, whatever the clock does between them.                        *)
THEOREM Invariance == Spec => []IInv
<1>1. IInv /\ [Next]_vars => IInv'
  BY ReceiveKeeps, AllocateKeeps, OpensSpiKeeps, TimePassesKeeps, RotateKeeps,
     RenderFrameKeeps, OtherTurnsKeep, StutterKeeps
     DEF Next, Main, Render
<1>. QED
  BY InitIInv, <1>1, PTL DEF Spec

(* The store and the threads stay within their types.                      *)
THEOREM TypeCorrect == Spec => []TypeOK
<1>1. IInv => TypeOK
  BY DEF IInv
<1>. QED
  BY Invariance, <1>1, PTL

(* No rotation ever makes two of the three buffers one block.              *)
THEOREM BuffersStayDistinct == Spec => []BuffersDistinct
<1>1. IInv => BuffersDistinct
  BY DEF IInv
<1>. QED
  BY Invariance, <1>1, PTL

(* The buffers are a window without gaps on the stream of frames.          *)
THEOREM BuffersAreWindow == Spec => []WindowOfFrames
<1>1. IInv => WindowOfFrames
  BY DEF IInv
<1>. QED
  BY Invariance, <1>1, PTL

(* The interval the loop divides by is the one of the pair on display.     *)
THEOREM IntervalBelongsToPair == Spec => []IntervalOfPair
<1>1. IInv => IntervalOfPair
  BY DEF IInv
<1>. QED
  BY Invariance, <1>1, PTL

(* A decision to rotate, made before the unlock, still has its frame at    *)
(* rotate_frames.                                                          *)
THEOREM RotationIsSafe == Spec => []RotationHasFrame
<1>1. IInv => RotationHasFrame
  BY DEF IInv
<1>. QED
  BY Invariance, <1>1, PTL

-----------------------------------------------------------------------------
(* Refinement: every step of the threads is an arrival, a display or a     *)
(* stuttering step of DisplayOrder.                                        *)

LEMMA DisplayInit == Init => Display!Init
BY StoreAssumption DEF Init, StoreInit, Display!Init, FrameNo, Dark

LEMMA RenderShows == IInv /\ RenderFrame => [Display!Next]_Display!vars
<1> SUFFICES ASSUME IInv, RenderFrame PROVE [Display!Next]_Display!vars
  OBVIOUS
<1>1. /\ received \in Nat /\ early \in Nat /\ received' = received
      /\ Age("current") \in {0, 1}
  BY RenderedPair DEF IInv, TypeOK, StoreTypeOK, RenderFrame, BeginTurn, storeVars
<1> DEFINE n == received - Age("current")
<1>2. /\ FrameNo(led'.prev) = IF n - 1 <= early THEN 0 ELSE n - 1
      /\ FrameNo(led'.current) = IF n <= early THEN 0 ELSE n
  BY <1>1, RenderedPair, StoreAssumption DEF FrameNo, Stored
<1>3. /\ FrameNo(led.current) \in Nat
      /\ FrameNo(led.current) # 0
           => early < FrameNo(led.current) /\ FrameNo(led.current) <= n
      /\ FrameNo(led.current) = 0 => FrameNo(led.prev) = 0
  BY DEF IInv, LedsAreBehind, TypeOK, FrameNo
<1>4. CASE n > early
  <2>1. FrameNo(led'.current) = n /\ n > 0
    BY <1>1, <1>2, <1>4
  <2>2. FrameNo(led'.prev) \in {n - 1, 0}
    BY <1>1, <1>2
  <2>3. n \in {received - 1, received} /\ n >= FrameNo(led.current)
    BY <1>1, <1>3, <1>4
  <2>. QED
    BY <1>1, <2>1, <2>2, <2>3 DEF Display!Next, Display!Show, FrameNo
<1>5. CASE n <= early
  <2>1. FrameNo(led'.current) = 0 /\ FrameNo(led'.prev) = 0
    BY <1>1, <1>2, <1>5
  <2>2. FrameNo(led.current) = 0 /\ FrameNo(led.prev) = 0
    BY <1>1, <1>3, <1>5
  <2>. QED
    BY <1>1, <2>1, <2>2 DEF Display!vars, FrameNo
<1>. QED
  BY <1>1, <1>4, <1>5

LEMMA ReceiveArrives == IInv /\ Receive => [Display!Next]_Display!vars
BY DEF Receive, SetNextFrameData, threadVars, Display!Next, Display!Arrive, FrameNo

LEMMA OthersStutter ==
  Main \/ TimePasses \/ RenderAwaitsServer \/ RenderLacksFrames \/ RenderExhausted
    \/ RenderSuspended \/ RenderRotates \/ UNCHANGED vars
      => UNCHANGED Display!vars
BY DEF Main, MainAllocates, MainOpensSpi, EnsureFrameData, TimePasses, Tick, BeginTurn,
       RenderAwaitsServer, RenderLacksFrames, RenderExhausted, RenderSuspended,
       RenderRotates, RotateFrames, vars, threadVars, storeVars, Display!vars, FrameNo

(* The buffers and the render loop implement DisplayOrder: the LEDs never  *)
(* show an earlier frame than before, and blend consecutive frames of      *)
(* which the later is the newest or the newest but one.                    *)
THEOREM Implements == Spec => DisplaySpec
<1>1. IInv /\ [Next]_vars => [Display!Next]_Display!vars
  BY RenderShows, ReceiveArrives, OthersStutter DEF Next, Render
<1>. QED
  BY DisplayInit, <1>1, Invariance, PTL DEF Spec, DisplaySpec, Display!Spec

-----------------------------------------------------------------------------
(* That the blend of a pair goes forward needs to know when it was written *)
(* to the LEDs: not later than now.  A pair is on display only until the   *)
(* next one is complete, and that one is never the same.                   *)
PairShown == HavePair /\ led.prev = Held("prev") /\ led.current = Held("current")

BlendInv ==
  /\ frame_size > 0 /\ has_frame["next"] => received > early
  /\ frame_size > 0 /\ PairShown => led.progress * LastFrameTime <= FrameProgress * Full

(* A quotient, times what was divided by.                                  *)
LEMMA Quotient ==
  ASSUME NEW a \in Nat, NEW m \in Nat \ {0}
  PROVE  /\ a \div m \in Nat
         /\ \A k \in Int : k <= a \div m <=> k * m <= a
<1> DEFINE q == a \div m
<1>1. q \in Nat /\ m * q <= a /\ a < m * q + m
  BY Z3
<1> HIDE DEF q
<1>2. ASSUME NEW k \in Int
      PROVE  k <= q <=> k * m <= a
  <2>1. k * m \in Int /\ m * q \in Int /\ (q + 1) * m = m * q + m
    BY <1>1, <1>2, Z3
  <2>2. k <= q => k * m <= m * q
    BY <1>1, <1>2, Z3
  <2>3. k >= q + 1 => k * m >= (q + 1) * m
    BY <1>1, <1>2, Z3
  <2> QED
    BY <1>1, <2>1, <2>2, <2>3
<1> QED
  BY <1>1, <1>2 DEF q

(* The progress as it is written, times the interval.                      *)
LEMMA ProgressIs ==
  ASSUME TypeOK, IntervalOfPair, LastFrameTime # 0
  PROVE  /\ FrameProgress \in Nat /\ LastFrameTime \in Nat
         /\ FrameProgress16 \in Nat
         /\ FrameProgress16 * LastFrameTime <= FrameProgress * Full
         /\ FrameProgress < LastFrameTime =>
              \A k \in Int : k * LastFrameTime <= FrameProgress * Full => k <= FrameProgress16
<1> DEFINE a == FrameProgress * Full
           m == LastFrameTime
           q == a \div m
<1>1. FrameProgress \in Nat /\ LastFrameTime \in Nat
  BY StoreAssumption DEF TypeOK, StoreTypeOK, IntervalOfPair, FrameProgress, LastFrameTime, Slots
<1>2. a \in Nat /\ m \in Nat \ {0} /\ Full \in Nat \ {0}
  BY <1>1 DEF Full
<1>3. FrameProgress16 = q % Full
  BY DEF FrameProgress16
<1>4. FrameProgress < LastFrameTime => a < Full * m
  BY <1>1, <1>2, Z3
<1> HIDE DEF a, m
<1>5. q \in Nat /\ \A k \in Int : k <= q <=> k * m <= a
  BY <1>2, Quotient
<1> HIDE DEF q
<1>6. q % Full \in Nat /\ q % Full <= q
  <2>1. q \in Int /\ q % Full \in 0 .. Full - 1
    BY <1>5, ModFull
  <2>2. q < Full => q % Full = q
    BY <1>2, <1>5
  <2> QED
    BY <1>2, <1>5, <2>1, <2>2
<1>7. (q % Full) * m <= a
  BY <1>5, <1>6
<1>8. ASSUME FrameProgress < LastFrameTime
      PROVE  q % Full = q
  <2>1. ~(Full * m <= a)
    <3>1. Full * m \in Int
      BY <1>2
    <3> QED
      BY <1>2, <1>4, <1>8, <3>1
  <2>2. ~(Full <= q)
    BY <1>2, <1>5, <2>1
  <2> QED
    BY <1>2, <1>5, <2>2
<1> QED
  BY <1>1, <1>3, <1>5, <1>6, <1>7, <1>8 DEF a, m

(* A rotation that completes a pair makes one that was never shown.        *)
LEMMA NewPair ==
  ASSUME IInv, BlendInv, frame_size > 0, has_frame["current"], has_frame["next"]
  PROVE  heap[frame_data["next"]] = received /\ led.current # received
<1>1. received \in Nat /\ early \in Nat /\ received > early
  BY DEF IInv, TypeOK, StoreTypeOK, BlendInv
<1>2. heap[frame_data["next"]] = Stored(received)
  <2>1. "next" \in Slots /\ Age("next") = 0 /\ received - 0 = received
    BY <1>1 DEF Slots, Age
  <2> QED
    BY <2>1 DEF IInv, WindowOfFrames, Held
<1>3. Age("current") = 1
  BY DEF Age
<1>4. led.current # received
  <2> SUFFICES ASSUME led.current = received PROVE FALSE
    OBVIOUS
  <2>1. FrameNo(led.current) = received /\ received # 0
    BY <1>1, StoreAssumption DEF FrameNo
  <2> QED
    BY <1>1, <1>3, <2>1 DEF IInv, LedsAreBehind
<1> QED
  BY <1>1, <1>2, <1>4 DEF Stored

LEMMA ReceiveBlend ==
  ASSUME IInv, BlendInv, Receive
  PROVE  BlendInv'
<1>1. PICK is_remote \in Origins : SetNextFrameData(is_remote) /\ UNCHANGED threadVars
  BY DEF Receive
<1>2. /\ has_frame'["prev"] = has_frame["current"] /\ has_frame'["current"] = has_frame["next"]
      /\ frame_data' = RotatedData /\ received' = received + 1 /\ frame_size' = frame_size
      /\ led' = led
  BY <1>1, RotationLemma DEF IInv, SetNextFrameData, threadVars, Slots
<1>3. received \in Nat /\ early \in 0 .. received
  BY DEF IInv, TypeOK, StoreTypeOK
<1>4. frame_size > 0 => received' > early'
  BY <1>1, <1>3 DEF SetNextFrameData
<1>5. ASSUME frame_size > 0, has_frame["current"], has_frame["next"]
      PROVE  Held("current")' # led.current
  <2>1. /\ heap' = [heap EXCEPT ![RotatedData["next"]] = received + 1]
        /\ heap \in [Blocks -> Frames \cup {Uninit}]
    BY <1>1, <1>5 DEF SetNextFrameData, IInv, TypeOK, StoreTypeOK
  <2>2. RotatedData["current"] \in Blocks /\ RotatedData["current"] # RotatedData["next"]
    BY <1>5, RotatedDistinct DEF IInv, Slots
  <2>3. RotatedData["current"] = frame_data["next"]
    BY <1>5, RotatedContents DEF IInv
  <2>4. Held("current")' = heap[frame_data["next"]]
    BY <1>2, <2>1, <2>2, <2>3 DEF Held
  <2> QED
    BY <1>5, <2>4, NewPair
<1> QED
  BY <1>2, <1>4, <1>5 DEF BlendInv, PairShown, HavePair

LEMMA RotateBlend ==
  ASSUME IInv, BlendInv, RenderRotates
  PROVE  BlendInv'
<1>1. has_frame["next"] /\ has_frame["current"]
  BY DEF IInv, RotationHasFrame, RenderRotates
<1>2. /\ frame_data' = RotatedData /\ heap' = heap /\ frame_size' = frame_size /\ led' = led
      /\ has_frame'["next"] = FALSE
  BY RotationLemma DEF IInv, RenderRotates, RotateFrames
<1>3. Held("current")' = heap[frame_data["next"]]
  BY <1>1, <1>2, RotatedContents DEF Held, IInv
<1>4. frame_size > 0 => Held("current")' # led.current
  BY <1>1, <1>3, NewPair
<1> QED
  BY <1>2, <1>4 DEF BlendInv, PairShown

LEMMA AllocateBlend ==
  ASSUME IInv, MainAllocates
  PROVE  BlendInv'
<1>1. frame_size = 0 /\ led = Dark /\ led' = led
  BY DEF IInv, StartupOrder, MainAllocates
<1>2. /\ frame_data' \in [Slots -> Blocks] /\ heap' = [b \in Blocks |-> Uninit]
      /\ has_frame' = [has_frame EXCEPT !["next"] = FALSE]
  BY <1>1, StoreAssumption DEF MainAllocates, EnsureFrameData
<1>3. ~has_frame'["next"]
  BY <1>2 DEF IInv, TypeOK, StoreTypeOK, Slots
<1>4. Held("prev")' = Uninit
  BY <1>2 DEF Held, Slots
<1>5. led'.prev # Uninit
  BY <1>1, StoreAssumption DEF Dark
<1> QED
  BY <1>3, <1>4, <1>5 DEF BlendInv, PairShown

LEMMA RenderBlend ==
  ASSUME IInv, BlendInv, RenderFrame
  PROVE  BlendInv'
<1>1. UNCHANGED storeVars /\ led'.progress = FrameProgress16
  BY DEF RenderFrame, BeginTurn
<1>2. FrameProgress' = FrameProgress /\ LastFrameTime' = LastFrameTime
  BY <1>1 DEF storeVars, FrameProgress, LastFrameTime
<1>3. FrameProgress16 * LastFrameTime <= FrameProgress * Full
  <2>1. CASE LastFrameTime # 0
    BY <2>1, ProgressIs DEF IInv
  <2>2. CASE LastFrameTime = 0
    <3>1. FrameProgress \in Nat /\ FrameProgress16 = 0
      BY <2>2, StoreAssumption
         DEF IInv, TypeOK, StoreTypeOK, IntervalOfPair, FrameProgress, FrameProgress16, Slots
    <3> QED
      BY <2>2, <3>1 DEF Full
  <2> QED
    BY <2>1, <2>2
<1> QED
  BY <1>1, <1>2, <1>3 DEF BlendInv, storeVars

(* The clock goes on, and so does the progress.                            *)
LEMMA TimePassesBlend ==
  ASSUME IInv, BlendInv, TimePasses
  PROVE  BlendInv'
<1>1. /\ now' = now + 1 /\ led' = led
      /\ UNCHANGED <<frame_data, has_frame, frame_tv, prev_current_delta_tv, frame_size, heap,
                     received, early>>
  BY DEF TimePasses, Tick, threadVars
<1>2. FrameProgress \in Nat /\ FrameProgress' = FrameProgress + 1 /\ LastFrameTime' = LastFrameTime
  BY <1>1, StoreAssumption
     DEF IInv, TypeOK, StoreTypeOK, IntervalOfPair, FrameProgress, LastFrameTime, Slots
<1>3. led.progress * LastFrameTime \in Int
  BY DEF IInv, TypeOK, StoreTypeOK, LastFrameTime
<1>4. PairShown' = PairShown
  BY <1>1 DEF PairShown, HavePair, Held
<1>5. ASSUME led.progress * LastFrameTime <= FrameProgress * Full
      PROVE  (led.progress * LastFrameTime <= FrameProgress * Full)'
  <2>1. led.progress * LastFrameTime <= (FrameProgress + 1) * Full
    BY <1>2, <1>3, <1>5 DEF Full
  <2> QED
    BY <1>1, <1>2, <2>1 DEF Full
<1> QED
  BY <1>1, <1>4, <1>5 DEF BlendInv

LEMMA BlendInvariant ==
  /\ Init => BlendInv
  /\ IInv /\ BlendInv /\ [Next]_vars => BlendInv'
<1>1. Init => BlendInv
  BY DEF Init, StoreInit, BlendInv
<1>2. ASSUME IInv, BlendInv, UNCHANGED storeVars, UNCHANGED led
      PROVE  BlendInv'
  BY <1>2 DEF BlendInv, PairShown, HavePair, Held, LastFrameTime, FrameProgress, storeVars
<1>3. ASSUME IInv, BlendInv, [Next]_vars
      PROVE  BlendInv'
  <2>1. CASE MainOpensSpi \/ UNCHANGED vars
    BY <1>2, <1>3, <2>1 DEF MainOpensSpi, vars, threadVars
  <2>2. CASE RenderAwaitsServer \/ RenderLacksFrames \/ RenderExhausted \/ RenderSuspended
    <3>1. UNCHANGED storeVars /\ UNCHANGED led
      BY <2>2
         DEF BeginTurn, RenderAwaitsServer, RenderLacksFrames, RenderExhausted, RenderSuspended
    <3> QED
      BY <1>2, <1>3, <3>1
  <2> QED
    BY <1>3, <2>1, <2>2, ReceiveBlend, RotateBlend, AllocateBlend, RenderBlend, TimePassesBlend
       DEF Next, Main, Render
<1> QED
  BY <1>1, <1>3

(* While the same pair is blended the blend only goes forward, except at   *)
(* the instant at which the interval is over, for every length of the      *)
(* interval and every clock that does not go back.                         *)
THEOREM BlendsInOrder == Spec => BlendInOrder
<1> DEFINE Forward ==
      RenderFrame /\ led'.prev = led.prev /\ led'.current = led.current
        => led'.progress >= led.progress \/ FrameProgress = LastFrameTime
<1>1. IInv /\ BlendInv /\ [Next]_vars => [Forward]_vars
  <2> SUFFICES ASSUME IInv, BlendInv, RenderFrame,
                      led'.prev = led.prev, led'.current = led.current,
                      FrameProgress # LastFrameTime
               PROVE  led'.progress >= led.progress
    OBVIOUS
  <2>1. /\ HavePair /\ ~Exhausted /\ led'.progress = FrameProgress16
        /\ led.prev = Held("prev") /\ led.current = Held("current") /\ spio_conn
    BY DEF RenderFrame
  <2>2. frame_size > 0
    BY <2>1, StoreAssumption DEF IInv, StartupOrder, TypeOK, StoreTypeOK
  <2>3. led.progress * LastFrameTime <= FrameProgress * Full
    BY <2>1, <2>2 DEF BlendInv, PairShown
  <2>4. FrameProgress \in Nat /\ LastFrameTime \in Nat /\ led.progress \in Int
    BY StoreAssumption
       DEF IInv, TypeOK, StoreTypeOK, IntervalOfPair, FrameProgress, LastFrameTime, Slots
  <2>5. FrameProgress < LastFrameTime
    BY <2>1, <2>4 DEF Exhausted
  <2>6. LastFrameTime # 0
    BY <2>4, <2>5
  <2>7. FrameProgress16 \in Nat /\ led.progress <= FrameProgress16
    BY <2>3, <2>4, <2>5, <2>6, ProgressIs DEF IInv
  <2> QED
    BY <2>1, <2>4, <2>7
<1> QED
  BY <1>1, BlendInvariant, Invariance, PTL DEF Spec, BlendInOrder
=============================================================================
