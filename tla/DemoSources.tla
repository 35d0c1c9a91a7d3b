---------------------------- MODULE DemoSources ----------------------------
(***************************************************************************)
(* Where frames come from: the demo thread with what it draws, the thread  *)
(* that receives datagrams, and the other receivers, of which only the     *)
(* frames are known.                                                       *)
(***************************************************************************)
EXTENDS DemoIdle, OpcUdp, DemoPictures

sourceVars == <<vars, udpVars, frame_index>>

SourcesInit == Init /\ UdpInit /\ frame_index = 0

UdpReceives ==
  \E d \in Datagrams :
    /\ Recv(d)
    /\ IF Carries(d) THEN RemoteFrame ELSE UNCHANGED vars
    /\ UNCHANGED frame_index

OthersReceive == RemoteFrame /\ UNCHANGED <<udpVars, frame_index>>

(* A turn of demo_thread ends with its frame, or where there is none.      *)
DemoTurn ==
  /\ Demo
  /\ IF demo_pc' = "check" THEN NextIndex ELSE UNCHANGED frame_index
  /\ UNCHANGED udpVars

TimePasses == Tick /\ UNCHANGED <<udpVars, frame_index>>

SourcesNext == UdpReceives \/ OthersReceive \/ DemoTurn \/ TimePasses

(* The demo thread is scheduled and the clock goes on; nothing makes a     *)
(* client send.                                                            *)
SourcesSpec ==
  /\ SourcesInit /\ [][SourcesNext]_sourceVars
  /\ WF_sourceVars(DemoTurn) /\ WF_sourceVars(TimePasses)

-----------------------------------------------------------------------------
(* From one picture of the fade to the next no colour of a pixel moves by  *)
(* more than the wheel turns and the brightness changes, from one sector   *)
(* of the wheel to the next as well.  That is three steps of the ramp and  *)
(* a level of brightness, with two exceptions, at which the fade does      *)
(* jump: the brightness starts anew at the end of its range, and where     *)
(* frame_index wraps, at a multiple neither of the wheel nor of that       *)
(* range, the brightness changes and the wheel turns by what is left over. *)
FadeStepsAreSmall ==
  [][frame_index' # frame_index =>
       LET now == Picture("fade")
           next == Picture("fade")'
           wraps == frame_index' < frame_index
           turned == IF wraps THEN FromZero(IndexMod - 3) ELSE 3
       IN  \A p \in 0 .. PictureLeds - 1, strip \in 0 .. PictureStrips - 1 :
             LET bright == Brightness(p, strip)
                 change == Distance(bright, Brightness(p, strip)')
                 most == (turned * bright) \div Sector + change + 1
             IN  /\ wraps \/ Brightness(p, strip)' > bright \/ change <= 1
                 /\ \A c \in 1 .. 3 : Distance(now[<<p, strip>>][c], next[<<p, strip>>][c]) <= most
    ]_sourceVars
=============================================================================
