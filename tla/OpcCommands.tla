----------------------------- MODULE OpcCommands ----------------------------
(***************************************************************************)
(* What a connection of the TCP server promises its client, with no bytes, *)
(* buffers or reads: the commands are carried out one by one in the order  *)
(* they were sent, each pixel command is one frame and each question one   *)
(* reply; and this ends only if more than Limit bytes of commands wait.    *)
(***************************************************************************)
EXTENDS Integers, Sequences

CONSTANTS HeaderSize, Kinds, Lengths, Limit

VARIABLES
  sent,      \* the commands sent
  done,      \* how many of them are carried out
  backlog,   \* the bytes of the others
  frames,    \* the commands of which the LEDs got a frame
  replies,   \* the replies that have not been written yet
  intact     \* whether no command was thrown away

vars == <<sent, done, backlog, frames, replies, intact>>

Init ==
  /\ sent = <<>> /\ done = 0 /\ backlog = 0
  /\ frames = <<>> /\ replies = 0 /\ intact = TRUE

Send ==
  /\ \E kind \in Kinds, len \in Lengths :
       /\ sent' = Append(sent, [kind |-> kind, len |-> len])
       /\ backlog' = backlog + (HeaderSize + len)
  /\ UNCHANGED <<done, frames, replies, intact>>

(* The next command is carried out.                                        *)
Effect ==
  /\ done < Len(sent) /\ done' = done + 1
  /\ LET kind == sent[done + 1].kind
     IN  /\ frames' = IF kind = "pixels" THEN Append(frames, done + 1) ELSE frames
         /\ replies' = replies + (IF kind = "get_config" THEN 1 ELSE 0)
NoEffect == UNCHANGED <<done, frames, replies>>
Waiting ==
  backlog - (IF done' = done THEN 0 ELSE HeaderSize + sent[done + 1].len)

CarryOut ==
  /\ intact
  /\ Effect
  /\ backlog' = Waiting
  /\ UNCHANGED <<sent, intact>>

Reply ==
  /\ replies' = 0
  /\ UNCHANGED <<sent, done, backlog, frames, intact>>

(* What waits is thrown away, maybe after a last command.                  *)
Lose ==
  /\ intact
  /\ Effect \/ NoEffect
  /\ Waiting > Limit
  /\ ~intact'
  /\ UNCHANGED sent

(* From then on any bytes may be taken for a command, and nothing is       *)
(* promised until the connection ends.                                     *)
Astray ==
  /\ ~intact /\ ~intact'
  /\ UNCHANGED sent

End ==
  /\ sent' = <<>> /\ done' = 0 /\ backlog' = 0
  /\ frames' = <<>> /\ replies' = 0 /\ intact' = TRUE

Next == Send \/ CarryOut \/ Reply \/ Lose \/ Astray \/ End

Spec == Init /\ [][Next]_vars
=============================================================================
