------------------------------- MODULE Threads -------------------------------
(***************************************************************************)
(* The six threads of the server: how main creates them, how each of them  *)
(* starts or gives up, and the critical sections they go through.  Two     *)
(* mutexes guard what they share: that of g_runtime_state and that of      *)
(* g_server_config.  A thread is where its next lock or unlock is; what it *)
(* does between the two is the business of the other modules.              *)
(***************************************************************************)
EXTENDS Integers, Sequences

CONSTANTS
  Worlds,       \* configurations that passed validation, and what the host has
  HeaderSize,   \* sizeof(opc_cmd_t)
  MaxDatagram,  \* 65507
  Interfaces    \* how many interfaces join_multicast_group_on_all_ifaces tries

Ports == Nat \ {0}             \* the validation refuses port 0

(* taken: the ports other processes have; sockets: whether the host has    *)
(* sockets left; spi: whether the device answers; joinable: how many of    *)
(* the interfaces can be joined before one fails.                          *)
ASSUME WorldAssumption ==
  /\ Worlds \subseteq [tcp : Ports, udp : Ports, e131 : Ports, leds : Nat, demo : BOOLEAN,
                       taken : SUBSET ({"tcp", "udp"} \X Ports),
                       sockets : BOOLEAN, spi : BOOLEAN, joinable : 0 .. Interfaces]
  /\ HeaderSize \in Nat /\ MaxDatagram \in Nat /\ Interfaces \in Nat

VARIABLES
  world,        \* which of Worlds; it never changes
  process,      \* "running", or "dead" once a thread has ended the process
  life,         \* per thread: "absent", "starting", "binding", "serving", "ended"
  bound,        \* the ports this process has bound
  joined,       \* how many interfaces joined the multicast group
  spio_conn,    \* whether the device is open
  owner,        \* who holds each mutex
  plan,         \* per thread: the critical sections of this turn still to finish
  stage,        \* per thread: the locks and unlocks done in the first of them
  pacing,       \* where the E1.31 thread is after its sections
  advanced      \* frame_counter # frame_counter_at_last_update

startVars == <<world, process, life, bound, joined, spio_conn>>
lockVars == <<owner, plan, stage>>
paceVars == <<pacing, advanced>>
vars == <<startVars, lockVars, paceVars>>

Thread == {"main", "render", "udp", "tcp", "e131", "demo"}
Runtime == "g_runtime_state.mutex"
Config == "g_server_config.mutex"
Mutex == {Runtime, Config}
Nobody == "nobody"

-----------------------------------------------------------------------------
(* Critical sections: the mutexes each takes, in order.  They are released *)
(* in the reverse order.                                                   *)

TakesAgain == [tables |-> <<Runtime, Config>>, setup |-> <<Runtime, Config>>,
               counted |-> <<Runtime, Runtime>>, frame |-> <<Runtime, Config>>,
               runtime |-> <<Runtime>>, config |-> <<Config>>]     \* a mutant of Takes

Takes == [tables |-> <<Runtime, Config>>,    \* build_lookup_tables
          setup |-> <<Runtime, Config>>,     \* ensure_server_setup
          counted |-> <<Runtime>>,           \* a turn of render_thread without a frame
          frame |-> <<Runtime, Config>>,     \* a turn of render_thread with one
          runtime |-> <<Runtime>>,
          config |-> <<Config>>]

Section == DOMAIN Takes

SetNextFrameData == <<"runtime">>
EnsureFrameData == <<"config", "runtime">>
EnsureServerSetupWithoutSpi ==                 \* a mutant of EnsureServerSetup
  <<"tables">> \o EnsureFrameData

EnsureServerSetup == <<"tables">> \o EnsureFrameData \o <<"setup">>

RotateFrames == <<"runtime">>                \* rotate_frames(TRUE)

RenderTurns == {<<"counted">>, <<"counted">> \o RotateFrames, <<"frame">>}
DemoTurns == {<<"runtime", "config">>, <<"runtime", "config">> \o SetNextFrameData}
E131Turns == {<<"config">>, <<"config">> \o SetNextFrameData}

Turns(t) ==
  CASE t = "render" -> IF spio_conn THEN RenderTurns ELSE {<<"counted">>}
    [] t = "demo" -> DemoTurns
    [] t = "e131" -> E131Turns
    [] t \in {"udp", "tcp"} -> {SetNextFrameData}
    [] OTHER -> {}

(* Where a thread is in its first section: a lock comes next, or an unlock.*)
Mutexes(t) == Takes[Head(plan[t])]
Locking(t) == plan[t] # <<>> /\ stage[t] < Len(Mutexes(t))
Unlocking(t) == plan[t] # <<>> /\ stage[t] >= Len(Mutexes(t))
Wanted(t) == Mutexes(t)[stage[t] + 1]
Innermost(t) == Mutexes(t)[2 * Len(Mutexes(t)) - stage[t]]
LastUnlock(t) == stage[t] + 1 = 2 * Len(Mutexes(t))

Init ==
  /\ world \in Worlds
  /\ process = "running"
  /\ life = [t \in Thread |-> IF t = "main" THEN "starting" ELSE "absent"]
  /\ bound = {} /\ joined = 0 /\ spio_conn = FALSE
  /\ owner = [m \in Mutex |-> Nobody]
  /\ plan = [t \in Thread |-> <<>>]
  /\ stage = [t \in Thread |-> 0]
  /\ pacing = "recv" /\ advanced = FALSE

-----------------------------------------------------------------------------
(* Locks.                                                                  *)

LockCountsFrames(t) ==                         \* a mutant of Lock
  /\ process = "running" /\ Locking(t)
  /\ owner[Wanted(t)] = Nobody
  /\ owner' = [owner EXCEPT ![Wanted(t)] = t]
  /\ stage' = [stage EXCEPT ![t] = @ + 1]
  /\ advanced' = (advanced \/ (Head(plan[t]) = "frame" /\ stage[t] = 0))
  /\ UNCHANGED <<startVars, plan, pacing>>

(* The first thing a turn of render_thread does is count it.               *)
Lock(t) ==
  /\ process = "running" /\ Locking(t)
  /\ owner[Wanted(t)] = Nobody
  /\ owner' = [owner EXCEPT ![Wanted(t)] = t]
  /\ stage' = [stage EXCEPT ![t] = @ + 1]
  /\ advanced' = (advanced \/ (Head(plan[t]) \in {"counted", "frame"} /\ stage[t] = 0))
  /\ UNCHANGED <<startVars, plan, pacing>>

UnlockForgets(t) ==                            \* a mutant of Unlock
  /\ process = "running" /\ Unlocking(t)
  /\ Head(plan[t]) = "setup" => spio_conn
  /\ owner' = [owner EXCEPT ![Innermost(t)] = IF Head(plan[t]) = "counted" THEN t ELSE Nobody]
  /\ IF LastUnlock(t)
       THEN /\ plan' = [plan EXCEPT ![t] = Tail(@)]
            /\ stage' = [stage EXCEPT ![t] = 0]
       ELSE /\ stage' = [stage EXCEPT ![t] = @ + 1]
            /\ UNCHANGED plan
  /\ UNCHANGED <<startVars, paceVars>>

(* main does not unlock before the device is open.                         *)
Unlock(t) ==
  /\ process = "running" /\ Unlocking(t)
  /\ Head(plan[t]) = "setup" => spio_conn
  /\ owner' = [owner EXCEPT ![Innermost(t)] = Nobody]
  /\ IF LastUnlock(t)
       THEN /\ plan' = [plan EXCEPT ![t] = Tail(@)]
            /\ stage' = [stage EXCEPT ![t] = 0]
       ELSE /\ stage' = [stage EXCEPT ![t] = @ + 1]
            /\ UNCHANGED plan
  /\ UNCHANGED <<startVars, paceVars>>

-----------------------------------------------------------------------------
(* Starting.                                                               *)

Begin(t, state) ==
  /\ process = "running" /\ life[t] = state /\ plan[t] = <<>>

(* die(), exit() and abort() end all the threads, whatever they hold.      *)
Die ==
  /\ process' = "dead"
  /\ UNCHANGED <<world, life, bound, joined, spio_conn, lockVars, paceVars>>

Available(protocol, port) == <<protocol, port>> \notin world.taken \cup bound

Become(t, state) == life' = [life EXCEPT ![t] = state]

(* Four or five pthread_create, then ensure_server_setup.  A thread that    *)
(* exists need not run, so one step stands for all of them.  render_thread *)
(* and demo_thread have nothing to set up.                                 *)
CreateThreads ==
  /\ Begin("main", "starting")
  /\ life' = [t \in Thread |->
                CASE t \in {"main", "render"} -> "serving"
                  [] t = "demo" -> IF world.demo THEN "serving" ELSE "absent"
                  [] OTHER -> "starting"]
  /\ plan' = [plan EXCEPT !["main"] = EnsureServerSetup]
  /\ UNCHANGED <<world, process, bound, joined, spio_conn, owner, stage, paceVars>>

(* spio_open, called with both mutexes held; whatever goes wrong aborts.   *)
OpenSpi ==
  /\ process = "running"
  /\ plan["main"] = <<"setup">> /\ Unlocking("main") /\ ~spio_conn
  /\ IF world.spi
       THEN /\ spio_conn' = TRUE
            /\ UNCHANGED <<world, process, life, bound, joined, lockVars, paceVars>>
       ELSE Die

MainExits ==
  /\ Begin("main", "serving")
  /\ Become("main", "ended")
  /\ UNCHANGED <<world, process, bound, joined, spio_conn, lockVars, paceVars>>

UdpStarts ==
  /\ Begin("udp", "starting")
  /\ \/ /\ world.leds * 3 + HeaderSize > MaxDatagram
        /\ Become("udp", "ended")
        /\ UNCHANGED <<process, bound>>
     \/ /\ world.leds * 3 + HeaderSize <= MaxDatagram
        /\ world.sockets /\ Available("udp", world.udp)
        /\ Become("udp", "serving")
        /\ bound' = bound \cup {<<"udp", world.udp>>}
        /\ UNCHANGED process
     \/ /\ world.leds * 3 + HeaderSize <= MaxDatagram
        /\ ~(world.sockets /\ Available("udp", world.udp))
        /\ process' = "dead"
        /\ UNCHANGED <<life, bound>>
  /\ UNCHANGED <<world, joined, spio_conn, lockVars, paceVars>>

TcpReadsPort ==
  /\ Begin("tcp", "starting")
  /\ Become("tcp", "binding")
  /\ plan' = [plan EXCEPT !["tcp"] = <<"config">>]
  /\ UNCHANGED <<world, process, bound, joined, spio_conn, owner, stage, paceVars>>

(* Two connected sockets, or none: when a call of many fails, those it has *)
(* opened are closed again.                                                *)
ns_socketpair == world.sockets

(* Whether the port of the configuration is had. The address is [::] and   *)
(* the port, as the Makefile builds the server: only with NS_ENABLE_IPV6   *)
(* is it understood.                                                       *)
ns_bind == Available("tcp", world.tcp)

(* ns_server_init asks for a pair of sockets until it gets one.            *)
TcpStarts ==
  /\ Begin("tcp", "binding") /\ ns_socketpair
  /\ IF ns_bind
       THEN /\ Become("tcp", "serving")
            /\ bound' = bound \cup {<<"tcp", world.tcp>>}
            /\ UNCHANGED <<world, process, joined, spio_conn, lockVars, paceVars>>
       ELSE Die

(* Joining stops at the first interface that fails, and the thread goes on *)
(* with those it has.                                                      *)
JoinMulticastGroup == joined' = world.joinable

E131StartsOrDies ==                            \* a mutant of E131Starts
  /\ Begin("e131", "starting")
  /\ \/ /\ world.sockets /\ Available("udp", world.e131)
        /\ Become("e131", "serving")
        /\ bound' = bound \cup {<<"udp", world.e131>>}
        /\ JoinMulticastGroup
        /\ advanced' = FALSE
        /\ UNCHANGED process
     \/ /\ ~(world.sockets /\ Available("udp", world.e131))
        /\ process' = "dead"
        /\ UNCHANGED <<life, bound, joined, advanced>>
  /\ UNCHANGED <<world, spio_conn, lockVars, pacing>>

E131Starts ==
  /\ Begin("e131", "starting")
  /\ \/ /\ world.sockets /\ Available("udp", world.e131)
        /\ Become("e131", "serving")
        /\ bound' = bound \cup {<<"udp", world.e131>>}
        /\ JoinMulticastGroup
        /\ advanced' = FALSE
        /\ UNCHANGED process
     \/ /\ world.sockets /\ ~Available("udp", world.e131)
        /\ Become("e131", "ended")
        /\ UNCHANGED <<process, bound, joined, advanced>>
     \/ /\ ~world.sockets
        /\ process' = "dead"
        /\ UNCHANGED <<life, bound, joined, advanced>>
  /\ UNCHANGED <<world, spio_conn, lockVars, pacing>>

-----------------------------------------------------------------------------
(* Serving.  The receiving threads begin a turn when something arrives.    *)

Turn(t) ==
  /\ t # "main"
  /\ Begin(t, "serving") /\ (t = "e131" => pacing = "recv")
  /\ \E turn \in Turns(t) : plan' = [plan EXCEPT ![t] = turn]
  /\ pacing' = IF t = "e131" THEN "compare" ELSE pacing
  /\ UNCHANGED <<startVars, owner, stage, advanced>>

(* One strip: a packet without a turn of render_thread since the last one  *)
(* makes the E1.31 thread wait for a turn.                                 *)
E131Compares ==
  /\ Begin("e131", "serving") /\ pacing = "compare"
  /\ pacing' = IF advanced THEN "recv" ELSE "wait"
  /\ advanced' = FALSE
  /\ UNCHANGED <<startVars, lockVars>>

E131Waits ==
  /\ Begin("e131", "serving") /\ pacing = "wait" /\ advanced
  /\ pacing' = "recv"
  /\ UNCHANGED <<startVars, lockVars, advanced>>

(* What a thread does of its own accord.                                   *)
Start(t) ==
  CASE t = "main" -> CreateThreads \/ OpenSpi \/ MainExits
    [] t = "udp" -> UdpStarts
    [] t = "tcp" -> TcpReadsPort \/ TcpStarts
    [] t = "e131" -> E131Starts \/ E131Compares \/ E131Waits
    [] t = "render" -> Turn("render")
    [] OTHER -> FALSE

Step(t) == Lock(t) \/ Unlock(t) \/ Start(t)

Next == \E t \in Thread : Step(t) \/ Turn(t)

Spec == Init /\ [][Next]_vars

(* Every thread is scheduled, and a mutex that is free again and again is  *)
(* got in the end: its other users sleep or block between two turns.       *)
(* render_thread never stops; nothing has to arrive.                       *)
FairSpec == Spec /\ \A t \in Thread : SF_vars(Step(t))

-----------------------------------------------------------------------------
States == {"absent", "starting", "binding", "serving", "ended"}

TypeOK ==
  /\ world \in Worlds
  /\ process \in {"running", "dead"}
  /\ life \in [Thread -> States]
  /\ bound \subseteq {"tcp", "udp"} \X Ports
  /\ joined \in 0 .. Interfaces
  /\ spio_conn \in BOOLEAN
  /\ owner \in [Mutex -> Thread \cup {Nobody}]
  /\ plan \in [Thread -> Seq(Section)]
  /\ stage \in [Thread -> 0 .. 3]
  /\ pacing \in {"recv", "compare", "wait"}
  /\ advanced \in BOOLEAN

(* The mutexes a thread has taken and not given back in its section.       *)
Min2(a, b) == IF a < b THEN a ELSE b
HeldIn(t) ==
  IF plan[t] = <<>> THEN {}
  ELSE {Mutexes(t)[i] : i \in 1 .. Min2(stage[t], 2 * Len(Mutexes(t)) - stage[t])}

(* A thread holds what its place in the code says and nothing else; so     *)
(* between two turns, while it sleeps or waits for data or for             *)
(* frame_counter, it holds nothing.                                        *)
HoldsWhatItTook ==
  \A t \in Thread, m \in Mutex : owner[m] = t <=> m \in HeldIn(t)

Blocked(t) == Locking(t) /\ owner[Wanted(t)] # Nobody

(* No thread waits for a mutex of its own, and no two wait for each other's*)
(* (a longer circle needs more than two mutexes).                          *)
NoCircularWait ==
  \A t, u \in Thread :
    ~(Blocked(t) /\ Blocked(u) /\ owner[Wanted(t)] = u /\ owner[Wanted(u)] = t)

(* What can keep the server from coming up: ports that are taken or given  *)
(* twice, no sockets, no device, too many LEDs for a datagram.             *)
Healthy ==
  /\ world.sockets /\ world.spi
  /\ world.udp # world.e131
  /\ world.taken \cap {<<"tcp", world.tcp>>, <<"udp", world.udp>>, <<"udp", world.e131>>} = {}
  /\ world.leds * 3 + HeaderSize <= MaxDatagram

(* The process only dies of a port of OPC that cannot be had, of the       *)
(* sockets or of the device; the E1.31 port alone never ends it.           *)
DiesForCause ==
  process = "dead" =>
    \/ ~world.sockets \/ ~world.spi
    \/ <<"tcp", world.tcp>> \in world.taken
    \/ <<"udp", world.udp>> \in world.taken
    \/ world.udp = world.e131

(* With everything there is to have, all the threads come to serve, with   *)
(* the device open, in whatever order they start.                          *)
ComesUp ==
  Healthy => <>[](/\ process = "running" /\ spio_conn
                  /\ life["main"] = "ended"
                  /\ \A t \in {"render", "udp", "tcp", "e131"} : life[t] = "serving")

(* Every turn of the threads that do more than set_next_frame_data comes to*)
(* its end, the pacing of the E1.31 thread included: nobody waits for ever *)
(* for a mutex or for frame_counter.                                       *)
TurnsEnd ==
  \A t \in {"render", "e131", "demo"} :
    (plan[t] # <<>> \/ (t = "e131" /\ pacing # "recv"))
      ~> (process = "dead" \/ (plan[t] = <<>> /\ (t = "e131" => pacing = "recv")))
=============================================================================
