---------------------------- MODULE ThreadsProofs ----------------------------
(***************************************************************************)
(* Threads for every set of worlds: a thread holds exactly the mutexes its *)
(* place in the code says, from which it follows that no two wait for each *)
(* other, and the process dies for the causes that are named.              *)
(***************************************************************************)
EXTENDS Threads, TLAPS

(* What a thread with the plan p at the stage s of its first section holds,*)
(* and how far a section can have got: the last unlock ends it.            *)
Held(p, s) ==
  IF p = <<>> THEN {}
  ELSE {Takes[Head(p)][i] : i \in 1 .. Min2(s, 2 * Len(Takes[Head(p)]) - s)}
InSection(p, s) == IF p = <<>> THEN s = 0 ELSE s < 2 * Len(Takes[Head(p)])

LockInv ==
  /\ owner \in [Mutex -> Thread \cup {Nobody}]
  /\ plan \in [Thread -> Seq(Section)]
  /\ stage \in [Thread -> Nat]
  /\ \A t \in Thread : InSection(plan[t], stage[t])
  /\ \A t \in Thread, m \in Mutex : owner[m] = t <=> m \in Held(plan[t], stage[t])

-----------------------------------------------------------------------------
(* Every section takes one mutex, or that of the runtime state and then    *)
(* that of the configuration.                                              *)
LEMMA SectionTakes ==
  /\ Runtime # Config
  /\ \A s \in Section :
       \/ Takes[s] = <<Runtime, Config>>
       \/ \E m \in Mutex : Takes[s] = <<m>>
BY DEF Section, Takes, Mutex, Runtime, Config

LEMMA PlanLemma ==
  ASSUME NEW p \in Seq(Section), p # <<>>
  PROVE  /\ Tail(p) \in Seq(Section)
         /\ \/ Takes[Head(p)] = <<Runtime, Config>>
            \/ \E m \in Mutex : Takes[Head(p)] = <<m>>
<1>1. Head(p) \in Section /\ Tail(p) \in Seq(Section)
  OBVIOUS
<1>. QED
  BY <1>1, SectionTakes

(* What a thread holds, place by place.                                    *)
LEMMA HeldOfTwo ==
  ASSUME NEW p, p # <<>>, Takes[Head(p)] = <<Runtime, Config>>,
         NEW s \in Nat, InSection(p, s)
  PROVE  /\ s \in 0 .. 3
         /\ s = 0 => Held(p, s) = {}
         /\ s \in {1, 3} => Held(p, s) = {Runtime}
         /\ s = 2 => Held(p, s) = {Runtime, Config}
<1>. DEFINE both == Takes[Head(p)]
<1>1. Len(both) = 2 /\ both[1] = Runtime /\ both[2] = Config
  OBVIOUS
<1>2. s \in 0 .. 3
  <2>1. s < 2 * Len(both)
    BY DEF InSection
  <2>2. s < 4
    BY <1>1, <2>1
  <2>. QED
    BY <2>2
<1>3. Held(p, s) = {both[i] : i \in 1 .. Min2(s, 4 - s)}
  BY <1>1 DEF Held
<1>4. s = 0 => Held(p, s) = {}
  BY <1>3 DEF Min2
<1>5. ASSUME s \in {1, 3} PROVE Held(p, s) = {Runtime}
  <2>1. Min2(s, 4 - s) = 1 /\ 1 .. 1 = {1}
    BY <1>5 DEF Min2
  <2>. QED
    BY <1>1, <1>3, <2>1
<1>6. ASSUME s = 2 PROVE Held(p, s) = {Runtime, Config}
  <2>1. Min2(s, 4 - s) = 2 /\ 1 .. 2 = {1, 2}
    BY <1>6 DEF Min2
  <2>. QED
    BY <1>1, <1>3, <2>1
<1>. QED
  BY <1>2, <1>4, <1>5, <1>6

LEMMA HeldOfOne ==
  ASSUME NEW p, p # <<>>, NEW m \in Mutex, Takes[Head(p)] = <<m>>,
         NEW s \in Nat, InSection(p, s)
  PROVE  /\ s \in 0 .. 1
         /\ s = 0 => Held(p, s) = {}
         /\ s = 1 => Held(p, s) = {m}
<1>. DEFINE one == Takes[Head(p)]
<1>1. Len(one) = 1 /\ one[1] = m
  OBVIOUS
<1>2. s \in 0 .. 1
  <2>1. s < 2 * Len(one)
    BY DEF InSection
  <2>2. s < 2
    BY <1>1, <2>1
  <2>. QED
    BY <2>2
<1>3. Held(p, s) = {one[i] : i \in 1 .. Min2(s, 2 - s)}
  BY <1>1 DEF Held
<1>4. s = 0 => Held(p, s) = {}
  BY <1>3 DEF Min2
<1>5. ASSUME s = 1 PROVE Held(p, s) = {m}
  <2>1. Min2(s, 2 - s) = 1 /\ 1 .. 1 = {1}
    BY <1>5 DEF Min2
  <2>. QED
    BY <1>1, <1>3, <2>1
<1>. QED
  BY <1>2, <1>4, <1>5

(* At the beginning of a plan nothing is held yet.                         *)
LEMMA AtFirst ==
  ASSUME NEW p \in Seq(Section)
  PROVE  InSection(p, 0) /\ Held(p, 0) = {}
<1>1. CASE p = <<>>
  BY <1>1 DEF InSection, Held
<1>2. CASE p # <<>> /\ Takes[Head(p)] = <<Runtime, Config>>
  <2>1. 2 * Len(Takes[Head(p)]) = 4
    BY <1>2
  <2>2. InSection(p, 0)
    BY <1>2, <2>1 DEF InSection
  <2>. QED
    BY <1>2, <2>2, HeldOfTwo
<1>3. ASSUME p # <<>>, NEW m \in Mutex, Takes[Head(p)] = <<m>>
      PROVE  InSection(p, 0) /\ Held(p, 0) = {}
  <2>1. 2 * Len(Takes[Head(p)]) = 2
    BY <1>3
  <2>2. InSection(p, 0)
    BY <1>3, <2>1 DEF InSection
  <2>. QED
    BY <1>3, <2>2, HeldOfOne
<1>. QED
  BY <1>1, <1>2, <1>3, PlanLemma

-----------------------------------------------------------------------------
(* A lock adds the mutex to those held, an unlock takes the innermost one. *)
LEMMA LockAdds ==
  ASSUME LockInv, NEW t \in Thread, Locking(t)
  PROVE  /\ Wanted(t) \in Mutex
         /\ InSection(plan[t], stage[t] + 1)
         /\ Held(plan[t], stage[t] + 1) = Held(plan[t], stage[t]) \cup {Wanted(t)}
<1>. DEFINE p == plan[t]  s == stage[t]
<1>1. p \in Seq(Section) /\ s \in Nat /\ InSection(p, s) /\ p # <<>>
  BY DEF LockInv, Locking
<1>2. CASE Takes[Head(p)] = <<Runtime, Config>>
  <2>1. Len(Mutexes(t)) = 2 /\ Mutexes(t)[1] = Runtime /\ Mutexes(t)[2] = Config
    BY <1>2 DEF Mutexes
  <2>2. s \in {0, 1}
    BY <1>1, <2>1 DEF Locking
  <2>3. InSection(p, s + 1)
    <3>1. s + 1 < 4 /\ 2 * Len(Takes[Head(p)]) = 4
      BY <2>1, <2>2 DEF Mutexes
    <3>. QED
      BY <1>1, <3>1 DEF InSection
  <2>4. CASE s = 0
    <3>1. Held(p, 0) = {} /\ Held(p, 1) = {Runtime}
      BY <1>1, <1>2, <2>3, <2>4, HeldOfTwo
    <3>. QED
      BY <2>1, <2>3, <2>4, <3>1 DEF Wanted, Mutex
  <2>5. CASE s = 1
    <3>1. Held(p, 1) = {Runtime} /\ Held(p, 2) = {Runtime, Config}
      BY <1>1, <1>2, <2>3, <2>5, HeldOfTwo
    <3>. QED
      BY <2>1, <2>3, <2>5, <3>1 DEF Wanted, Mutex
  <2>. QED
    BY <2>2, <2>4, <2>5
<1>3. ASSUME NEW m \in Mutex, Takes[Head(p)] = <<m>>
      PROVE  /\ Wanted(t) \in Mutex
             /\ InSection(p, s + 1)
             /\ Held(p, s + 1) = Held(p, s) \cup {Wanted(t)}
  <2>1. Len(Mutexes(t)) = 1 /\ Mutexes(t)[1] = m
    BY <1>3 DEF Mutexes
  <2>2. s = 0
    BY <1>1, <2>1 DEF Locking
  <2>3. InSection(p, s + 1)
    <3>1. s + 1 < 2 /\ 2 * Len(Takes[Head(p)]) = 2
      BY <2>1, <2>2 DEF Mutexes
    <3>. QED
      BY <1>1, <3>1 DEF InSection
  <2>4. Held(p, 0) = {} /\ Held(p, 1) = {m}
    BY <1>1, <1>3, <2>2, <2>3, HeldOfOne
  <2>. QED
    BY <2>1, <2>2, <2>3, <2>4 DEF Wanted
<1>. QED
  BY <1>1, <1>2, <1>3, PlanLemma

LEMMA UnlockRemoves ==
  ASSUME LockInv, NEW t \in Thread, Unlocking(t)
  PROVE  /\ Innermost(t) \in Held(plan[t], stage[t])
         /\ LastUnlock(t) => Held(plan[t], stage[t]) = {Innermost(t)}
         /\ ~LastUnlock(t) =>
              /\ InSection(plan[t], stage[t] + 1)
              /\ Held(plan[t], stage[t] + 1) = Held(plan[t], stage[t]) \ {Innermost(t)}
<1>. DEFINE p == plan[t]  s == stage[t]
<1>1. p \in Seq(Section) /\ s \in Nat /\ InSection(p, s) /\ p # <<>>
  BY DEF LockInv, Unlocking
<1>2. CASE Takes[Head(p)] = <<Runtime, Config>>
  <2>1. Len(Mutexes(t)) = 2 /\ Mutexes(t)[1] = Runtime /\ Mutexes(t)[2] = Config
    BY <1>2 DEF Mutexes
  <2>2. s \in {2, 3}
    <3>1. s \in 0 .. 3
      BY <1>1, <1>2, HeldOfTwo
    <3>. QED
      BY <2>1, <3>1 DEF Unlocking
  <2>3. CASE s = 2
    <3>1. Innermost(t) = Config /\ ~LastUnlock(t)
      BY <2>1, <2>3 DEF Innermost, LastUnlock
    <3>2. InSection(p, s + 1)
      <4>1. s + 1 < 4 /\ 2 * Len(Takes[Head(p)]) = 4
        BY <2>1, <2>3 DEF Mutexes
      <4>. QED
        BY <1>1, <4>1 DEF InSection
    <3>3. Held(p, 2) = {Runtime, Config} /\ Held(p, 3) = {Runtime}
      BY <1>1, <1>2, <2>3, <3>2, HeldOfTwo
    <3>. QED
      BY <2>3, <3>1, <3>2, <3>3, SectionTakes
  <2>4. CASE s = 3
    <3>1. Innermost(t) = Runtime /\ LastUnlock(t)
      BY <2>1, <2>4 DEF Innermost, LastUnlock
    <3>2. Held(p, 3) = {Runtime}
      BY <1>1, <1>2, <2>4, HeldOfTwo
    <3>. QED
      BY <2>4, <3>1, <3>2
  <2>. QED
    BY <2>2, <2>3, <2>4
<1>3. ASSUME NEW m \in Mutex, Takes[Head(p)] = <<m>>
      PROVE  Innermost(t) = m /\ LastUnlock(t) /\ Held(p, s) = {m}
  <2>1. Len(Mutexes(t)) = 1 /\ Mutexes(t)[1] = m
    BY <1>3 DEF Mutexes
  <2>2. s = 1
    <3>1. s \in 0 .. 1
      BY <1>1, <1>3, HeldOfOne
    <3>. QED
      BY <2>1, <3>1 DEF Unlocking
  <2>3. Held(p, 1) = {m}
    BY <1>1, <1>3, <2>2, HeldOfOne
  <2>. QED
    BY <2>1, <2>2, <2>3 DEF Innermost, LastUnlock
<1>. QED
  BY <1>1, <1>2, <1>3, PlanLemma

-----------------------------------------------------------------------------
(* The steps, by what they do to the mutexes.                              *)

LEMMA LockStep ==
  ASSUME LockInv, NEW t \in Thread, Lock(t)
  PROVE  LockInv'
<1>1. /\ Locking(t)
      /\ owner[Wanted(t)] = Nobody
      /\ owner' = [owner EXCEPT ![Wanted(t)] = t]
      /\ stage' = [stage EXCEPT ![t] = @ + 1]
      /\ plan' = plan
  BY DEF Lock
<1>2. /\ Wanted(t) \in Mutex
      /\ InSection(plan[t], stage[t] + 1)
      /\ Held(plan[t], stage[t] + 1) = Held(plan[t], stage[t]) \cup {Wanted(t)}
  BY <1>1, LockAdds
<1>3. /\ owner' \in [Mutex -> Thread \cup {Nobody}]
      /\ stage' \in [Thread -> Nat]
      /\ plan' \in [Thread -> Seq(Section)]
  BY <1>1, <1>2 DEF LockInv
<1>4. \A u \in Thread : InSection(plan[u], stage[u])' 
  BY <1>1, <1>2 DEF LockInv
<1>5. \A u \in Thread, m \in Mutex : owner'[m] = u <=> m \in Held(plan'[u], stage'[u])
  <2>. SUFFICES ASSUME NEW u \in Thread, NEW m \in Mutex
                PROVE  owner'[m] = u <=> m \in Held(plan'[u], stage'[u])
    OBVIOUS
  <2>1. owner[m] = u <=> m \in Held(plan[u], stage[u])
    BY DEF LockInv
  <2>2. Nobody \notin Thread
    BY DEF Nobody, Thread
  <2>3. CASE u = t
    <3>1. Held(plan'[u], stage'[u]) = Held(plan[u], stage[u]) \cup {Wanted(t)}
      BY <1>1, <1>2, <2>3 DEF LockInv
    <3>. QED
      BY <1>1, <1>2, <2>1, <2>3, <3>1 DEF LockInv
  <2>4. CASE u # t
    <3>1. Held(plan'[u], stage'[u]) = Held(plan[u], stage[u])
      BY <1>1, <2>4 DEF LockInv
    <3>2. owner'[m] = u <=> owner[m] = u
      BY <1>1, <2>2, <2>4 DEF LockInv
    <3>. QED
      BY <2>1, <3>1, <3>2
  <2>. QED
    BY <2>3, <2>4
<1>. QED
  BY <1>3, <1>4, <1>5 DEF LockInv

LEMMA UnlockStep ==
  ASSUME LockInv, NEW t \in Thread, Unlock(t)
  PROVE  LockInv'
<1>1. /\ Unlocking(t)
      /\ owner' = [owner EXCEPT ![Innermost(t)] = Nobody]
      /\ LastUnlock(t) => /\ plan' = [plan EXCEPT ![t] = Tail(@)]
                          /\ stage' = [stage EXCEPT ![t] = 0]
      /\ ~LastUnlock(t) => /\ stage' = [stage EXCEPT ![t] = @ + 1]
                           /\ plan' = plan
  BY DEF Unlock
<1>2. /\ Innermost(t) \in Held(plan[t], stage[t])
      /\ LastUnlock(t) => Held(plan[t], stage[t]) = {Innermost(t)}
      /\ ~LastUnlock(t) =>
           /\ InSection(plan[t], stage[t] + 1)
           /\ Held(plan[t], stage[t] + 1) = Held(plan[t], stage[t]) \ {Innermost(t)}
  BY <1>1, UnlockRemoves
<1>3. plan[t] \in Seq(Section) /\ plan[t] # <<>> /\ Tail(plan[t]) \in Seq(Section)
  BY <1>1, PlanLemma DEF LockInv, Unlocking
<1>4. InSection(Tail(plan[t]), 0) /\ Held(Tail(plan[t]), 0) = {}
  BY <1>3, AtFirst
<1>5. /\ plan'[t] \in Seq(Section) /\ stage'[t] \in Nat
      /\ InSection(plan'[t], stage'[t])
      /\ Held(plan'[t], stage'[t]) = Held(plan[t], stage[t]) \ {Innermost(t)}
  <2>1. CASE LastUnlock(t)
    <3>1. plan'[t] = Tail(plan[t]) /\ stage'[t] = 0
      BY <1>1, <2>1 DEF LockInv
    <3>2. Held(plan[t], stage[t]) \ {Innermost(t)} = {}
      BY <1>2, <2>1
    <3>. QED
      BY <1>3, <1>4, <3>1, <3>2
  <2>2. CASE ~LastUnlock(t)
    BY <1>1, <1>2, <1>3, <2>2 DEF LockInv
  <2>. QED
    BY <2>1, <2>2
<1>6. /\ plan' \in [Thread -> Seq(Section)] /\ stage' \in [Thread -> Nat]
      /\ \A u \in Thread \ {t} : plan'[u] = plan[u] /\ stage'[u] = stage[u]
  <2>1. plan \in [Thread -> Seq(Section)] /\ stage \in [Thread -> Nat]
    BY DEF LockInv
  <2>2. CASE LastUnlock(t)
    <3>1. plan' = [plan EXCEPT ![t] = Tail(plan[t])] /\ stage' = [stage EXCEPT ![t] = 0]
      BY <1>1, <2>2
    <3>. QED
      BY <1>3, <2>1, <3>1
  <2>3. CASE ~LastUnlock(t)
    <3>1. plan' = plan /\ stage' = [stage EXCEPT ![t] = stage[t] + 1]
      BY <1>1, <2>3
    <3>2. stage[t] + 1 \in Nat
      BY <2>1
    <3>. QED
      BY <2>1, <3>1, <3>2
  <2>. QED
    BY <2>2, <2>3
<1>7. \A u \in Thread, m \in Mutex : owner'[m] = u <=> m \in Held(plan'[u], stage'[u])
  <2>. SUFFICES ASSUME NEW u \in Thread, NEW m \in Mutex
                PROVE  owner'[m] = u <=> m \in Held(plan'[u], stage'[u])
    OBVIOUS
  <2>1. \A v \in Thread : owner[m] = v <=> m \in Held(plan[v], stage[v])
    BY DEF LockInv
  <2>2. Nobody \notin Thread
    BY DEF Nobody, Thread
  <2>3. owner'[m] = IF m = Innermost(t) THEN Nobody ELSE owner[m]
    BY <1>1 DEF LockInv
  <2>4. CASE u = t
    BY <1>5, <2>1, <2>2, <2>3, <2>4
  <2>5. CASE u # t
    BY <1>2, <1>6, <2>1, <2>2, <2>3, <2>5
  <2>. QED
    BY <2>4, <2>5
<1>8. owner' \in [Mutex -> Thread \cup {Nobody}]
  BY <1>1 DEF LockInv
<1>9. \A u \in Thread : InSection(plan[u], stage[u])'
  BY <1>5, <1>6 DEF LockInv
<1>. QED
  BY <1>6, <1>7, <1>8, <1>9 DEF LockInv

(* A thread that holds nothing begins a turn.                              *)
LEMMA BeginStep ==
  ASSUME LockInv, NEW t \in Thread, plan[t] = <<>>, NEW turn \in Seq(Section),
         plan' = [plan EXCEPT ![t] = turn], UNCHANGED <<owner, stage>>
  PROVE  LockInv'
<1>1. stage[t] = 0 /\ Held(plan[t], stage[t]) = {}
  BY DEF LockInv, InSection, Held
<1>2. InSection(turn, 0) /\ Held(turn, 0) = {}
  BY AtFirst
<1>3. /\ plan' \in [Thread -> Seq(Section)] /\ plan'[t] = turn
      /\ \A u \in Thread \ {t} : plan'[u] = plan[u]
  BY DEF LockInv
<1>4. \A u \in Thread : InSection(plan'[u], stage'[u])
  BY <1>1, <1>2, <1>3 DEF LockInv
<1>5. \A u \in Thread : Held(plan'[u], stage'[u]) = Held(plan[u], stage[u])
  BY <1>1, <1>2, <1>3
<1>. QED
  BY <1>3, <1>4, <1>5 DEF LockInv

LEMMA OtherStep ==
  ASSUME LockInv, UNCHANGED <<owner, plan, stage>>
  PROVE  LockInv'
BY DEF LockInv

-----------------------------------------------------------------------------
(* The turns are made of sections.                                         *)
LEMMA TurnsAreSections ==
  /\ EnsureServerSetup \in Seq(Section)
  /\ <<"config">> \in Seq(Section)
  /\ \A t \in Thread : Turns(t) \subseteq Seq(Section)
<1>1. Section = {"tables", "setup", "counted", "frame", "runtime", "config"}
  BY DEF Section, Takes
<1>2. /\ <<"tables">> \in Seq(Section) /\ <<"setup">> \in Seq(Section)
      /\ <<"counted">> \in Seq(Section) /\ <<"frame">> \in Seq(Section)
      /\ <<"runtime">> \in Seq(Section) /\ <<"config">> \in Seq(Section)
      /\ <<"config", "runtime">> \in Seq(Section) /\ <<"runtime", "config">> \in Seq(Section)
  BY <1>1
<1>3. EnsureServerSetup \in Seq(Section)
  BY <1>2 DEF EnsureServerSetup, EnsureFrameData
<1>4. /\ RenderTurns \subseteq Seq(Section) /\ DemoTurns \subseteq Seq(Section)
      /\ E131Turns \subseteq Seq(Section) /\ {SetNextFrameData} \subseteq Seq(Section)
  BY <1>2 DEF RenderTurns, DemoTurns, E131Turns, SetNextFrameData, RotateFrames
<1>5. \A t \in Thread : Turns(t) \subseteq Seq(Section)
  BY <1>2, <1>4 DEF Turns, Thread
<1>. QED
  BY <1>2, <1>3, <1>5

-----------------------------------------------------------------------------
(* The ports: only those of the configuration are bound, each by its own   *)
(* thread.                                                                 *)
PortInv ==
  /\ bound \subseteq {<<"tcp", world.tcp>>, <<"udp", world.udp>>, <<"udp", world.e131>>}
  /\ life["main"] = "starting" =>
       bound = {} /\ \A t \in Thread \ {"main"} : life[t] = "absent"
  /\ life["tcp"] \in {"absent", "starting", "binding"} => <<"tcp", world.tcp>> \notin bound
  /\ life["udp"] \in {"absent", "starting"} /\ <<"udp", world.udp>> \in bound
       => world.udp = world.e131

IInv == TypeOK /\ LockInv /\ PortInv /\ DiesForCause

LEMMA InitIInv == Init => IInv
<1>. SUFFICES ASSUME Init PROVE IInv
  OBVIOUS
<1>1. TypeOK
  <2>1. <<>> \in Seq(Section)
    OBVIOUS
  <2>2. life \in [Thread -> States]
    BY DEF Init, States
  <2>3. bound \subseteq {"tcp", "udp"} \X Ports /\ joined \in 0 .. Interfaces
    BY WorldAssumption DEF Init
  <2>4. plan \in [Thread -> Seq(Section)] /\ stage \in [Thread -> 0 .. 3]
    BY <2>1 DEF Init
  <2>5. owner \in [Mutex -> Thread \cup {Nobody}]
    BY DEF Init
  <2>. QED
    BY <2>2, <2>3, <2>4, <2>5 DEF Init, TypeOK
<1>2. LockInv
  <2>1. <<>> \in Seq(Section)
    OBVIOUS
  <2>2. InSection(<<>>, 0) /\ Held(<<>>, 0) = {}
    BY DEF InSection, Held
  <2>3. Nobody \notin Thread
    BY DEF Nobody, Thread
  <2>. QED
    BY <2>1, <2>2, <2>3 DEF Init, LockInv
<1>3. PortInv
  BY DEF Init, PortInv, Thread
<1>4. DiesForCause
  BY DEF Init, DiesForCause
<1>. QED
  BY <1>1, <1>2, <1>3, <1>4 DEF IInv

(* A step either locks, or unlocks, or begins the plan of a thread that has*)
(* none, or leaves the mutexes alone.                                      *)
LEMMA StepsOfLocks ==
  ASSUME IInv, NEW t \in Thread, Step(t) \/ Turn(t)
  PROVE  LockInv'
<1>. USE DEF IInv
<1>1. CASE Lock(t)
  BY <1>1, LockStep
<1>2. CASE Unlock(t)
  BY <1>2, UnlockStep
<1>3. CASE Turn(t)
  <2>1. PICK turn \in Turns(t) : plan' = [plan EXCEPT ![t] = turn]
    BY <1>3 DEF Turn
  <2>2. turn \in Seq(Section)
    BY <2>1, TurnsAreSections
  <2>3. plan[t] = <<>> /\ UNCHANGED <<owner, stage>>
    BY <1>3 DEF Turn, Begin
  <2>. QED
    BY <2>1, <2>2, <2>3, BeginStep
<1>4. CASE CreateThreads
  <2>1. /\ plan["main"] = <<>> /\ UNCHANGED <<owner, stage>>
        /\ plan' = [plan EXCEPT !["main"] = EnsureServerSetup]
    BY <1>4 DEF CreateThreads, Begin
  <2>2. "main" \in Thread
    BY DEF Thread
  <2>. QED
    BY <2>1, <2>2, TurnsAreSections, BeginStep
<1>5. CASE TcpReadsPort
  <2>1. /\ plan["tcp"] = <<>> /\ UNCHANGED <<owner, stage>>
        /\ plan' = [plan EXCEPT !["tcp"] = <<"config">>]
    BY <1>5 DEF TcpReadsPort, Begin
  <2>2. "tcp" \in Thread
    BY DEF Thread
  <2>. QED
    BY <2>1, <2>2, TurnsAreSections, BeginStep
<1>6. CASE OpenSpi
  BY <1>6, OtherStep DEF OpenSpi, Die, lockVars
<1>7. CASE MainExits
  BY <1>7, OtherStep DEF MainExits, lockVars
<1>8. CASE UdpStarts
  BY <1>8, OtherStep DEF UdpStarts, lockVars
<1>9. CASE TcpStarts
  BY <1>9, OtherStep DEF TcpStarts, Die, lockVars
<1>10. CASE E131Starts
  BY <1>10, OtherStep DEF E131Starts, lockVars
<1>11. CASE E131Compares
  BY <1>11, OtherStep DEF E131Compares, lockVars
<1>12. CASE E131Waits
  BY <1>12, OtherStep DEF E131Waits, lockVars
<1>13. \/ Lock(t) \/ Unlock(t) \/ Turn(t) \/ CreateThreads \/ OpenSpi \/ MainExits
       \/ UdpStarts \/ TcpReadsPort \/ TcpStarts \/ E131Starts \/ E131Compares \/ E131Waits
  BY DEF Step, Start, Thread
<1>. QED
  BY <1>1, <1>2, <1>3, <1>4, <1>5, <1>6, <1>7, <1>8, <1>9, <1>10, <1>11, <1>12, <1>13

LEMMA StageBound ==
  ASSUME NEW p \in Seq(Section), NEW s \in Nat, InSection(p, s)
  PROVE  s \in 0 .. 3
<1>1. CASE p = <<>>
  BY <1>1 DEF InSection
<1>2. CASE p # <<>> /\ Takes[Head(p)] = <<Runtime, Config>>
  BY <1>2, HeldOfTwo
<1>3. ASSUME p # <<>>, NEW m \in Mutex, Takes[Head(p)] = <<m>>
      PROVE  s \in 0 .. 3
  <2>1. s \in 0 .. 1
    BY <1>3, HeldOfOne
  <2>. QED
    BY <2>1
<1>. QED
  BY <1>1, <1>2, <1>3, PlanLemma

(* What is had and where the threads are, step by step.                    *)
StartTypes ==
  /\ world \in Worlds
  /\ process \in {"running", "dead"}
  /\ life \in [Thread -> States]
  /\ bound \subseteq {"tcp", "udp"} \X Ports
  /\ joined \in 0 .. Interfaces
  /\ spio_conn \in BOOLEAN
  /\ pacing \in {"recv", "compare", "wait"}
  /\ advanced \in BOOLEAN

StartInv == StartTypes /\ PortInv /\ DiesForCause

LEMMA WorldLemma ==
  ASSUME world \in Worlds
  PROVE  /\ world.tcp \in Ports /\ world.udp \in Ports /\ world.e131 \in Ports
         /\ world.joinable \in 0 .. Interfaces
BY WorldAssumption

(* Steps that only go on with a turn.                                      *)
LEMMA TurningStep ==
  ASSUME StartInv, UNCHANGED startVars, pacing' \in {"recv", "compare", "wait"},
         advanced' \in BOOLEAN
  PROVE  StartInv'
BY DEF StartInv, StartTypes, PortInv, DiesForCause, startVars

LEMMA UdpStep ==
  ASSUME StartInv, UdpStarts
  PROVE  StartInv'
<1>. USE DEF StartInv
<1>1. /\ world' = world /\ joined' = joined /\ spio_conn' = spio_conn
      /\ pacing' = pacing /\ advanced' = advanced
      /\ process = "running" /\ life["udp"] = "starting" /\ "udp" \in Thread
  BY DEF UdpStarts, Begin, paceVars, Thread
<1>2. CASE Become("udp", "ended") /\ UNCHANGED <<process, bound>>
  <2>1. StartTypes'
    BY <1>1, <1>2 DEF StartTypes, Become, States
  <2>2. PortInv'
    BY <1>1, <1>2 DEF StartTypes, PortInv, Become, Thread
  <2>. QED
    BY <1>1, <1>2, <2>1, <2>2 DEF DiesForCause
<1>3. CASE Become("udp", "serving") /\ bound' = bound \cup {<<"udp", world.udp>>} /\ UNCHANGED process
  <2>1. StartTypes'
    BY <1>1, <1>3, WorldLemma DEF StartTypes, Become, States
  <2>2. PortInv'
    <3>1. life["main"] # "starting" /\ life'["main"] = life["main"]
      BY <1>1, <1>3 DEF StartTypes, PortInv, Become, Thread
    <3>2. life'["udp"] = "serving" /\ life'["tcp"] = life["tcp"]
      BY <1>1, <1>3 DEF StartTypes, Become, Thread
    <3>. QED
      BY <1>1, <1>3, <3>1, <3>2 DEF PortInv
  <2>. QED
    BY <1>1, <1>3, <2>1, <2>2 DEF DiesForCause
<1>4. CASE /\ ~(world.sockets /\ Available("udp", world.udp))
           /\ process' = "dead" /\ UNCHANGED <<life, bound>>
  <2>1. StartTypes'
    BY <1>1, <1>4 DEF StartTypes
  <2>2. PortInv'
    BY <1>1, <1>4 DEF PortInv
  <2>3. DiesForCause'
    BY <1>1, <1>4 DEF DiesForCause, PortInv, Available
  <2>. QED
    BY <2>1, <2>2, <2>3
<1>. QED
  BY <1>2, <1>3, <1>4 DEF UdpStarts

LEMMA TcpStep ==
  ASSUME StartInv, TcpStarts
  PROVE  StartInv'
<1>. USE DEF StartInv
<1>1. /\ world' = world /\ joined' = joined /\ spio_conn' = spio_conn
      /\ pacing' = pacing /\ advanced' = advanced
      /\ process = "running" /\ life["tcp"] = "binding" /\ "tcp" \in Thread
  BY DEF TcpStarts, Die, Begin, paceVars, Thread
<1>2. CASE Become("tcp", "serving") /\ bound' = bound \cup {<<"tcp", world.tcp>>} /\ process' = process
  <2>1. StartTypes'
    BY <1>1, <1>2, WorldLemma DEF StartTypes, Become, States
  <2>2. PortInv'
    <3>1. life["main"] # "starting" /\ life'["main"] = life["main"]
      BY <1>1, <1>2 DEF StartTypes, PortInv, Become, Thread
    <3>2. life'["tcp"] = "serving" /\ life'["udp"] = life["udp"]
      BY <1>1, <1>2 DEF StartTypes, Become, Thread
    <3>. QED
      BY <1>1, <1>2, <3>1, <3>2 DEF PortInv
  <2>. QED
    BY <1>1, <1>2, <2>1, <2>2 DEF DiesForCause
<1>3. CASE ~ns_bind /\ Die
  <2>1. StartTypes'
    BY <1>1, <1>3 DEF StartTypes, Die
  <2>2. PortInv'
    BY <1>1, <1>3 DEF PortInv, Die
  <2>3. <<"tcp", world.tcp>> \in world.taken
    BY <1>1, <1>3 DEF PortInv, ns_bind, Available
  <2>. QED
    BY <1>1, <2>1, <2>2, <2>3 DEF DiesForCause
<1>. QED
  BY <1>2, <1>3 DEF TcpStarts

LEMMA E131Step ==
  ASSUME StartInv, E131Starts
  PROVE  StartInv'
<1>. USE DEF StartInv
<1>1. /\ world' = world /\ spio_conn' = spio_conn /\ pacing' = pacing
      /\ process = "running" /\ life["e131"] = "starting" /\ "e131" \in Thread
  BY DEF E131Starts, Begin, Thread
<1>2. CASE /\ Become("e131", "serving") /\ Available("udp", world.e131)
           /\ bound' = bound \cup {<<"udp", world.e131>>}
           /\ JoinMulticastGroup /\ advanced' = FALSE /\ process' = process
  <2>1. StartTypes'
    <3>1. joined' \in 0 .. Interfaces /\ bound' \subseteq {"tcp", "udp"} \X Ports
      BY <1>2, WorldLemma DEF StartTypes, JoinMulticastGroup
    <3>2. life' \in [Thread -> States]
      BY <1>1, <1>2 DEF StartTypes, Become, States
    <3>. QED
      BY <1>1, <1>2, <3>1, <3>2 DEF StartTypes
  <2>2. PortInv'
    <3>1. life["main"] # "starting" /\ life'["main"] = life["main"]
      BY <1>1, <1>2 DEF StartTypes, PortInv, Become, Thread
    <3>2. life'["tcp"] = life["tcp"] /\ life'["udp"] = life["udp"]
      BY <1>1, <1>2 DEF StartTypes, Become, Thread
    <3>. QED
      BY <1>1, <1>2, <3>1, <3>2 DEF PortInv
  <2>. QED
    BY <1>1, <1>2, <2>1, <2>2 DEF DiesForCause
<1>3. CASE Become("e131", "ended") /\ UNCHANGED <<process, bound, joined, advanced>>
  <2>1. StartTypes'
    BY <1>1, <1>3 DEF StartTypes, Become, States
  <2>2. PortInv'
    BY <1>1, <1>3 DEF StartTypes, PortInv, Become, Thread
  <2>. QED
    BY <1>1, <1>3, <2>1, <2>2 DEF DiesForCause
<1>4. CASE ~world.sockets /\ process' = "dead" /\ UNCHANGED <<life, bound, joined, advanced>>
  <2>1. StartTypes'
    BY <1>1, <1>4 DEF StartTypes
  <2>2. PortInv'
    BY <1>1, <1>4 DEF PortInv
  <2>. QED
    BY <1>1, <1>4, <2>1, <2>2 DEF DiesForCause
<1>. QED
  BY <1>2, <1>3, <1>4 DEF E131Starts

LEMMA CreateStep ==
  ASSUME StartInv, CreateThreads
  PROVE  StartInv'
<1>. USE DEF StartInv
<1>1. /\ UNCHANGED <<world, process, bound, joined, spio_conn, pacing, advanced>>
      /\ life["main"] = "starting" /\ bound = {}
  BY DEF CreateThreads, Begin, paceVars, PortInv
<1>2. life' \in [Thread -> States] /\ life'["main"] = "serving"
  BY DEF CreateThreads, States, Thread
<1>. QED
  BY <1>1, <1>2 DEF StartTypes, PortInv, DiesForCause

LEMMA StepsOfStart ==
  ASSUME StartInv, NEW t \in Thread, Step(t) \/ Turn(t)
  PROVE  StartInv'
<1>. USE DEF StartInv
<1>1. CASE Lock(t)
  BY <1>1, TurningStep DEF Lock, StartTypes, startVars
<1>2. CASE Unlock(t)
  BY <1>2, TurningStep DEF Unlock, StartTypes, startVars, paceVars
<1>3. CASE Turn(t)
  BY <1>3, TurningStep DEF Turn, StartTypes, startVars
<1>4. CASE CreateThreads
  BY <1>4, CreateStep
<1>5. CASE TcpReadsPort
  <2>1. /\ UNCHANGED <<world, process, bound, joined, spio_conn, pacing, advanced>>
        /\ life["tcp"] = "starting" /\ life' = [life EXCEPT !["tcp"] = "binding"]
    BY <1>5 DEF TcpReadsPort, Begin, Become, paceVars
  <2>2. life' \in [Thread -> States]
    BY <2>1 DEF StartTypes, States
  <2>3. PortInv'
    BY <2>1 DEF StartTypes, PortInv, Thread
  <2>. QED
    BY <2>1, <2>2, <2>3 DEF StartTypes, DiesForCause
<1>6. CASE OpenSpi
  <2>1. /\ UNCHANGED <<world, life, bound, joined, pacing, advanced>>
        /\ \/ spio_conn' = TRUE /\ process' = process
           \/ ~world.spi /\ process' = "dead" /\ spio_conn' = spio_conn
    BY <1>6 DEF OpenSpi, Die, paceVars
  <2>2. StartTypes' /\ PortInv'
    BY <2>1 DEF StartTypes, PortInv
  <2>. QED
    BY <2>1, <2>2 DEF DiesForCause
<1>7. CASE MainExits
  <2>1. /\ UNCHANGED <<world, process, bound, joined, spio_conn, pacing, advanced>>
        /\ life["main"] = "serving" /\ life' = [life EXCEPT !["main"] = "ended"]
    BY <1>7 DEF MainExits, Begin, Become, paceVars
  <2>2. life' \in [Thread -> States]
    BY <2>1 DEF StartTypes, States
  <2>3. PortInv'
    BY <2>1 DEF StartTypes, PortInv, Thread
  <2>. QED
    BY <2>1, <2>2, <2>3 DEF StartTypes, DiesForCause
<1>8. CASE UdpStarts
  BY <1>8, UdpStep
<1>9. CASE TcpStarts
  BY <1>9, TcpStep
<1>10. CASE E131Starts
  BY <1>10, E131Step
<1>11. CASE E131Compares
  BY <1>11, TurningStep DEF E131Compares, StartTypes, startVars
<1>12. CASE E131Waits
  BY <1>12, TurningStep DEF E131Waits, StartTypes, startVars
<1>13. \/ Lock(t) \/ Unlock(t) \/ Turn(t) \/ CreateThreads \/ OpenSpi \/ MainExits
       \/ UdpStarts \/ TcpReadsPort \/ TcpStarts \/ E131Starts \/ E131Compares \/ E131Waits
  BY DEF Step, Start, Thread
<1>. QED
  BY <1>1, <1>2, <1>3, <1>4, <1>5, <1>6, <1>7, <1>8, <1>9, <1>10, <1>11, <1>12, <1>13

(* The two halves of the invariant and TypeOK.                             *)
LEMMA Halves ==
  /\ IInv <=> LockInv /\ StartInv /\ stage \in [Thread -> 0 .. 3]
  /\ LockInv => stage \in [Thread -> 0 .. 3]
<1>1. IInv <=> LockInv /\ StartInv /\ stage \in [Thread -> 0 .. 3]
  BY DEF IInv, StartInv, StartTypes, TypeOK, LockInv
<1>2. LockInv => stage \in [Thread -> 0 .. 3]
  <2>. SUFFICES ASSUME LockInv PROVE stage \in [Thread -> 0 .. 3]
    OBVIOUS
  <2>1. \A t \in Thread : stage[t] \in 0 .. 3
    BY StageBound DEF LockInv
  <2>. QED
    BY <2>1 DEF LockInv
<1>. QED
  BY <1>1, <1>2

LEMMA NextIInv == IInv /\ [Next]_vars => IInv'
<1>. SUFFICES ASSUME IInv, [Next]_vars PROVE IInv'
  OBVIOUS
<1>1. LockInv' /\ StartInv'
  <2>1. CASE UNCHANGED vars
    <3>1. LockInv'
      BY <2>1, Halves, OtherStep DEF vars, lockVars
    <3>2. StartInv'
      BY <2>1, Halves, TurningStep DEF vars, paceVars, StartInv, StartTypes
    <3>. QED
      BY <3>1, <3>2
  <2>2. ASSUME NEW t \in Thread, Step(t) \/ Turn(t) PROVE LockInv' /\ StartInv'
    BY <2>2, Halves, StepsOfLocks, StepsOfStart
  <2>. QED
    BY <2>1, <2>2 DEF Next
<1>2. stage' \in [Thread -> 0 .. 3]
  <2>1. \A t \in Thread : stage'[t] \in 0 .. 3
    BY <1>1, StageBound DEF LockInv
  <2>. QED
    BY <1>1, <2>1 DEF LockInv
<1>. QED
  BY <1>1, <1>2 DEF IInv, StartInv, StartTypes, TypeOK, LockInv

-----------------------------------------------------------------------------
(* The inductive invariant: what each thread holds follows from its place  *)
(* in the code, and a port is bound by none but the thread it is for, so   *)
(* that the process dies only of what is named.                            *)
THEOREM Invariance == Spec => []IInv
<1>. QED
  BY InitIInv, NextIInv, PTL DEF Spec

(* Every variable of the threads and the mutexes stays in its type.        *)
THEOREM TypeCorrect == Spec => []TypeOK
<1>1. IInv => TypeOK
  BY DEF IInv
<1>. QED
  BY <1>1, Invariance, PTL

(* A thread holds the mutexes its place in the code says, and no others:   *)
(* nothing is held between two turns, by any of the six.                   *)
THEOREM HoldsWhatItShould == Spec => []HoldsWhatItTook
<1>1. IInv => HoldsWhatItTook
  <2>1. \A t \in Thread : HeldIn(t) = Held(plan[t], stage[t])
    BY DEF HeldIn, Held, Mutexes
  <2>. QED
    BY <2>1 DEF IInv, LockInv, HoldsWhatItTook
<1>. QED
  BY <1>1, Invariance, PTL

(* Whoever waits with a mutex in hand holds that of the runtime state and  *)
(* waits for that of the configuration; two such threads would both hold   *)
(* the former.                                                             *)
THEOREM NoDeadlock == Spec => []NoCircularWait
<1>1. ASSUME LockInv, NEW t \in Thread, NEW m \in Mutex, Locking(t), owner[m] = t
      PROVE  m = Runtime /\ Wanted(t) = Config
  <2>. DEFINE p == plan[t]  s == stage[t]
  <2>1. p \in Seq(Section) /\ s \in Nat /\ InSection(p, s) /\ p # <<>> /\ m \in Held(p, s)
    BY <1>1 DEF LockInv, Locking
  <2>2. CASE Takes[Head(p)] = <<Runtime, Config>>
    <3>1. Len(Mutexes(t)) = 2 /\ Mutexes(t)[1] = Runtime /\ Mutexes(t)[2] = Config
      BY <2>2 DEF Mutexes
    <3>2. s \in {0, 1}
      BY <1>1, <2>1, <3>1 DEF Locking
    <3>3. s = 1 /\ m = Runtime
      BY <2>1, <2>2, <3>2, HeldOfTwo
    <3>. QED
      BY <3>1, <3>3 DEF Wanted
  <2>3. ASSUME NEW n \in Mutex, Takes[Head(p)] = <<n>> PROVE FALSE
    <3>1. Len(Mutexes(t)) = 1
      BY <2>3 DEF Mutexes
    <3>2. s = 0
      BY <1>1, <2>1, <3>1 DEF Locking
    <3>. QED
      BY <2>1, <2>3, <3>2, HeldOfOne
  <2>. QED
    BY <2>1, <2>2, <2>3, PlanLemma
<1>2. LockInv => NoCircularWait
  <2>. SUFFICES ASSUME LockInv, NEW t \in Thread, NEW u \in Thread,
                       Blocked(t), Blocked(u), owner[Wanted(t)] = u, owner[Wanted(u)] = t
                PROVE  FALSE
    BY DEF NoCircularWait
  <2>1. Locking(t) /\ Locking(u)
    BY DEF Blocked
  <2>2. Wanted(t) \in Mutex /\ Wanted(u) \in Mutex
    BY <2>1, LockAdds
  <2>3. Wanted(u) = Runtime /\ Wanted(t) = Config
    BY <1>1, <2>1, <2>2
  <2>4. Wanted(t) = Runtime
    BY <1>1, <2>1, <2>2
  <2>. QED
    BY <2>3, <2>4, SectionTakes
<1>. QED
  BY <1>2, Invariance, PTL DEF IInv

(* The process dies only for the causes named, in whatever order the       *)
(* threads start; that the E1.31 port is taken is none.                    *)
THEOREM DeathHasCause == Spec => []DiesForCause
<1>1. IInv => DiesForCause
  BY DEF IInv
<1>. QED
  BY <1>1, Invariance, PTL
=============================================================================
