---------------------------- MODULE OpcTcpProofs ----------------------------
(***************************************************************************)
(* The proof that a connection keeps the stream of commands intact until   *)
(* its buffer is cleared, for commands of any lengths, cut into reads in   *)
(* any way, and that it implements OpcCommands.  What the client sent is   *)
(* defined by recursion on the number of commands, and what is needed of it*)
(* is proved by induction on that number.                                  *)
(***************************************************************************)
EXTENDS OpcTcp, SequenceTheorems, WellFoundedInduction, TLAPS

(* A cell of whatever command.                                             *)
Cell == [cmd : Nat, at : Nat]

-----------------------------------------------------------------------------
(* Induction on the natural numbers, for a set.                            *)
LEMMA Induction ==
  ASSUME NEW S, 0 \in S, \A n \in Nat : n \in S => n + 1 \in S
  PROVE  \A n \in Nat : n \in S
<1> SUFFICES ASSUME NEW bad \in Nat, bad \notin S PROVE FALSE
  OBVIOUS
<1> DEFINE T == Nat \ S
<1>1. PICK n \in T : \A m \in T : ~(<<m, n>> \in OpToRel(<, Nat))
  <2>1. T \subseteq Nat /\ T # {}
    OBVIOUS
  <2> HIDE DEF T
  <2> QED
    BY <2>1, NatLessThanWellFounded, WFMin
<1>2. \A m \in T : ~(m < n)
  BY <1>1 DEF OpToRel
<1>3. n \in Nat /\ n # 0 /\ n \notin S
  OBVIOUS
<1>4. n - 1 \in Nat /\ n - 1 < n /\ (n - 1) + 1 = n
  BY <1>3
<1>5. n - 1 \in S
  BY <1>2, <1>4
<1> QED
  BY <1>3, <1>4, <1>5

(* A function is defined by its first value and by a step to each other.   *)
Unfolds(g, last, S, first, step) ==
  /\ g \in [0 .. last -> S]
  /\ g[0] = first
  /\ \A i \in 1 .. last : g[i] = step[<<i, g[i - 1]>>]

LEMMA Recursion ==
  ASSUME NEW last \in Nat, NEW S, NEW first \in S, NEW step \in [(1 .. last) \X S -> S]
  PROVE  \E g : Unfolds(g, last, S, first, step)
<1> DEFINE T == {n \in Nat : n <= last => \E g : Unfolds(g, n, S, first, step)}
<1>1. 0 \in T
  <2>1. Unfolds([i \in 0 .. 0 |-> first], 0, S, first, step)
    BY DEF Unfolds
  <2> QED
    BY <2>1
<1>2. ASSUME NEW n \in Nat, n \in T
      PROVE  n + 1 \in T
  <2> SUFFICES ASSUME n + 1 <= last
               PROVE  \E g : Unfolds(g, n + 1, S, first, step)
    BY <1>2
  <2>1. PICK g : /\ g \in [0 .. n -> S]
                 /\ g[0] = first
                 /\ \A i \in 1 .. n : g[i] = step[<<i, g[i - 1]>>]
    BY <1>2 DEF Unfolds
  <2> DEFINE h == [i \in 0 .. n + 1 |-> IF i = n + 1 THEN step[<<n + 1, g[n]>>] ELSE g[i]]
  <2>2. step[<<n + 1, g[n]>>] \in S
    <3>1. g[n] \in S /\ n + 1 \in 1 .. last
      BY <2>1
    <3> QED
      BY <3>1
  <2>3. h \in [0 .. n + 1 -> S]
    <3>1. ASSUME NEW i \in 0 .. n + 1, i # n + 1
          PROVE  g[i] \in S
      BY <2>1, <3>1
    <3> QED
      BY <2>2, <3>1
  <2>4. h[0] = first
    BY <2>1
  <2>5. ASSUME NEW i \in 1 .. n + 1
        PROVE  h[i] = step[<<i, h[i - 1]>>]
    <3>1. CASE i = n + 1
      <4>1. n + 1 \in 0 .. n + 1 /\ n \in 0 .. n + 1 /\ n # n + 1 /\ (n + 1) - 1 = n
        OBVIOUS
      <4>2. h[n + 1] = step[<<n + 1, g[n]>>] /\ h[n] = g[n]
        BY <4>1
      <4> QED
        BY <3>1, <4>1, <4>2
    <3>2. CASE i # n + 1
      <4>1. i \in 1 .. n /\ i - 1 \in 0 .. n /\ i \in 0 .. n + 1 /\ i - 1 \in 0 .. n + 1
        BY <3>2
      <4>2. h[i] = g[i] /\ h[i - 1] = g[i - 1]
        BY <3>2, <4>1
      <4> QED
        BY <2>1, <4>1, <4>2
    <3> QED
      BY <3>1, <3>2
  <2> HIDE DEF h
  <2>6. Unfolds(h, n + 1, S, first, step)
    BY <2>3, <2>4, <2>5 DEF Unfolds
  <2> QED
    BY <2>6
<1>3. last \in T
  <2> HIDE DEF T
  <2> QED
    BY <1>1, <1>2, Induction
<1> QED
  BY <1>3

-----------------------------------------------------------------------------
(* Two streams that are the same, cut at two places.                       *)
SameStream(io, rest, first, tail) == io \o rest = first \o tail

LEMMA CutElsewhere ==
  ASSUME NEW S, NEW s \in Seq(S), NEW t \in Seq(S), NEW u \in Seq(S)
  PROVE  SameStream(s \o t, u, s, t \o u)
<1>1. (s \o t) \o u = s \o (t \o u)
  BY SMT
<1> QED
  BY <1>1 DEF SameStream

LEMMA SameStart ==
  ASSUME NEW S, NEW s \in Seq(S), NEW t \in Seq(S), NEW u \in Seq(S),
         SameStream(s, t, s, u)
  PROVE  t = u
<1>1. s \o t = s \o u
  BY DEF SameStream
<1> QED
  BY <1>1, ConcatSimplifications

-----------------------------------------------------------------------------
LEMMA BytesOf ==
  ASSUME NEW i \in Nat, NEW len \in Lengths
  PROVE  /\ Bytes(i, len) \in Seq(Cell)
         /\ Len(Bytes(i, len)) = HeaderSize + len
         /\ Bytes(i, len)[1] = [cmd |-> i, at |-> 1]
         /\ \A j \in 1 .. HeaderSize + len : Bytes(i, len)[j] = [cmd |-> i, at |-> j]
<1>1. HeaderSize + len \in Nat \ {0}
  BY OpcAssumption
<1>2. Bytes(i, len) \in [1 .. HeaderSize + len -> Cell]
  BY <1>1 DEF Bytes, Cell
<1>3. Bytes(i, len) \in Seq(Cell)
  BY <1>1, <1>2, SeqDef
<1>4. Len(Bytes(i, len)) = HeaderSize + len
  BY <1>1, <1>2, <1>3, LenProperties
<1>5. 1 \in 1 .. HeaderSize + len
  BY <1>1
<1> QED
  BY <1>3, <1>4, <1>5 DEF Bytes

(* The stream of so many commands is that of one less and the bytes of the *)
(* last.                                                                   *)
LEMMA StreamSteps ==
  ASSUME NEW commands \in Seq(Commands)
  PROVE  /\ Stream(commands) \in [0 .. Len(commands) -> Seq(Cell)]
         /\ Stream(commands)[0] = <<>>
         /\ \A i \in 1 .. Len(commands) :
              Stream(commands)[i] = Stream(commands)[i - 1] \o Bytes(i, commands[i].len)
<1> DEFINE n == Len(commands)
           step == [p \in (1 .. n) \X Seq(Cell) |-> p[2] \o Bytes(p[1], commands[p[1]].len)]
           Is(g) == g = [i \in 0 .. n |->
                          IF i = 0 THEN <<>> ELSE g[i - 1] \o Bytes(i, commands[i].len)]
<1>1. n \in Nat /\ <<>> \in Seq(Cell)
  BY LenProperties, EmptySeq
<1>2. ASSUME NEW i \in 1 .. n, NEW s \in Seq(Cell)
      PROVE  s \o Bytes(i, commands[i].len) \in Seq(Cell)
  <2>1. commands[i].len \in Lengths /\ i \in Nat
    <3>1. commands[i] \in Commands
      BY ElementOfSeq
    <3> QED
      BY <1>1, <3>1 DEF Commands
  <2>2. Bytes(i, commands[i].len) \in Seq(Cell)
    BY <2>1, BytesOf
  <2> QED
    BY <2>2, ConcatProperties
<1>3. step \in [(1 .. n) \X Seq(Cell) -> Seq(Cell)]
  BY <1>2
<1>4. \A i \in 1 .. n, s \in Seq(Cell) : step[<<i, s>>] = s \o Bytes(i, commands[i].len)
  OBVIOUS
<1> HIDE DEF step
<1>5. PICK g \in [0 .. n -> Seq(Cell)] :
        g[0] = <<>> /\ \A i \in 1 .. n : g[i] = step[<<i, g[i - 1]>>]
  <2> HIDE DEF n
  <2>1. \E g : Unfolds(g, n, Seq(Cell), <<>>, step)
    BY <1>1, <1>3, Recursion
  <2> QED
    BY <2>1 DEF Unfolds
<1>6. ASSUME NEW i \in 0 .. n, i # 0
      PROVE  g[i] = g[i - 1] \o Bytes(i, commands[i].len)
  <2>1. i \in 1 .. n /\ i - 1 \in 0 .. n
    BY <1>1, <1>6
  <2> QED
    BY <1>4, <1>5, <2>1
<1>7. Is(g)
  BY <1>5, <1>6
<1>8. Stream(commands) = CHOOSE f : Is(f)
  BY DEF Stream
<1>9. Is(Stream(commands))
  <2> HIDE DEF Is
  <2> QED
    BY <1>7, <1>8
<1>10. Stream(commands)[0] = <<>>
  BY <1>1, <1>9
<1>11. ASSUME NEW i \in 1 .. n
       PROVE  Stream(commands)[i] = Stream(commands)[i - 1] \o Bytes(i, commands[i].len)
  <2>1. i \in 0 .. n /\ i # 0
    BY <1>1
  <2> HIDE DEF n
  <2> QED
    BY <1>9, <2>1
<1> DEFINE T == {i \in Nat : i <= n => Stream(commands)[i] \in Seq(Cell)}
<1>12. 0 \in T
  BY <1>1, <1>10
<1>13. ASSUME NEW i \in Nat, i \in T
       PROVE  i + 1 \in T
  <2> SUFFICES ASSUME i + 1 <= n PROVE Stream(commands)[i + 1] \in Seq(Cell)
    BY <1>13
  <2>1. i + 1 \in 1 .. n /\ (i + 1) - 1 = i /\ Stream(commands)[i] \in Seq(Cell)
    BY <1>1, <1>13
  <2>2. Stream(commands)[i + 1] = Stream(commands)[i] \o Bytes(i + 1, commands[i + 1].len)
    BY <1>11, <2>1
  <2> QED
    BY <1>2, <2>1, <2>2
<1>14. \A i \in Nat : i \in T
  <2> HIDE DEF T
  <2> QED
    BY <1>12, <1>13, Induction
<1>15. Stream(commands) \in [0 .. n -> Seq(Cell)]
  <2>1. DOMAIN Stream(commands) = 0 .. n
    BY <1>9
  <2>2. Stream(commands) = [i \in 0 .. n |-> Stream(commands)[i]]
    BY <1>9
  <2> QED
    BY <1>1, <1>14, <2>2
<1> QED
  BY <1>10, <1>11, <1>15

(* The pixel commands of so many are those of one less and maybe the last. *)
LEMMA PixelCommandsSteps ==
  ASSUME NEW commands \in Seq(Commands)
  PROVE  /\ PixelCommands(commands) \in [0 .. Len(commands) -> Seq(Nat)]
         /\ PixelCommands(commands)[0] = <<>>
         /\ \A i \in 1 .. Len(commands) :
              PixelCommands(commands)[i] =
                IF commands[i].kind = "pixels" THEN Append(PixelCommands(commands)[i - 1], i)
                ELSE PixelCommands(commands)[i - 1]
<1> DEFINE n == Len(commands)
           With(i, s) == IF commands[i].kind = "pixels" THEN Append(s, i) ELSE s
           step == [p \in (1 .. n) \X Seq(Nat) |-> With(p[1], p[2])]
           Is(g) == g = [i \in 0 .. n |-> IF i = 0 THEN <<>> ELSE With(i, g[i - 1])]
<1>1. n \in Nat /\ <<>> \in Seq(Nat)
  BY LenProperties, EmptySeq
<1>2. ASSUME NEW i \in 1 .. n, NEW s \in Seq(Nat)
      PROVE  With(i, s) \in Seq(Nat)
  <2>1. i \in Nat
    BY <1>1
  <2>2. Append(s, i) \in Seq(Nat)
    BY <2>1, AppendProperties
  <2> QED
    BY <2>2
<1>3. PixelCommands(commands) = CHOOSE f : Is(f)
  BY DEF PixelCommands
<1> HIDE DEF With
<1>4. step \in [(1 .. n) \X Seq(Nat) -> Seq(Nat)]
  BY <1>2
<1>5. \A i \in 1 .. n, s \in Seq(Nat) : step[<<i, s>>] = With(i, s)
  OBVIOUS
<1> HIDE DEF step
<1>6. PICK g : /\ g \in [0 .. n -> Seq(Nat)]
               /\ g[0] = <<>>
               /\ \A i \in 1 .. n : g[i] = step[<<i, g[i - 1]>>]
  <2> HIDE DEF n
  <2>1. \E g : Unfolds(g, n, Seq(Nat), <<>>, step)
    BY <1>1, <1>4, Recursion
  <2> QED
    BY <2>1 DEF Unfolds
<1>7. ASSUME NEW i \in 0 .. n, i # 0
      PROVE  g[i] = With(i, g[i - 1])
  <2>1. i \in 1 .. n /\ i - 1 \in 0 .. n
    BY <1>1, <1>7
  <2> QED
    BY <1>5, <1>6, <2>1
<1>8. Is(g)
  BY <1>6, <1>7
<1>9. Is(PixelCommands(commands))
  <2> HIDE DEF Is
  <2> QED
    BY <1>3, <1>8
<1>10. PixelCommands(commands)[0] = <<>>
  BY <1>1, <1>9
<1>11. ASSUME NEW i \in 1 .. n
       PROVE  PixelCommands(commands)[i] = With(i, PixelCommands(commands)[i - 1])
  <2>1. i \in 0 .. n /\ i # 0
    BY <1>1
  <2> HIDE DEF n
  <2> QED
    BY <1>9, <2>1
<1> DEFINE T == {i \in Nat : i <= n => PixelCommands(commands)[i] \in Seq(Nat)}
<1>12. 0 \in T
  BY <1>1, <1>10
<1>13. ASSUME NEW i \in Nat, i \in T
       PROVE  i + 1 \in T
  <2> SUFFICES ASSUME i + 1 <= n PROVE PixelCommands(commands)[i + 1] \in Seq(Nat)
    BY <1>13
  <2>1. i + 1 \in 1 .. n /\ (i + 1) - 1 = i /\ PixelCommands(commands)[i] \in Seq(Nat)
    BY <1>1, <1>13
  <2>2. PixelCommands(commands)[i + 1] = With(i + 1, PixelCommands(commands)[i])
    BY <1>11, <2>1
  <2> QED
    BY <1>2, <2>1, <2>2
<1>14. \A i \in Nat : i \in T
  <2> HIDE DEF T
  <2> QED
    BY <1>12, <1>13, Induction
<1>15. PixelCommands(commands) \in [0 .. n -> Seq(Nat)]
  <2>1. PixelCommands(commands) = [i \in 0 .. n |-> PixelCommands(commands)[i]]
    BY <1>9
  <2> QED
    BY <1>1, <1>14, <2>1
<1> QED
  BY <1>10, <1>11, <1>15 DEF With

(* The stream begins with the bytes of the first commands.                 *)
LEMMA StreamBegins ==
  ASSUME NEW commands \in Seq(Commands), NEW k \in 0 .. Len(commands)
  PROVE  \A n \in k .. Len(commands) :
           \E rest \in Seq(Cell) : Stream(commands)[n] = Stream(commands)[k] \o rest
<1> DEFINE Begins(n) == \E rest \in Seq(Cell) : Stream(commands)[n] = Stream(commands)[k] \o rest
           T == {d \in Nat : k + d <= Len(commands) => Begins(k + d)}
<1>1. Len(commands) \in Nat /\ k \in Nat
  BY LenProperties
<1>2. \A i \in 0 .. Len(commands) : Stream(commands)[i] \in Seq(Cell)
  BY StreamSteps
<1>3. 0 \in T
  <2>1. <<>> \in Seq(Cell) /\ k + 0 = k
    BY <1>1, EmptySeq
  <2>2. Stream(commands)[k] = Stream(commands)[k] \o <<>>
    BY <1>2, ConcatEmptySeq
  <2> QED
    BY <2>1, <2>2
<1>4. ASSUME NEW d \in Nat, d \in T
      PROVE  d + 1 \in T
  <2> SUFFICES ASSUME k + (d + 1) <= Len(commands)
               PROVE  Begins(k + (d + 1))
    <3> HIDE DEF Begins
    <3> QED
      OBVIOUS
  <2> DEFINE i == k + d
             next == Bytes(i + 1, commands[i + 1].len)
  <2>1. i \in 0 .. Len(commands) /\ i + 1 \in 1 .. Len(commands) /\ k + (d + 1) = i + 1
        /\ (i + 1) - 1 = i /\ i + 1 \in Nat
    BY <1>1
  <2>2. PICK rest \in Seq(Cell) : Stream(commands)[i] = Stream(commands)[k] \o rest
    BY <1>1, <1>4
  <2> HIDE DEF i
  <2>3. Stream(commands)[i + 1] = Stream(commands)[i] \o next
    BY <2>1, StreamSteps
  <2>4. next \in Seq(Cell)
    <3>1. commands[i + 1] \in Commands
      BY <2>1, ElementOfSeq
    <3>2. commands[i + 1].len \in Lengths
      BY <3>1 DEF Commands
    <3> QED
      BY <2>1, <3>2, BytesOf
  <2> HIDE DEF next
  <2>5. rest \o next \in Seq(Cell)
    BY <2>4, ConcatProperties
  <2>6. (Stream(commands)[k] \o rest) \o next = Stream(commands)[k] \o (rest \o next)
    <3> DEFINE head == Stream(commands)[k]
    <3>1. head \in Seq(Cell) /\ rest \in Seq(Cell)
      BY <1>2
    <3> HIDE DEF head
    <3>2. SameStream(head \o rest, next, head, rest \o next)
      BY <2>4, <3>1, CutElsewhere
    <3> QED
      BY <3>2 DEF head, SameStream
  <2> QED
    BY <2>1, <2>2, <2>3, <2>5, <2>6
<1>5. \A d \in Nat : d \in T
  <2> HIDE DEF T
  <2> QED
    BY <1>3, <1>4, Induction
<1> SUFFICES ASSUME NEW n \in k .. Len(commands)
             PROVE  Begins(n)
  OBVIOUS
<1>6. n - k \in Nat /\ k + (n - k) = n /\ n <= Len(commands)
  BY <1>1
<1> QED
  BY <1>5, <1>6

(* Another command changes nothing of the stream of those before it.       *)
LEMMA AnotherCommand ==
  ASSUME NEW commands \in Seq(Commands), NEW command \in Commands
  PROVE  /\ Append(commands, command) \in Seq(Commands)
         /\ Len(Append(commands, command)) = Len(commands) + 1
         /\ \A i \in 0 .. Len(commands) :
              /\ Stream(Append(commands, command))[i] = Stream(commands)[i]
              /\ PixelCommands(Append(commands, command))[i] = PixelCommands(commands)[i]
         /\ Stream(Append(commands, command))[Len(commands) + 1] =
              Stream(commands)[Len(commands)] \o Bytes(Len(commands) + 1, command.len)
<1> DEFINE more == Append(commands, command)
           Same(i) == /\ Stream(more)[i] = Stream(commands)[i]
                      /\ PixelCommands(more)[i] = PixelCommands(commands)[i]
           T == {i \in Nat : i <= Len(commands) => Same(i)}
<1>1. /\ Len(commands) \in Nat
      /\ more \in Seq(Commands) /\ Len(more) = Len(commands) + 1
      /\ \A i \in 1 .. Len(commands) : more[i] = commands[i]
      /\ more[Len(commands) + 1] = command
  BY LenProperties, AppendProperties
<1> HIDE DEF more
<1>2. 0 \in T
  BY <1>1, StreamSteps, PixelCommandsSteps
<1>3. ASSUME NEW i \in Nat, i \in T
      PROVE  i + 1 \in T
  <2> SUFFICES ASSUME i + 1 <= Len(commands) PROVE Same(i + 1)
    BY <1>3
  <2>1. /\ i + 1 \in 1 .. Len(commands) /\ i + 1 \in 1 .. Len(more) /\ (i + 1) - 1 = i
        /\ more[i + 1] = commands[i + 1] /\ Same(i)
    BY <1>1, <1>3
  <2>2. Stream(more)[i + 1] = Stream(commands)[i + 1]
    <3>1. Stream(more)[i + 1] = Stream(more)[i] \o Bytes(i + 1, more[i + 1].len)
      BY <1>1, <2>1, StreamSteps
    <3>2. Stream(commands)[i + 1] = Stream(commands)[i] \o Bytes(i + 1, commands[i + 1].len)
      BY <2>1, StreamSteps
    <3> QED
      BY <2>1, <3>1, <3>2
  <2>3. PixelCommands(more)[i + 1] = PixelCommands(commands)[i + 1]
    <3>1. PixelCommands(more)[i + 1] =
            IF more[i + 1].kind = "pixels" THEN Append(PixelCommands(more)[i], i + 1)
            ELSE PixelCommands(more)[i]
      BY <1>1, <2>1, PixelCommandsSteps
    <3>2. PixelCommands(commands)[i + 1] =
            IF commands[i + 1].kind = "pixels" THEN Append(PixelCommands(commands)[i], i + 1)
            ELSE PixelCommands(commands)[i]
      BY <2>1, PixelCommandsSteps
    <3> QED
      BY <2>1, <3>1, <3>2
  <2> QED
    BY <2>2, <2>3
<1>4. \A i \in Nat : i \in T
  <2> HIDE DEF T
  <2> QED
    BY <1>2, <1>3, Induction
<1>5. \A i \in 0 .. Len(commands) : Same(i)
  BY <1>1, <1>4
<1>6. Stream(more)[Len(commands) + 1] =
        Stream(commands)[Len(commands)] \o Bytes(Len(commands) + 1, command.len)
  <2>1. Len(commands) + 1 \in 1 .. Len(more) /\ (Len(commands) + 1) - 1 = Len(commands)
        /\ Len(commands) \in 0 .. Len(commands)
    BY <1>1
  <2>2. Stream(more)[Len(commands) + 1] =
          Stream(more)[Len(commands)] \o Bytes(Len(commands) + 1, more[Len(commands) + 1].len)
    BY <1>1, <2>1, StreamSteps
  <2> QED
    BY <1>1, <1>5, <2>1, <2>2
<1> QED
  BY <1>1, <1>5, <1>6 DEF more

-----------------------------------------------------------------------------
(* The i-th of the elements of one sequence and then of another.           *)
InTwo(front, back, i) == IF i <= Len(front) THEN front[i] ELSE back[i - Len(front)]

(* Bytes that move from the wire to the buffer stay in their order.        *)
LEMMA MovedBytes ==
  ASSUME NEW S, NEW buffer \in Seq(S), NEW w \in Seq(S), NEW n \in 1 .. Len(w)
  PROVE  LET io == iobuf_append(buffer, SubSeq(w, 1, n))
             rest == SubSeq(w, n + 1, Len(w))
         IN  /\ io \in Seq(S) /\ rest \in Seq(S)
             /\ Len(io) = Len(buffer) + n
             /\ SameStream(io, rest, buffer, w)
<1> DEFINE moved == SubSeq(w, 1, n)
           rest == SubSeq(w, n + 1, Len(w))
<1>1. Len(w) \in Nat /\ n \in Nat /\ n <= Len(w) /\ Len(buffer) \in Nat
  BY LenProperties
<1>2. moved \in Seq(S) /\ rest \in Seq(S) /\ Len(moved) = n /\ Len(rest) = Len(w) - n
  BY <1>1
<1>3. moved \o rest = w
  <2>1. moved \o rest \in Seq(S) /\ Len(moved \o rest) = Len(w)
    BY <1>1, <1>2, ConcatProperties
  <2>2. ASSUME NEW i \in 1 .. Len(w)
        PROVE  (moved \o rest)[i] = w[i]
    BY <1>1, <1>2
  <2> QED
    BY <2>1, <2>2, SeqEqual
<1> HIDE DEF moved, rest
<1>4. SameStream(buffer \o moved, rest, buffer, moved \o rest)
  BY <1>2, CutElsewhere
<1>5. buffer \o moved \in Seq(S) /\ Len(buffer \o moved) = Len(buffer) + n
  BY <1>2, ConcatProperties
<1> QED
  BY <1>2, <1>3, <1>4, <1>5 DEF moved, rest, iobuf_append, SameStream

LEMMA SameCells ==
  ASSUME NEW S, NEW io \in Seq(S), NEW rest \in Seq(S),
         NEW first \in Seq(S), NEW tail \in Seq(S),
         SameStream(io, rest, first, tail), NEW i \in 1 .. Len(io) + Len(rest)
  PROVE  InTwo(io, rest, i) = InTwo(first, tail, i)
<1>1. /\ Len(io) \in Nat /\ Len(rest) \in Nat /\ Len(first) \in Nat /\ Len(tail) \in Nat
      /\ Len(io) + Len(rest) = Len(first) + Len(tail)
  BY LenProperties, ConcatProperties DEF SameStream
<1>2. (io \o rest)[i] = InTwo(io, rest, i)
  BY ConcatProperties DEF InTwo
<1>3. (io \o rest)[i] = InTwo(first, tail, i)
  BY <1>1, ConcatProperties DEF InTwo, SameStream
<1> QED
  BY <1>2, <1>3

(* The buffer begins as the command at the start of the stream.            *)
LEMMA FirstCell ==
  ASSUME NEW S, NEW io \in Seq(S), NEW rest \in Seq(S),
         NEW first \in Seq(S), NEW tail \in Seq(S),
         SameStream(io, rest, first, tail), Len(io) >= 1, Len(first) >= 1
  PROVE  io[1] = first[1]
<1>1. Len(io) \in Nat /\ Len(rest) \in Nat /\ Len(first) \in Nat
  BY LenProperties
<1>2. 1 \in 1 .. Len(io) + Len(rest)
  BY <1>1
<1>3. InTwo(io, rest, 1) = InTwo(first, tail, 1)
  BY <1>2, SameCells
<1> QED
  BY <1>3 DEF InTwo

(* A command that is whole in the buffer, and what is left without it.     *)
LEMMA FirstRemoved ==
  ASSUME NEW S, NEW io \in Seq(S), NEW rest \in Seq(S),
         NEW first \in Seq(S), NEW tail \in Seq(S),
         SameStream(io, rest, first, tail), Len(first) <= Len(io)
  PROVE  iobuf_remove(io, Len(first)) \o rest = tail
<1>1. /\ Len(io) \in Nat /\ Len(rest) \in Nat /\ Len(first) \in Nat /\ Len(tail) \in Nat
      /\ Len(io) + Len(rest) = Len(first) + Len(tail)
  BY LenProperties, ConcatProperties DEF SameStream
<1>2. \A i \in 1 .. Len(io) + Len(rest) : InTwo(io, rest, i) = InTwo(first, tail, i)
  BY SameCells
<1> DEFINE kept == iobuf_remove(io, Len(first))
<1>3. /\ kept \in Seq(S) /\ Len(kept) = Len(io) - Len(first)
      /\ \A i \in 1 .. Len(io) - Len(first) : kept[i] = io[Len(first) + i]
  BY <1>1 DEF iobuf_remove
<1> HIDE DEF kept
<1>4. /\ kept \o rest \in Seq(S) /\ Len(kept \o rest) = Len(tail)
      /\ \A i \in 1 .. Len(tail) :
           (kept \o rest)[i] = IF i <= Len(kept) THEN kept[i] ELSE rest[i - Len(kept)]
  <2>1. Len(kept) + Len(rest) = Len(tail)
    BY <1>1, <1>3
  <2>2. kept \o rest \in Seq(S) /\ Len(kept \o rest) = Len(kept) + Len(rest)
    BY <1>3, ConcatProperties
  <2>3. \A i \in 1 .. Len(kept) + Len(rest) :
          (kept \o rest)[i] = IF i <= Len(kept) THEN kept[i] ELSE rest[i - Len(kept)]
    BY <1>3, ConcatProperties
  <2> QED
    BY <2>1, <2>2, <2>3
<1>5. ASSUME NEW i \in 1 .. Len(tail)
      PROVE  (kept \o rest)[i] = tail[i]
  <2> DEFINE j == Len(first) + i
  <2>1. j \in 1 .. Len(io) + Len(rest) /\ ~(j <= Len(first)) /\ j - Len(first) = i
    BY <1>1
  <2>2. (IF j <= Len(io) THEN io[j] ELSE rest[j - Len(io)]) = tail[i]
    BY <1>2, <2>1 DEF InTwo
  <2>3. CASE j <= Len(io)
    <3>1. i \in 1 .. Len(io) - Len(first) /\ i <= Len(kept)
      BY <1>1, <1>3, <2>3
    <3> QED
      BY <1>3, <1>4, <2>2, <2>3, <3>1
  <2>4. CASE ~(j <= Len(io))
    <3>1. ~(i <= Len(kept)) /\ i - Len(kept) = j - Len(io)
      BY <1>1, <1>3, <2>4
    <3> QED
      BY <1>4, <2>2, <2>4, <3>1
  <2> QED
    BY <2>3, <2>4
<1>6. kept \o rest = tail
  BY <1>4, <1>5, SeqEqual
<1> QED
  BY <1>6 DEF kept

-----------------------------------------------------------------------------
IInv ==
  /\ TypeOK
  /\ ~cleared => handled <= Len(sent)
  /\ StreamIntact
  /\ FramesInOrder

LEMMA CellsAreCells ==
  ASSUME TypeOK
  PROVE  /\ Len(sent) \in Nat
         /\ Cells \subseteq Cell
         /\ \A s \in Seq(Cells) : s \in Seq(Cell)
<1>1. Len(sent) \in Nat /\ BufLimit \in Nat
  BY OpcAssumption, LenProperties DEF TypeOK
<1>2. Cells \subseteq Cell
  BY <1>1 DEF Cells, Cell
<1> QED
  BY <1>1, <1>2, SeqMonotonic

(* The stream from the command after those handled: nothing is left of it  *)
(* when all are handled, else it begins with the bytes of that command.    *)
LEMMA NextInStream ==
  ASSUME TypeOK, handled <= Len(sent), NEW io \in Seq(Cell), NEW rest \in Seq(Cell), io # <<>>,
         Stream(sent)[handled] \o (io \o rest) = Stream(sent)[Len(sent)]
  PROVE  /\ handled + 1 \in 1 .. Len(sent)
         /\ sent[handled + 1] \in Commands
         /\ LET first == Bytes(handled + 1, sent[handled + 1].len)
            IN  /\ Stream(sent)[handled + 1] = Stream(sent)[handled] \o first
                /\ \E tail \in Seq(Cell) :
                     /\ io \o rest = first \o tail
                     /\ Stream(sent)[handled + 1] \o tail = Stream(sent)[Len(sent)]
<1>1. sent \in Seq(Commands) /\ Len(sent) \in Nat /\ handled \in 0 .. Len(sent)
  BY LenProperties DEF TypeOK
<1>2. \A i \in 0 .. Len(sent) : Stream(sent)[i] \in Seq(Cell)
  BY <1>1, StreamSteps
<1>3. io \o rest \in Seq(Cell) /\ io \o rest # <<>>
  <2>1. io \o rest = <<>> => io = <<>>
    BY ConcatSimplifications
  <2> QED
    BY <2>1, ConcatProperties
<1>4. Stream(sent)[handled] \in Seq(Cell)
  BY <1>1, <1>2
<1>5. handled # Len(sent)
  <2> SUFFICES ASSUME handled = Len(sent) PROVE FALSE
    OBVIOUS
  <2>1. Stream(sent)[handled] \o (io \o rest) = Stream(sent)[handled]
    OBVIOUS
  <2> QED
    BY <1>3, <1>4, <2>1, ConcatSimplifications
<1>6. handled + 1 \in 1 .. Len(sent) /\ handled + 1 \in 0 .. Len(sent)
      /\ (handled + 1) - 1 = handled /\ handled + 1 \in Nat
      /\ Len(sent) \in handled + 1 .. Len(sent)
  BY <1>1, <1>5
<1>7. sent[handled + 1] \in Commands
  BY <1>1, <1>6, ElementOfSeq
<1> DEFINE first == Bytes(handled + 1, sent[handled + 1].len)
<1>8. first \in Seq(Cell)
  <2>1. sent[handled + 1].len \in Lengths
    BY <1>7 DEF Commands
  <2> QED
    BY <1>6, <2>1, BytesOf
<1>9. Stream(sent)[handled + 1] = Stream(sent)[handled] \o first
  <2>1. Stream(sent)[handled + 1]
          = Stream(sent)[(handled + 1) - 1] \o Bytes(handled + 1, sent[handled + 1].len)
    BY <1>1, <1>6, StreamSteps
  <2> QED
    BY <1>6, <2>1
<1>10. PICK tail \in Seq(Cell) : Stream(sent)[Len(sent)] = Stream(sent)[handled + 1] \o tail
  BY <1>1, <1>6, StreamBegins
<1> HIDE DEF first
<1>11. io \o rest = first \o tail
  <2> DEFINE before == Stream(sent)[handled]
             left == io \o rest
  <2>1. before \o left = (before \o first) \o tail
    BY <1>9, <1>10
  <2>2. before \in Seq(Cell) /\ left \in Seq(Cell)
    BY <1>3, <1>4
  <2> HIDE DEF before, left
  <2>3. SameStream(before \o first, tail, before, first \o tail)
    BY <1>8, <2>2, CutElsewhere
  <2>4. first \o tail \in Seq(Cell)
    BY <1>8, ConcatProperties
  <2>5. SameStream(before, left, before, first \o tail)
    BY <2>1, <2>3 DEF SameStream
  <2>6. left = first \o tail
    BY <2>2, <2>4, <2>5, SameStart
  <2> QED
    BY <2>6 DEF left
<1> QED
  BY <1>6, <1>7, <1>9, <1>10, <1>11 DEF first

(* What is left of the buffer, before it may be cleared.                   *)
Keeps(io, kept) ==
  \/ kept = io /\ UNCHANGED <<frames, send_iobuf, handled>>
  \/ /\ Len(io) >= HeaderSize
     /\ \E header \in Headers(io) :
          /\ Complete(io, header) /\ Handle(header)
          /\ kept = iobuf_remove(io, HeaderSize + header.len)

LEMMA HandlerKeeps ==
  ASSUME NEW io, EventHandler(io)
  PROVE  \E kept : /\ Keeps(io, kept)
                   /\ recv_iobuf' = Fallback(kept)
                   /\ cleared' = (cleared \/ Fallback(kept) # kept)
<1>1. CASE /\ recv_iobuf' = Fallback(io)
           /\ cleared' = (cleared \/ Fallback(io) # io)
           /\ UNCHANGED <<frames, send_iobuf, handled>>
  BY <1>1 DEF Keeps
<1>2. ASSUME Len(io) >= HeaderSize, NEW header \in Headers(io),
             Complete(io, header), Handle(header),
             LET rest == iobuf_remove(io, HeaderSize + header.len)
             IN  /\ recv_iobuf' = Fallback(rest)
                 /\ cleared' = (cleared \/ Fallback(rest) # rest)
      PROVE  \E kept : /\ Keeps(io, kept)
                       /\ recv_iobuf' = Fallback(kept)
                       /\ cleared' = (cleared \/ Fallback(kept) # kept)
  BY <1>2 DEF Keeps
<1> QED
  BY <1>1, <1>2 DEF EventHandler

(* Whatever the header is read from, the step leaves the types alone.      *)
LEMMA KeepsTypes ==
  ASSUME TypeOK, NEW io \in Seq(Cells), NEW kept, Keeps(io, kept)
  PROVE  /\ kept \in Seq(Cells)
         /\ frames' \in Seq(Garbage .. MaxSent) /\ send_iobuf' \in Nat /\ handled' \in Nat
<1>1. /\ HeaderSize \in Nat \ {0} /\ Lengths \subseteq Nat /\ MaxSent \in Nat
      /\ Len(sent) \in Nat /\ Len(sent) <= MaxSent /\ Len(io) \in Nat
  BY OpcAssumption, LenProperties DEF TypeOK
<1>2. CASE kept = io /\ UNCHANGED <<frames, send_iobuf, handled>>
  BY <1>2 DEF TypeOK
<1>3. ASSUME Len(io) >= HeaderSize, NEW header \in Headers(io),
             Complete(io, header), Handle(header),
             kept = iobuf_remove(io, HeaderSize + header.len)
      PROVE  /\ kept \in Seq(Cells)
             /\ frames' \in Seq(Garbage .. MaxSent) /\ send_iobuf' \in Nat /\ handled' \in Nat
  <2>1. io[1] \in Cells
    BY <1>1, <1>3, ElementOfSeq
  <2>2. io[1].cmd \in 1 .. Len(sent)
    BY <2>1 DEF Cells
  <2>3. sent[io[1].cmd] \in Commands
    BY <2>2, ElementOfSeq DEF TypeOK
  <2>4. header.cmd \in Garbage .. MaxSent /\ header.len \in Lengths
    <3>1. CASE io[1].at = 1
      BY <1>1, <1>3, <2>2, <2>3, <3>1 DEF Headers, Commands, Garbage
    <3>2. CASE io[1].at # 1
      BY <1>1, <1>3, <3>2 DEF Headers, Garbage
    <3> QED
      BY <3>1, <3>2
  <2>5. kept \in Seq(Cells)
    <3>1. HeaderSize + header.len \in Nat /\ HeaderSize + header.len <= Len(io)
      <4>1. header.len \in Nat
        BY <1>1, <2>4
      <4> QED
        BY <1>1, <1>3, <4>1 DEF Complete
    <3> QED
      BY <1>1, <1>3, <3>1 DEF iobuf_remove
  <2>6. frames' \in Seq(Garbage .. MaxSent)
    BY <1>3, <2>4, AppendProperties DEF Handle, TypeOK
  <2>7. send_iobuf' \in Nat /\ handled' \in Nat
    BY <1>3 DEF Handle, ns_send, TypeOK
  <2> QED
    BY <2>5, <2>6, <2>7
<1> QED
  BY <1>2, <1>3 DEF Keeps

(* The next command is carried out, and its bytes are taken off.           *)
CarriesOut(io, kept) ==
  LET command == sent[handled + 1]
  IN  /\ handled < Len(sent) /\ handled' = handled + 1
      /\ Len(kept) = Len(io) - (HeaderSize + command.len)
      /\ frames' = IF command.kind = "pixels" THEN Append(frames, handled + 1) ELSE frames
      /\ send_iobuf' = send_iobuf + (IF command.kind = "get_config" THEN 1 ELSE 0)

(* As long as nothing was thrown away, the step takes the next command.    *)
LEMMA KeepsStream ==
  ASSUME IInv, ~cleared, NEW io \in Seq(Cells), NEW rest \in Seq(Cells),
         Stream(sent)[handled] \o (io \o rest) = Stream(sent)[Len(sent)],
         NEW kept, Keeps(io, kept)
  PROVE  /\ handled' <= Len(sent)
         /\ Stream(sent)[handled'] \o (kept \o rest) = Stream(sent)[Len(sent)]
         /\ frames' = PixelCommands(sent)[handled']
         /\ \/ kept = io /\ UNCHANGED <<frames, send_iobuf, handled>>
            \/ CarriesOut(io, kept)
<1>1. TypeOK /\ handled <= Len(sent) /\ frames = PixelCommands(sent)[handled]
  BY DEF IInv, FramesInOrder
<1>2. CASE kept = io /\ UNCHANGED <<frames, send_iobuf, handled>>
  BY <1>1, <1>2
<1>3. ASSUME Len(io) >= HeaderSize, NEW header \in Headers(io),
             Complete(io, header), Handle(header),
             kept = iobuf_remove(io, HeaderSize + header.len)
      PROVE  /\ handled' <= Len(sent)
             /\ Stream(sent)[handled'] \o (kept \o rest) = Stream(sent)[Len(sent)]
             /\ frames' = PixelCommands(sent)[handled']
             /\ CarriesOut(io, kept)
  <2>1. /\ HeaderSize \in Nat \ {0} /\ io \in Seq(Cell) /\ rest \in Seq(Cell)
        /\ Len(io) \in Nat /\ io # <<>>
    <3>1. HeaderSize \in Nat \ {0} /\ Len(io) \in Nat
      BY OpcAssumption, LenProperties
    <3>2. io # <<>>
      BY <1>3, <3>1, EmptySeq
    <3> QED
      BY <1>1, <3>1, <3>2, CellsAreCells
  <2> DEFINE command == sent[handled + 1]
             first == Bytes(handled + 1, command.len)
  <2>2. handled + 1 \in 1 .. Len(sent) /\ command \in Commands
    BY <1>1, <2>1, NextInStream
  <2>3. PICK tail \in Seq(Cell) :
          /\ io \o rest = first \o tail
          /\ Stream(sent)[handled + 1] \o tail = Stream(sent)[Len(sent)]
    BY <1>1, <2>1, NextInStream
  <2>4. command.len \in Lengths /\ handled + 1 \in Nat
    BY <2>2 DEF Commands
  <2>5. /\ first \in Seq(Cell) /\ Len(first) = HeaderSize + command.len
        /\ first[1] = [cmd |-> handled + 1, at |-> 1] /\ first # <<>>
    <3>1. first \in Seq(Cell) /\ Len(first) = HeaderSize + command.len
          /\ first[1] = [cmd |-> handled + 1, at |-> 1]
      BY <2>4, BytesOf
    <3>2. HeaderSize + command.len # 0
      <4>1. command.len \in Nat /\ HeaderSize \in Nat \ {0}
        BY <2>4, OpcAssumption
      <4> QED
        BY <4>1
    <3> QED
      BY <3>1, <3>2, EmptySeq
  <2> HIDE DEF first
  <2>6. /\ io[1] = first[1]
        /\ Len(first) <= Len(io) => iobuf_remove(io, Len(first)) \o rest = tail
    <3>1. SameStream(io, rest, first, tail)
      BY <2>3 DEF SameStream
    <3>2. Len(io) >= 1 /\ Len(first) >= 1
      BY <2>1, <2>5, EmptySeq
    <3> HIDE DEF command
    <3>3. io[1] = first[1]
      BY <2>1, <2>5, <3>1, <3>2, FirstCell
    <3>4. ASSUME Len(first) <= Len(io)
          PROVE  iobuf_remove(io, Len(first)) \o rest = tail
      BY <2>1, <2>5, <3>1, <3>4, FirstRemoved
    <3> QED
      BY <3>3, <3>4
  <2>7. header.cmd = handled + 1 /\ header.kind = command.kind /\ header.len = command.len
    BY <1>3, <2>5, <2>6 DEF Headers
  <2>8. kept = iobuf_remove(io, Len(first)) /\ Len(first) <= Len(io)
    BY <1>3, <2>1, <2>5, <2>7 DEF Complete
  <2>9. kept \o rest = tail
    BY <2>6, <2>8
  <2>10. handled' = handled + 1
    BY <1>3 DEF Handle
  <2>11. frames' = PixelCommands(sent)[handled + 1]
    <3>1. (handled + 1) - 1 = handled
      BY <1>1 DEF TypeOK
    <3>2. frames' = IF command.kind = "pixels" THEN Append(frames, handled + 1) ELSE frames
      BY <1>3, <2>7 DEF Handle
    <3>3. sent \in Seq(Commands)
      BY <1>1 DEF TypeOK
    <3>4. PixelCommands(sent)[handled + 1] =
            IF command.kind = "pixels" THEN Append(PixelCommands(sent)[(handled + 1) - 1], handled + 1)
            ELSE PixelCommands(sent)[(handled + 1) - 1]
      BY <2>2, <3>3, PixelCommandsSteps
    <3> QED
      BY <1>1, <3>1, <3>2, <3>4
  <2>12. CarriesOut(io, kept)
    <3>1. handled < Len(sent)
      BY <1>1, <2>2 DEF TypeOK
    <3>2. Len(kept) = Len(io) - (HeaderSize + command.len)
      <4>1. Len(first) = HeaderSize + command.len /\ Len(first) \in Nat
        BY <2>5, LenProperties
      <4> HIDE DEF command
      <4>2. Len(kept) = Len(io) - Len(first)
        BY <2>1, <2>8, <4>1 DEF iobuf_remove
      <4> QED
        BY <4>1, <4>2
    <3>3. /\ frames' = IF command.kind = "pixels" THEN Append(frames, handled + 1) ELSE frames
          /\ send_iobuf' = send_iobuf + (IF command.kind = "get_config" THEN 1 ELSE 0)
      BY <1>3, <2>7 DEF Handle, ns_send
    <3> QED
      BY <2>10, <3>1, <3>2, <3>3 DEF CarriesOut
  <2> QED
    BY <2>2, <2>3, <2>9, <2>10, <2>11, <2>12
<1> QED
  BY <1>2, <1>3 DEF Keeps

-----------------------------------------------------------------------------
LEMMA InitInvariant == Init => IInv
<1> SUFFICES ASSUME Init PROVE IInv
  OBVIOUS
<1>1. sent = <<>> /\ sent \in Seq(Commands) /\ Len(sent) = 0 /\ handled = 0
  BY EmptySeq DEF Init
<1>2. TypeOK
  <2>1. <<>> \in Seq(Cells) /\ Len(<<>>) = 0 /\ <<>> \in Seq(Garbage .. MaxSent)
    BY EmptySeq
  <2>2. 0 <= BufLimit /\ 0 <= MaxSent
    BY OpcAssumption
  <2>3. wire = <<>> /\ recv_iobuf = <<>> /\ frames = <<>> /\ conn = "none" /\ send_iobuf = 0
        /\ cleared = FALSE
    BY DEF Init, iobuf_init
  <2> QED
    BY <1>1, <2>1, <2>2, <2>3 DEF TypeOK
<1>3. Stream(sent)[0] = <<>> /\ PixelCommands(sent)[0] = <<>>
  BY <1>1, StreamSteps, PixelCommandsSteps
<1>4. StreamIntact
  <2>1. (<<>> \o <<>>) \o <<>> = <<>>
    BY EmptySeq, ConcatEmptySeq
  <2> QED
    BY <1>1, <1>3, <2>1 DEF Init, StreamIntact, iobuf_init
<1> QED
  BY <1>1, <1>2, <1>3, <1>4 DEF Init, IInv, FramesInOrder

(* The stream of what was sent is longer by the command now on the wire.   *)
LEMMA SendInvariant == IInv /\ SendCommand => IInv'
<1> SUFFICES ASSUME IInv, SendCommand PROVE IInv'
  OBVIOUS
<1>1. PICK kind \in Kinds, len \in Lengths :
        /\ sent' = Append(sent, [kind |-> kind, len |-> len])
        /\ wire' = wire \o Bytes(Len(sent) + 1, len)
  BY DEF SendCommand
<1> DEFINE command == [kind |-> kind, len |-> len]
           bytes == Bytes(Len(sent) + 1, len)
<1>2. /\ UNCHANGED <<conn, recv_iobuf, send_iobuf, frames, handled, cleared>>
      /\ Len(sent) < MaxSent
  BY DEF SendCommand
<1>3. TypeOK /\ sent \in Seq(Commands) /\ Len(sent) \in Nat /\ command \in Commands
      /\ MaxSent \in Nat
  BY OpcAssumption, LenProperties DEF IInv, TypeOK, Commands
<1>4. /\ sent' \in Seq(Commands) /\ Len(sent') = Len(sent) + 1
      /\ \A i \in 0 .. Len(sent) : /\ Stream(sent')[i] = Stream(sent)[i]
                                  /\ PixelCommands(sent')[i] = PixelCommands(sent)[i]
      /\ Stream(sent')[Len(sent) + 1] = Stream(sent)[Len(sent)] \o bytes
  <2>1. command.len = len
    OBVIOUS
  <2> HIDE DEF command
  <2>2. sent' = Append(sent, command)
    BY <1>1 DEF command
  <2> QED
    BY <1>3, <2>1, <2>2, AnotherCommand
<1>5. bytes \in Seq(Cell) /\ bytes \in Seq(Cells')
  <2>1. Len(sent) + 1 \in Nat /\ HeaderSize + len \in Nat /\ HeaderSize + len <= BufLimit
    <3>1. HeaderSize \in Nat /\ len \in Nat /\ HeaderSize + len <= BufLimit
      BY OpcAssumption
    <3> QED
      BY <1>3, <3>1
  <2>2. bytes \in Seq(Cell)
    BY <2>1, BytesOf
  <2>3. ASSUME NEW j \in 1 .. HeaderSize + len
        PROVE  [cmd |-> Len(sent) + 1, at |-> j] \in Cells'
    <3>1. j \in 1 .. BufLimit /\ Len(sent) + 1 \in 1 .. Len(sent')
      BY <1>3, <1>4, <2>1, OpcAssumption
    <3> QED
      BY <3>1 DEF Cells
  <2>4. bytes \in [1 .. HeaderSize + len -> Cells']
    BY <2>3 DEF Bytes
  <2>5. bytes \in Seq(Cells')
    BY <2>1, <2>4, SeqDef
  <2> QED
    BY <2>2, <2>5
<1>6. wire \in Seq(Cells') /\ recv_iobuf \in Seq(Cells')
  <2>1. Cells \subseteq Cells'
    BY <1>3, <1>4 DEF Cells
  <2>2. wire \in Seq(Cells) /\ recv_iobuf \in Seq(Cells)
    BY <1>3 DEF TypeOK
  <2> QED
    BY <2>1, <2>2, SeqMonotonic
<1> HIDE DEF bytes
<1>7. TypeOK'
  <2>1. wire' \in Seq(Cells')
    BY <1>1, <1>5, <1>6, ConcatProperties DEF bytes
  <2> QED
    BY <1>2, <1>3, <1>4, <1>6, <2>1 DEF TypeOK
<1>8. ASSUME ~cleared
      PROVE  /\ handled <= Len(sent')
             /\ (Stream(sent')[handled] \o recv_iobuf) \o wire' = Stream(sent')[Len(sent')]
             /\ frames = PixelCommands(sent')[handled]
  <2>1. /\ handled \in 0 .. Len(sent) /\ frames = PixelCommands(sent)[handled]
        /\ (Stream(sent)[handled] \o recv_iobuf) \o wire = Stream(sent)[Len(sent)]
    BY <1>3, <1>8 DEF IInv, TypeOK, StreamIntact, FramesInOrder
  <2>2. /\ Stream(sent')[handled] = Stream(sent)[handled] /\ handled <= Len(sent')
        /\ frames = PixelCommands(sent')[handled]
    BY <1>3, <1>4, <2>1
  <2> DEFINE before == Stream(sent)[handled]
  <2>3. before \in Seq(Cell) /\ recv_iobuf \in Seq(Cell) /\ wire \in Seq(Cell)
    <3>1. before \in Seq(Cell)
      BY <1>3, <2>1, StreamSteps
    <3> QED
      BY <1>3, <3>1, CellsAreCells DEF TypeOK
  <2> HIDE DEF before
  <2>4. before \o recv_iobuf \in Seq(Cell)
    BY <2>3, ConcatProperties
  <2>5. SameStream((before \o recv_iobuf) \o wire, bytes, before \o recv_iobuf, wire \o bytes)
    BY <1>5, <2>3, <2>4, CutElsewhere
  <2> QED
    BY <1>1, <1>4, <2>1, <2>2, <2>5 DEF before, bytes, SameStream
<1> QED
  BY <1>2, <1>7, <1>8 DEF IInv, StreamIntact, FramesInOrder

(* A read moves bytes into the buffer io, and the handler keeps a part of  *)
(* it, without the next command if that is complete.                       *)
Reads(io, kept) ==
  /\ io \in Seq(Cells) /\ kept \in Seq(Cells) /\ wire' \in Seq(Cells)
  /\ Len(io) + Len(wire') = Len(recv_iobuf) + Len(wire)
  /\ recv_iobuf' = Fallback(kept)
  /\ cleared' = (cleared \/ Fallback(kept) # kept)
  /\ frames' \in Seq(Garbage .. MaxSent) /\ send_iobuf' \in Nat /\ handled' \in Nat
  /\ ~cleared =>
       /\ handled' <= Len(sent)
       /\ Stream(sent)[handled'] \o (kept \o wire') = Stream(sent)[Len(sent)]
       /\ frames' = PixelCommands(sent)[handled']
       /\ \/ kept = io /\ UNCHANGED <<frames, send_iobuf, handled>>
          \/ CarriesOut(io, kept)

LEMMA ReadDoes ==
  ASSUME IInv, ReadFromSocket
  PROVE  \E io, kept : Reads(io, kept)
<1>1. PICK n \in 1 .. RecvSize :
        /\ n <= Len(wire)
        /\ wire' = SubSeq(wire, n + 1, Len(wire))
        /\ EventHandler(iobuf_append(recv_iobuf, SubSeq(wire, 1, n)))
  BY DEF ReadFromSocket
<1> DEFINE io == iobuf_append(recv_iobuf, SubSeq(wire, 1, n))
           rest == SubSeq(wire, n + 1, Len(wire))
<1>2. TypeOK
  BY DEF IInv
<1>3. /\ io \in Seq(Cells) /\ rest \in Seq(Cells)
      /\ io \o rest = recv_iobuf \o wire
  <2>1. recv_iobuf \in Seq(Cells) /\ wire \in Seq(Cells)
    BY <1>2 DEF TypeOK
  <2>2. n \in 1 .. Len(wire)
    <3>1. RecvSize \in Nat /\ Len(wire) \in Nat
      BY <2>1, OpcAssumption, LenProperties
    <3> QED
      BY <1>1, <3>1
  <2>3. io \in Seq(Cells) /\ rest \in Seq(Cells) /\ SameStream(io, rest, recv_iobuf, wire)
    BY <2>1, <2>2, MovedBytes
  <2> QED
    BY <2>3 DEF SameStream
<1>4. EventHandler(io) /\ wire' = rest
  BY <1>1
<1> HIDE DEF io, rest
<1>5. PICK kept : /\ Keeps(io, kept)
                  /\ recv_iobuf' = Fallback(kept)
                  /\ cleared' = (cleared \/ Fallback(kept) # kept)
  BY <1>4, HandlerKeeps
<1>6. /\ kept \in Seq(Cells)
      /\ frames' \in Seq(Garbage .. MaxSent) /\ send_iobuf' \in Nat /\ handled' \in Nat
  BY <1>2, <1>3, <1>5, KeepsTypes
<1>7. Len(io) + Len(rest) = Len(recv_iobuf) + Len(wire)
  <2>1. recv_iobuf \in Seq(Cells) /\ wire \in Seq(Cells)
    BY <1>2 DEF TypeOK
  <2>2. Len(io \o rest) = Len(io) + Len(rest)
    BY <1>3, ConcatProperties
  <2>3. Len(recv_iobuf \o wire) = Len(recv_iobuf) + Len(wire)
    BY <2>1, ConcatProperties
  <2> QED
    BY <1>3, <2>2, <2>3
<1>8. ASSUME ~cleared
      PROVE  /\ handled' <= Len(sent)
             /\ Stream(sent)[handled'] \o (kept \o rest) = Stream(sent)[Len(sent)]
             /\ frames' = PixelCommands(sent)[handled']
             /\ \/ kept = io /\ UNCHANGED <<frames, send_iobuf, handled>>
                \/ CarriesOut(io, kept)
  <2>1. /\ handled \in 0 .. Len(sent)
        /\ (Stream(sent)[handled] \o recv_iobuf) \o wire = Stream(sent)[Len(sent)]
    BY <1>2, <1>8, LenProperties DEF IInv, TypeOK, StreamIntact
  <2>2. /\ \A i \in 0 .. Len(sent) : Stream(sent)[i] \in Seq(Cell)
        /\ recv_iobuf \in Seq(Cell) /\ wire \in Seq(Cell)
    BY <1>2, CellsAreCells, StreamSteps DEF TypeOK
  <2>3. Stream(sent)[handled] \o (io \o rest) = Stream(sent)[Len(sent)]
    <3> DEFINE before == Stream(sent)[handled]
    <3>1. before \in Seq(Cell)
      BY <2>1, <2>2
    <3> HIDE DEF before
    <3>2. SameStream(before \o recv_iobuf, wire, before, recv_iobuf \o wire)
      BY <2>2, <3>1, CutElsewhere
    <3> QED
      BY <1>3, <2>1, <3>2 DEF before, SameStream
  <2> QED
    BY <1>3, <1>5, <1>8, <2>3, KeepsStream
<1>9. Reads(io, kept)
  BY <1>3, <1>4, <1>5, <1>6, <1>7, <1>8 DEF Reads
<1> QED
  BY <1>9

LEMMA ReadInvariant == IInv /\ ReadFromSocket => IInv'
<1> SUFFICES ASSUME IInv, ReadFromSocket PROVE IInv'
  OBVIOUS
<1>1. TypeOK /\ conn' = conn /\ sent' = sent
  BY DEF IInv, ReadFromSocket
<1>2. PICK io, kept : Reads(io, kept)
  BY ReadDoes
<1>3. TypeOK'
  <2>1. recv_iobuf' \in Seq(Cells) /\ Len(recv_iobuf') <= BufLimit
    <3>1. kept \in Seq(Cells) /\ recv_iobuf' = Fallback(kept)
      BY <1>2 DEF Reads
    <3>2. Len(kept) \in Nat /\ BufLimit \in Nat /\ <<>> \in Seq(Cells) /\ Len(<<>>) = 0
      BY <3>1, OpcAssumption, LenProperties, EmptySeq
    <3> QED
      BY <3>1, <3>2 DEF Fallback
  <2>2. cleared' \in BOOLEAN /\ Cells' = Cells
    BY <1>1, <1>2 DEF Cells, Reads
  <2> QED
    BY <1>1, <1>2, <2>1, <2>2 DEF TypeOK, Reads
<1>4. ASSUME ~cleared'
      PROVE  /\ handled' <= Len(sent)
             /\ (Stream(sent)[handled'] \o recv_iobuf') \o wire' = Stream(sent)[Len(sent)]
             /\ frames' = PixelCommands(sent)[handled']
  <2>1. /\ ~cleared /\ recv_iobuf' = kept
        /\ kept \in Seq(Cells) /\ wire' \in Seq(Cells)
        /\ handled' \in Nat /\ handled' <= Len(sent)
        /\ Stream(sent)[handled'] \o (kept \o wire') = Stream(sent)[Len(sent)]
        /\ frames' = PixelCommands(sent)[handled']
    BY <1>2, <1>4 DEF Reads
  <2> DEFINE before == Stream(sent)[handled']
  <2>2. before \in Seq(Cell) /\ kept \in Seq(Cell) /\ wire' \in Seq(Cell)
    <3>1. kept \in Seq(Cell) /\ wire' \in Seq(Cell) /\ Len(sent) \in Nat /\ sent \in Seq(Commands)
      BY <1>1, <2>1, CellsAreCells DEF TypeOK
    <3>2. handled' \in 0 .. Len(sent)
      BY <2>1, <3>1
    <3> QED
      BY <3>1, <3>2, StreamSteps
  <2> HIDE DEF before
  <2>3. SameStream(before \o kept, wire', before, kept \o wire')
    BY <2>2, CutElsewhere
  <2> QED
    BY <2>1, <2>3 DEF before, SameStream
<1> QED
  BY <1>1, <1>3, <1>4 DEF IInv, StreamIntact, FramesInOrder

LEMMA NextInvariant == IInv /\ [Next]_vars => IInv'
<1> SUFFICES ASSUME IInv, [Next]_vars PROVE IInv'
  OBVIOUS
<1>1. CASE Connect
  BY <1>1 DEF Connect, IInv, TypeOK, StreamIntact, FramesInOrder, Cells
<1>2. CASE ClientCloses
  BY <1>2 DEF ClientCloses, IInv, TypeOK, StreamIntact, FramesInOrder, Cells
<1>3. CASE CloseConn
  <2>1. Init'
    BY <1>3 DEF CloseConn, Init
  <2>2. Init' => IInv'
    BY InitInvariant, PTL
  <2> QED
    BY <2>1, <2>2
<1>4. CASE WriteToSocket
  BY <1>4 DEF WriteToSocket, IInv, TypeOK, StreamIntact, FramesInOrder, Cells
<1>5. CASE UNCHANGED vars
  BY <1>5 DEF vars, IInv, TypeOK, StreamIntact, FramesInOrder, Cells
<1> QED
  BY <1>1, <1>2, <1>3, <1>4, <1>5, SendInvariant, ReadInvariant DEF Next, Server

LEMMA Invariance == Spec => []IInv
  BY InitInvariant, NextInvariant, PTL DEF Spec

-----------------------------------------------------------------------------
(* The buffer never holds more than its limit after a read, and all of it  *)
(* are bytes of commands that were sent, even in the middle of one.        *)
THEOREM TypeCorrect == Spec => []TypeOK
<1>1. IInv => TypeOK
  BY DEF IInv
<1> QED
  BY <1>1, Invariance, PTL

(* No byte is lost, doubled or moved, wherever the reads cut the stream,   *)
(* until the buffer is cleared.                                            *)
THEOREM NothingIsLost == Spec => []StreamIntact
<1>1. IInv => StreamIntact
  BY DEF IInv
<1> QED
  BY <1>1, Invariance, PTL

(* The frames handed on are the pixel commands handled, each once and in   *)
(* the order sent, until the buffer is cleared.                            *)
THEOREM FramesAreInOrder == Spec => []FramesInOrder
<1>1. IInv => FramesInOrder
  BY DEF IInv
<1> QED
  BY <1>1, Invariance, PTL
-----------------------------------------------------------------------------
(* How the steps of the connection are steps of OpcCommands.               *)

LEMMA SendSends == IInv /\ SendCommand => Opc!Send
<1> SUFFICES ASSUME IInv, SendCommand PROVE Opc!Send
  OBVIOUS
<1>1. PICK kind \in Kinds, len \in Lengths :
        /\ sent' = Append(sent, [kind |-> kind, len |-> len])
        /\ wire' = wire \o Bytes(Len(sent) + 1, len)
        /\ UNCHANGED <<conn, recv_iobuf, send_iobuf, frames, handled, cleared>>
  BY DEF SendCommand
<1>2. /\ wire \in Seq(Cell) /\ recv_iobuf \in Seq(Cell) /\ Len(sent) + 1 \in Nat
      /\ HeaderSize + len \in Nat
  BY CellsAreCells, OpcAssumption DEF IInv, TypeOK
<1> DEFINE bytes == Bytes(Len(sent) + 1, len)
<1>3. bytes \in Seq(Cell) /\ Len(bytes) = HeaderSize + len
  BY <1>2, BytesOf
<1> HIDE DEF bytes
<1>4. Len(wire \o bytes) = Len(wire) + Len(bytes)
  BY <1>2, <1>3, ConcatProperties
<1>5. Len(wire) \in Nat /\ Len(recv_iobuf) \in Nat
  BY <1>2, LenProperties
<1>6. (Len(recv_iobuf) + Len(wire))' = Len(recv_iobuf) + Len(wire) + (HeaderSize + len)
  <2>1. wire' = wire \o bytes /\ recv_iobuf' = recv_iobuf
    BY <1>1 DEF bytes
  <2>2. Len(wire') = Len(wire) + (HeaderSize + len)
    BY <1>3, <1>4, <2>1
  <2> QED
    BY <1>2, <1>5, <2>1, <2>2
<1> QED
  BY <1>1, <1>6 DEF Opc!Send

(* A read carries out the next command, or throws away what is kept, or    *)
(* only moves bytes.                                                       *)
LEMMA ReadCarriesOut == IInv /\ ReadFromSocket => [Opc!Next]_Opc!vars
<1> SUFFICES ASSUME IInv, ReadFromSocket PROVE [Opc!Next]_Opc!vars
  OBVIOUS
<1>1. PICK io, kept : Reads(io, kept)
  BY ReadDoes
<1>2. sent' = sent /\ TypeOK
  BY DEF IInv, ReadFromSocket
<1>3. CASE cleared
  <2>1. Opc!Astray
    BY <1>1, <1>2, <1>3 DEF Reads, Opc!Astray
  <2> QED
    BY <2>1 DEF Opc!Next
<1>4. CASE ~cleared
  <2> DEFINE waiting == Len(kept) + Len(wire')
  <2>1. /\ Len(io) \in Nat /\ Len(kept) \in Nat /\ Len(wire') \in Nat
        /\ Len(io) + Len(wire') = Len(recv_iobuf) + Len(wire)
    BY <1>1, LenProperties DEF Reads
  <2>2. Opc!Waiting = waiting /\ (Opc!Effect \/ (Opc!NoEffect /\ handled' = handled))
    <3>1. CASE kept = io /\ UNCHANGED <<frames, send_iobuf, handled>>
      BY <2>1, <3>1 DEF Opc!Waiting, Opc!NoEffect
    <3>2. CASE CarriesOut(io, kept)
      <4>1. handled \in Nat /\ handled' = handled + 1 /\ handled' # handled
        BY <1>2, <3>2 DEF CarriesOut, TypeOK
      <4>2. Opc!Effect
        BY <3>2 DEF CarriesOut, Opc!Effect
      <4>3. HeaderSize + sent[handled + 1].len \in Nat
        <5>1. handled + 1 \in 1 .. Len(sent) /\ sent \in Seq(Commands)
          BY <1>2, <3>2, LenProperties DEF CarriesOut, TypeOK
        <5>2. sent[handled + 1] \in Commands
          BY <5>1, ElementOfSeq
        <5>3. sent[handled + 1].len \in Lengths
          BY <5>2 DEF Commands
        <5>4. HeaderSize \in Nat /\ Lengths \subseteq Nat
          BY OpcAssumption
        <5>5. sent[handled + 1].len \in Nat
          BY <5>3, <5>4
        <5> QED
          BY <5>4, <5>5
      <4>4. Len(kept) = Len(io) - (HeaderSize + sent[handled + 1].len)
        BY <3>2 DEF CarriesOut
      <4>5. Opc!Waiting = (Len(recv_iobuf) + Len(wire)) - (HeaderSize + sent[handled + 1].len)
        BY <4>1 DEF Opc!Waiting
      <4> DEFINE size == HeaderSize + sent[handled + 1].len
      <4>6. size \in Nat /\ Len(kept) = Len(io) - size /\ Opc!Waiting = (Len(recv_iobuf) + Len(wire)) - size
        BY <4>3, <4>4, <4>5
      <4> HIDE DEF size
      <4>7. Opc!Waiting = waiting
        BY <2>1, <4>6
      <4> QED
        BY <4>2, <4>7
    <3> QED
      BY <1>1, <1>4, <3>1, <3>2 DEF Reads
  <2>3. CASE cleared'
    <3>1. Fallback(kept) # kept
      BY <1>1, <1>4, <2>3 DEF Reads
    <3>2. Len(kept) > BufLimit
      BY <3>1 DEF Fallback
    <3>3. waiting > BufLimit
      BY <2>1, <3>2, OpcAssumption
    <3>4. Opc!Lose
      BY <1>2, <1>4, <2>2, <2>3, <3>3 DEF Opc!Lose
    <3> QED
      BY <3>4 DEF Opc!Next
  <2>4. CASE ~cleared'
    <3>1. recv_iobuf' = kept
      BY <1>1, <1>4, <2>4 DEF Reads
    <3>2. (Len(recv_iobuf) + Len(wire))' = Opc!Waiting
      BY <2>2, <3>1
    <3>3. CASE Opc!Effect
      <4>1. Opc!CarryOut
        BY <1>2, <1>4, <2>4, <3>2, <3>3 DEF Opc!CarryOut
      <4> QED
        BY <4>1 DEF Opc!Next
    <3>4. CASE Opc!NoEffect /\ handled' = handled
      <4>1. Len(recv_iobuf) + Len(wire) \in Nat
        BY <2>1
      <4>2. Opc!Waiting = Len(recv_iobuf) + Len(wire)
        BY <3>4, <4>1 DEF Opc!Waiting
      <4> QED
        BY <1>2, <1>4, <2>4, <3>2, <3>4, <4>2 DEF Opc!NoEffect, Opc!vars
    <3> QED
      BY <2>2, <3>3, <3>4
  <2> QED
    BY <2>3, <2>4
<1> QED
  BY <1>3, <1>4

(* The connection implements OpcCommands.                                  *)
THEOREM ImplementsCommands == Spec => CommandsInOrder
<1>1. Init => Opc!Init
  <2>1. Len(<<>>) + Len(<<>>) = 0
    BY EmptySeq
  <2> QED
    BY <2>1 DEF Init, iobuf_init, Opc!Init
<1>2. IInv /\ [Next]_vars => [Opc!Next]_Opc!vars
  <2> SUFFICES ASSUME IInv, [Next]_vars PROVE [Opc!Next]_Opc!vars
    OBVIOUS
  <2>1. CASE Connect \/ ClientCloses \/ UNCHANGED vars
    BY <2>1 DEF Connect, ClientCloses, vars, Opc!vars
  <2>2. CASE SendCommand
    BY <2>2, SendSends DEF Opc!Next
  <2>3. CASE WriteToSocket
    <3>1. Opc!Reply
      BY <2>3 DEF WriteToSocket, Opc!Reply
    <3> QED
      BY <3>1 DEF Opc!Next
  <2>4. CASE CloseConn
    <3>1. Opc!End
      <4>1. Len(recv_iobuf') + Len(wire') = 0
        BY <2>4, EmptySeq DEF CloseConn, iobuf_init
      <4> QED
        BY <2>4, <4>1 DEF CloseConn, Opc!End
    <3> QED
      BY <3>1 DEF Opc!Next
  <2> QED
    BY <2>1, <2>2, <2>3, <2>4, ReadCarriesOut DEF Next, Server
<1> QED
  BY <1>1, <1>2, Invariance, PTL DEF Spec, CommandsInOrder, Opc!Spec
=============================================================================
