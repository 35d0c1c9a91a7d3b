# A verification of the ledSPI server

ledSPI receives pixels over the network and drives a strip of APA102 LEDs over
SPI. This directory holds TLA+ specifications of the server, the TLC
configurations that check them on small instances, and proofs that TLAPS checks
for every value of the constants. Line numbers are those of
`src/ledspi-server.c` unless another file is named.

- [The system](#the-system): its parts, their state, how they interact
- [The modules](#the-modules): what models what, and how
- [The runs](#the-runs): bounds, fairness, what each run shows
- [The proofs](#the-proofs)
- [Where the code and its documentation disagree](#where-the-code-and-its-documentation-disagree)
- [What is not modelled](#what-is-not-modelled)
- [Plan](#plan)

## The system

The server is one process of up to six threads. `main` (605) reads the command
line and the configuration file, validates the result, writes the file back and
starts the threads; only then does it build the lookup tables, allocate the frame
buffers and open the SPI device (`ensure_server_setup`, 675), while the threads
are running.

```
 OPC clients --TCP--> tcp_server_thread  \
 OPC clients --UDP--> udp_server_thread   \  set_next_frame_data      rotate_frames
 E1.31       --UDP--> e131_server_thread  +-------------------> frame <-----------> render_thread --> SPI
                      demo_thread        /                     buffers                  |
                          ^-------- last_remote_data_tv ----------'   e131 <-- frame_counter
```

| Part | State | Operations | What is hard | What makes it correct |
|---|---|---|---|---|
| Frame buffers (252-301, 1043-1153) | three pointers, three flags, three times, the interval of the pair, the time of the last remote data | `ensure_frame_data`, `set_next_frame_data`, `rotate_frames` | five threads rotate; calls before the allocation | the buffers stay distinct and hold consecutive frames; the interval belongs to the pair |
| Render loop (1166-1415) | `frame_counter`, the local times | one turn: wait, skip, rotate, suspend or render | the mutex is released between deciding to rotate and rotating; 16-bit progress; no frame for a long time | the LEDs never go back in the stream; a waiting frame is taken in |
| Colour pipeline (1007-1038, 1155-1164, 1292-1317) | the lookup tables | blend, look up | weights that do not add up to their divisor | a pixel stays between its two frames; one that does not change is exact |
| Dithering (1319-1377) | per channel a carry and the frame of its last effect, 8 bits each | once per frame | the carry is cut down and wraps, the age wraps, the table is not initialized | the output is next to the input; a carry does not stay for ever |
| SPI output (`spio.c`, 1282-1286, 1353-1358, 1382) | `spi_buffer` | lay out, write in packets | a buffer that is never cleared, writes that fail | the bytes on the wire are those the LEDs count on |
| Demo thread (1445-1596) | `demo_enabled`, `frame_index` | test the silence, draw, store a frame | what arrives between the test and the frame; the index wraps | it plays in silence and gives way to clients; between its jumps the picture changes little |
| OPC over UDP (1788-1866) | the receive buffer | one command per datagram | the buffer keeps what earlier datagrams left | a frame is what one datagram carried |
| OPC over TCP (1870-1959, `mongoose.c`) | a receive and a send buffer per connection | read, handle at most one command, clear at 100k, close | the stream is cut anywhere | the server stays in step with the stream |
| Network library (`mongoose.c`, 270-428, 585-878) | the list of connections, the descriptor sets | poll, accept, read, write, close | blocks and descriptors are used again within a turn | the list is whole; no descriptor is taken for another; answers are written; nothing leaks |
| E1.31 (1657-1782) | the last sequence number, the buffer, the pacing counters | receive, pace | loss, reordering, wrap, a sender that starts anew; waiting for the render loop | fresh packets are taken; the thread never waits for ever |
| Configuration (57-84, 209-230, 383-603, 723-1005) | `g_server_config`, the file | parse, read, validate, write | order of options, rounding, kills | settings survive restarts; what is saved is valid |
| JSON parser (`frozen.c`) | the text and its tokens | parse, find | a text that is cut off; the same name inside another object | what was saved is found; what was cut off is refused |
| Threads and mutexes (303-324, 605-721) | who lives, who holds what, which ports are bound | start, lock, unlock, end, die | two mutexes together; any order of starting; a thread that fails | no circular wait; the server comes up when it can |

The threads share the frame buffers (guarded by the runtime mutex),
`last_remote_data_tv` (the demo thread reads it in one critical section and acts
in another) and `frame_counter` (the E1.31 thread reads it without a mutex). The
configuration is not written once the threads run. There are no callbacks other
than `event_handler`, which mongoose calls from the TCP thread.

The hazards that follow from this, each at its line and with the properties that
would catch it, are listed in `PROJECT.json`; the components that are left out
are listed there as well, with the reason.

## The modules

| Module | Models |
|---|---|
| `FrameStore` | the frame buffers and the three functions that change them |
| `RenderLoop` | the receiving threads, `main` and `render_thread` around `FrameStore` |
| `DisplayOrder` | the abstract specification of the two: what the LEDs may show |
| `Dither` | one channel of one pixel through the dithering |
| `Blinking` | `Dither` with the time between two effects |
| `Pixel` | the channel from two frames through blend and lookup table into `Dither` |
| `SpiFrame` | the frame laid out in `spi_buffer` and written to the device |
| `FrameOutput` | `Pixel` and `SpiFrame` composed: from a pair of frames to the wire |
| `DemoIdle` | the demo thread beside remote data |
| `DemoPictures` | what the demo draws |
| `OpcUdp` | the thread that receives datagrams |
| `DemoSources` | the three composed: where frames come from |
| `OpcTcp` | one TCP connection: client, sockets, mongoose's buffers, `event_handler` |
| `OpcCommands` | the abstract specification of a connection: what becomes of its commands |
| `NetServer` | the poll loop of mongoose over all connections |
| `E131` | the sequence numbers and the buffer of the E1.31 thread, its sender, the network |
| `E131Pace` | the E1.31 thread and the render loop through `frame_counter` |
| `ServerConfig` | the command line, the configuration file and restarts |
| `Frozen` | the JSON parser and the lookup of a setting |
| `ConfigText` | `ServerConfig` and `Frozen` composed: the file as text |
| `Threads` | the six threads: how they start and end, every critical section |

`MCRenderLoop`, `MCDemoSources`, `MCNetServer`, `MCConfigText` and `MCThreads`
hold the constants TLC is run with; the other runs take the module itself.
`RenderLoopProofs`, `FrameOutputProofs`, `DemoSourcesProofs`, `OpcTcpProofs`,
`NetServerProofs`, `E131Proofs`, `ConfigTextProofs` and `ThreadsProofs` hold the
theorems about the module in their name; those about `Dither` and `Pixel` are in
`FrameOutputProofs`, those about `E131Pace` in `E131Proofs`, and those about
`ServerConfig` and `Frozen` in `ConfigTextProofs`.

### FrameStore, RenderLoop and DisplayOrder

A call of `set_next_frame_data` or `ensure_frame_data` is one step, for it is one
critical section of the runtime mutex (`Threads` shows that the sections exclude
each other). `render_thread` is cut where it releases that mutex: a turn of the
loop is one of `RenderAwaitsServer`, `RenderLacksFrames`, `RenderExhausted`,
`RenderSuspended` and `RenderFrame`, in the order of the tests in the code, and
`RenderRotates` is the second critical section of a turn that found the next frame
really late, with `render_pc = "rotate"` in between. `main` is cut in two, between
`ensure_frame_data` and the opening of the device; building the lookup tables
before them changes nothing modelled here.

A frame is its number in the order of the calls; `heap` says which frame each
malloc'ed block holds, so pointers and contents are told apart, and a block that
was never written holds `Uninit`. Times are instants of one clock that may stand
still between two events (two frames of the same microsecond) and does not go
backward. `FrameProgress16` computes the progress in 16 bits as the code does;
for a divisor of zero, which C leaves undefined, it returns 0 as AArch64 does -
elsewhere the process may trap, after which there is nothing to state.
`led` is what the last `spio_write` showed: the two frames and the progress of
their blend.

`DisplayOrder` knows neither buffers nor times: frames arrive, and the LEDs show
a blend of two consecutive frames of which the later is the newest or the newest
but one, never going back. `RenderLoop` implements it under the mapping
`arrived <- received`, `from` and `to` from `led`.

### Pixel, Dither, SpiFrame and FrameOutput

`Blend`, `LutInterpolate` and `BuildLookupTable` are the integer arithmetic of the
code, with `Levels` for 256: the weights of the blend add up to `Levels * Levels - 1`,
the table has one entry more than there are levels, and its last is clamped. Powers
are whole numbers; `pow` of a fraction is out of reach.

`Frame` is one channel through 1319-1377. Conversions are modelled as conversions:
`Carried` cuts the difference down to 8 bits and takes it as signed, `Signed`
wraps `ditheringFrame`. The carry starts with any value, for the table is
malloc'ed and not cleared. Dithering is enabled or not, anew in each frame: what
decides it is the frame rate, a measurement. For the same reason the limit on the age,
`maxDitherFrames`, is any of `Limits` anew in each frame: the code divides a 60th of a
second by the average it measured last, so nothing bounds it from above. `Blinking` runs
`Dither` with a history variable, `since`, at the widths of the code.

`SpiFrame` lays the frame out a pixel at a time in a buffer whose size and padding
are those of the code, and `WritePacket` is one `write` of `spio_write`, which may
fail without anybody looking. `sent` is what of this frame went over the wire.
`FrameOutput` lets the first pixel's red be the channel of `Pixel`; every other byte
is known by pixel, colour and turn, so that one from the wrong place or from an
earlier frame is told apart.

### DemoIdle, DemoPictures, OpcUdp and DemoSources

`DemoChecks` is the first critical section of a turn (1516-1540), `DemoSends` the
second (1588). The state of the buffers is not needed here, only whose frame is
the newest. `silence` counts a little beyond the five seconds and stays there: the
code compares whole seconds with five, so nothing later is told apart. The 33 ms of
sleep are an arbitrary pause between two turns.

`DemoPictures` computes the bytes each mode draws, at an index that wraps; `HSBtoRGB`
has the sectors of the code. A turn of the demo takes the index on by three, and
`FadeStepsAreSmall` compares the pictures before and after. `OpcUdp` receives any datagram at any time, which covers
loss, repetition and reordering; `buf` keeps what a shorter datagram did not
overwrite. `DemoSources` makes a complete datagram a remote frame for `DemoIdle`, and
lets the other receivers, of which only the frames matter, do the same.

### OpcTcp, OpcCommands and NetServer

In `OpcTcp` a byte is a cell that knows its command and place, so the model can tell
whether the server is in step. When the server reads a header in the middle of a
command, which can happen after the buffer was cleared, the bytes may say anything,
and `Headers` returns every header. `EventHandler` is the whole of `event_handler`
for `NS_RECV`, the clearing at its end included; it runs inside `ReadFromSocket`,
as `ns_read_from_socket` calls it after each read. The 100 000 bytes are
`BufLimit`; a command always fits (65 539 bytes), which is an assumption.

`OpcCommands` knows no bytes, buffers or reads: commands are sent, carried out one by
one in their order, each with its frame or its reply, and only when more than
`Limit` bytes of them wait may a connection throw anything away. `OpcTcp` implements it
under the mapping `done <- handled`, `replies <- send_iobuf`, `intact <- ~cleared`, and
`backlog`, the bytes of the commands that wait, `<- Len(recv_iobuf) + Len(wire)`.

`NetServer` has many connections and no bytes: a read brings a command, and each
command asks for an answer. One turn of `ns_server_poll` is `Poll` (the sets are
built and `select` returns), `Accept`, then per connection `ServeRead` and
`ServeWrite`, and `CloseFlagged`. Clients connect, send, stop writing and are reset
between any two of these steps. Blocks of memory and descriptors are used again, the
lowest descriptor first as the kernel does; a connection is a block on a list with
`next` and `prev`, so that a wrong link shows. `Deaf` clients do not read their answers.

### E131 and E131Pace

`E131` has a sender that numbers its packets, may start anew at any number, and a
network that loses and reorders them, up to `MaxDelay` packets late. Its ghost
`accepted_age` is the number of packets sent since the newest accepted one.
`ReceivePacket` is everything between `recv` and the pacing: the buffer, which is
allocated anew for each packet because its size in bytes is compared with a
number of LEDs, the sequence test, and the frame handed over. `Kinds` tells the
packets apart: too small, a universe out of range, all the pixels, some of them.
Universes from 2 on are left out: with one strip their pixels lie beyond the
buffer, and the behaviour of the program is undefined. The packets of a sender
that starts anew are only sent once those of the old one are gone.

`E131Pace` has the two reads of `frame_counter` (1769 and 1771) as steps of their
own, with turns of the render loop between them. A turn counts whether or not
anything is rendered, which is what makes the wait at 1776 safe.

### ServerConfig, Frozen and ConfigText

In `ServerConfig` a setting stands for each way settings are treated: `tcp` (16 bits,
saved), `e131` (16 bits, not saved), `power` (saved with four decimals, `Coarse` units
of the model), `demo` (a name; every other name is -1), `dithering` (which an option
can only disable) and `order` (a name only the file can give; an unknown one is RGB).
`OpenForWriting` and `Write` are two steps, because `fopen` truncates the file and
`fclose` writes it; `Stop` may come between any two steps. `kept` remembers what the
file was written from.

`Frozen` is `parse_json2` and `find_json_token`, function by function, on a text of
symbols: a name, a run of digits, a punctuation character. A parser is a value that is
passed on, and each step leaves alone one that has failed, which is what the `TRY`
macro does. `parse_object`, `parse_array` and `parse_value` call each other; of the calls
in progress all that the code keeps is `ind`, the token of each object or array that is
being parsed, so they are the stack `open`, and `Turn` is one turn of the innermost of
the two loops (277 and 202), with the end of it at 281 and 206: it closes the innermost
token, or has one member more, which may open another. What follows a call in the code,
the comma after a member, is then what follows `Closed`. Every turn skips a symbol at
least (`TurnTypeShape` proves it), so `Turns` counts up to the length of the text. The
lookup and the scan for the end of a string are functions of a place. `ConfigText` prints the file of `ServerConfig` in the form of
`server_config_to_json` and reads it with `Frozen`; apart from that somebody may type
any text from `Pieces`.

### Threads

A thread is a plan: the critical sections of this turn it has yet to finish, and how
many locks and unlocks of the first are done. `Takes` says which mutexes a section
locks, in the order of the code. What a thread does between a lock and an unlock is
the business of the other modules, but for what starts and ends threads: binding a
port, opening the device, joining the multicast group, `die`. A world of `Worlds` is
what the command line asked for and what the host has to give. The E1.31 thread paces
by `frame_counter`, here whether it has changed, because waiting for it is
waiting as well.

## The runs

On two cores `config` and `threads` take about two minutes, `net`, `output`, `demo` and
`render` about one, the others seconds. "Violation" runs check a statement of a comment
that the code does not keep; they are explained
[below](#where-the-code-and-its-documentation-disagree).

| Run | Configuration | States | Shows |
|---|---|---|---|
| `render` | `MCRenderLoop.cfg` | 221 672 | the buffers stay distinct and a window on the stream, the interval belongs to the pair, `BlendInOrder`, the refinement `DisplaySpec`, and, under fairness, `LateFrameTaken` |
| `render_late` | `MCRenderLoopLate.cfg` | violation | a forced rotation of a frame that is not late |
| `output` | `FrameOutput.cfg` | 629 645 | a pixel stays between its frames and next to its level, a carry is dropped within a round as long as the limit is below a quarter of the counter, the wire carries the protocol of the LEDs and the level the carry was computed for |
| `dither_blinks` | `Blinking.cfg` | violation | an unchanging pixel blinks slower than the limit asks for |
| `demo` | `MCDemoSources.cfg` | 143 801 | the demo takes over in silence, gives way after at most one frame, the fade moves by small steps but where it is named as jumping; a frame from UDP is one datagram's |
| `opc_tcp` | `OpcTcp.cfg` | 65 167 | no byte lost, doubled or moved, and the refinement `CommandsInOrder`: until the buffer is cleared, which it is only over its limit |
| `opc_clears` | `OpcTcpClears.cfg` | violation | well-formed data is cleared |
| `net` | `MCNetServer.cfg` | 108 541 | the list of connections is whole, the descriptor sets are current, answers are written before a connection closes, none leaks, who waits is accepted |
| `e131` | `E131.cfg` | 57 037 | fresh packets accepted, a new sender heard |
| `e131_pace` | `E131Pace.cfg` | 2 400 | at most a strip and one packet ahead of the loop; the wait ends |
| `config` | `MCConfigText.cfg` | 46 294 | what is saved is valid, survives and is found again in the text; a text cut off is refused; the first member of a name is found |
| `threads` | `MCThreads.cfg` | 56 607 | locks are held as the code says, no circular wait, the process dies only for a cause, comes up when it can, and every turn ends |

### Bounds, and why they are enough

- `MCRenderLoop`: three blocks, as in the code. Five frames fill the three slots,
  push two more through, and let frames come before the allocation, between the
  allocation and the device, and between unlock and rotation. Frames arrive in
  instants 3 to 6, so intervals of 0 to 3 instants occur, shorter and longer than
  the one before; suspension begins at an age of 3, so a pair can be suspended
  before it is exhausted only at an interval of 3, which occurs. The clock runs
  to 13 = 6 + 2 * 3 + 1: every frame that waits becomes really late
  before it stops, which `LateFrameTaken` needs. `Boot` is 3 and not 0, so that an
  instant is told apart from the epoch the times start with. Only remote frames
  are sent; the origin matters to `last_remote_data_tv` alone, which `DemoIdle`
  covers. `CounterMod` is 2: nothing in this module reads the counter, which
  matters in `E131Pace`.
- `FrameOutput`: 4 levels and a counter of 8 for 256 and 256. The limit is 1 or 2, anew in
  each frame: one is below a quarter of the counter and one is not, as in the code,
  where the limit is 8 at the initial estimate of 2 ms a frame and 64, the quarter, from
  260 microseconds down. All 16 values of the channel occur, at one end of the progress
  and in its middle (the other end is the same with the two frames exchanged, and all
  pairs of frames occur), through a table that is curved and dimmed by the white point.
  Two LEDs on each of two strips, of which the code uses one; packets of 5 bytes cut the
  frame of 13 inside a pixel and leave a shorter one at the end.
- `Blinking`: the numbers of the code, 256 levels, a counter of 8 bits, a limit of 8, and
  one input, a little above a level, that never changes.
- `MCDemoSources`: two instants a second and two seconds of silence for five: the two
  edges of a whole second are there. The datagrams are two frames, one cut off in its
  data, one cut off in its header, and a system command as long as a frame. A sector has
  10 degrees and the index wraps at 70, so the fade goes around the wheel of 60 once and
  10 degrees more, and every index is visited: the steps of three cross every join of two
  sectors, and the wrap comes in the middle of the wheel, as 65536 does. 32 steps of
  brightness, of which each pixel starts at another, let it start anew as well; four
  strips and two LEDs reach around the wheel.
- `OpcTcp`: commands of 1 and 3 bytes, reads of up to 3, so a read cuts a command
  anywhere, brings up to three commands, and leaves the buffer over its limit.
- `MCNetServer`: three clients and three blocks but two descriptors, so a client has
  to wait for one and gets that of another; one client asks and does not read its
  answers, two may be reset. The list is at most two long by the descriptors:
  `ns_remove_conn` meets a head with a successor, a tail with a predecessor and an only
  element, by which each of its two assignments is made and left out.
- `E131`: 16 numbers and a window of 4 for 256 and 64. The numbers wrap; two
  packets are underway and arrive up to two packets late, less than the window.
- `E131Pace`: two strips, so that the counter of packets counts; the frame counter
  wraps at 6, so that a whole round of it between two looks is among the behaviours.
- `MCConfigText`: two options per start, which are enough for an option before
  and one after `--config`; ports of which one is cut down to zero and one to
  another port; powers that the file rounds, and one out of range. A file has at most one setting that the user
  wrote, or all that the server writes. Twelve typed symbols of objects, arrays, three
  keys, one of them with escaped quotes, and a value: enough for objects and arrays
  inside each other, and for a member after an array that holds an object, over which
  the lookup has to step. The text the server prints is longer and is parsed as well.
- `MCThreads`: five worlds, of which one has all there is to have and the others lack
  something in each place a thread may fail. Every thread makes turns without end.

### Fairness

- `RenderLoop.FairSpec`: weak fairness of `Main`, `Render` and the clock. The
  threads are ordinary threads of the scheduler and never exit; the mutexes are
  held for a bounded time. There is none for `Receive`: no client has to send.
- `DemoSources.SourcesSpec`: weak fairness of the demo thread and the clock, likewise.
- `NetServer.FairSpec`: weak fairness of `ns_server_poll`, whose loop runs for
  ever. None for the clients. `QueuedAccepted` assumes besides that descriptors come
  free again and again.
- `E131Pace.FairPaceSpec`: weak fairness of the render loop and of the steps of the
  E1.31 thread that are always possible, and strong fairness of `Wait`, whose
  condition a wrap of `frame_counter` can make false again. The thread looks once
  a millisecond, and 2^32 turns do not fit into one.
- `Threads.FairSpec`: strong fairness of each thread's own steps: a mutex that is
  free again and again is got in the end, because its other users sleep or block
  between two turns. The first step of a turn of a receiving thread and of the demo
  is not fair, for nothing has to arrive.

### Mutants

For each property of a passing run `PROJECT.json` names a changed definition,
written next to the original in its module, that breaks the property: the
exchange that loses a pointer, the rotation in the wrong order, the interval of
the times before the rotation, the missing test of `has_next_frame`, a sequence
test without the wrap, a counter advanced after the early returns, a cast that
stays unsigned, a length without its header, a list that forgets `prev`, a
connection to be closed that is not written to, an object that the end of the text closes, and
so on.

## The proofs

Each module of theorems proves its results for every value of the constants that the
named assumptions of the modules allow; TLC evaluates these assumptions in each run. A
step that preserves an invariant has one lemma per action. One theorem,
`RestartIsHeard`, has a hypothesis of its own, which is discussed with it.

`RenderLoopProofs`, for any set of blocks with three elements, any number of frames and
any times:

- `Invariance`: `Spec => []IInv`. `IInv` is the conjunction of the type invariant,
  `BuffersDistinct`, `WindowOfFrames`, `IntervalOfPair`, `RotationHasFrame`,
  `StartupOrder` and `LedsAreBehind`. None of the interesting parts is inductive
  alone. `WindowOfFrames` needs that the buffers are distinct, or storing a frame
  would change another slot; it needs `StartupOrder` for the frames from before
  the allocation; `RotationHasFrame` needs that a rotation by another thread
  refills what it takes, and `StartupOrder`, for an allocation drops the
  next frame; `LedsAreBehind` needs the window, from which the loop renders.
- `TypeCorrect`, `BuffersStayDistinct`, `BuffersAreWindow`,
  `IntervalBelongsToPair`, `RotationIsSafe`: its parts.
- `Implements`: `Spec => DisplaySpec`. `RenderFrame` is a step `Show`: the current
  frame is the newest or the newest but one by `WindowOfFrames`, and not older
  than what the LEDs show by `LedsAreBehind`. `Receive` is `Arrive`; everything else
  stutters.
- `BlendsInOrder`: `Spec => BlendInOrder`. `BlendInv` bounds the progress on the LEDs,
  times the interval, by the time since the pair began, as long as the pair they show is
  the one in the buffers; that its interval has not changed meanwhile is what
  `WindowOfFrames` gives, for a pair is never on display twice.

`FrameOutputProofs`, for every even number of levels and every even counter width, every
white point and whole power, strips of any length, any number of strips and any packet:

- `StaysNear`: `Spec => []NeighbouringLevel`, of `Dither`. `OutputIsNear` is the heart of
  it: whatever is carried fits half a level, so rounding the sum cannot leave the two
  levels next to the input, at the saturated end included.
- `CarryIsDropped`: `Spec => []DroppedInOneRound`, of `Dither`, for any set of limits.
  The condition is in the property: its `idle` counts the frames since the last effect
  only through frames whose limit is below a quarter of the counter (`Low`), and starts
  anew at one whose limit is not, for there the carry need not be dropped. `IdleInv` says
  that every value the counter has had in these frames was near the last effect by the
  measure of the code. Were the counter to go round, it would have visited them all, and
  among 0 and the least value one is not near.
- `ImplementsDither`: `FrameSpec => Spec`. `Dither` takes any of `Values` as its input;
  what the blend and the table give is one of them, by the two theorems that follow and
  because the entries of the table, powers of at most the greatest level, lie between 0
  and the last. With it the two theorems about `Dither` hold of the whole pipeline
  (`LevelsOfOutput`).
- `StaysBetween`: `FrameSpec => []BetweenFrames`. `ValueInv` names the blend the input was
  looked up from and puts it between the dimmer and the brighter frame; that the table,
  and the interpolation between its entries, never fall is proved by induction on the
  power, its recursive function being a function like another.
- `SteadyIsShown`: `FrameSpec => []SteadyIsExact`. What the weights of the blend leave out
  of a level is less than the half level by which the output is rounded.
- `WireIsRight`: `FrameSpec => []FrameSent`. `SpiInv` relates the buffer to the pixels
  drawn so far (`Laid`), and what was sent to the buffer (`Copied`), if no write
  failed; division enters only in that the padding is long enough.
- `DitheredIsSent`: `FrameSpec => []LedShowsOut`, from the same invariant and that the
  first pixel drawn is the output of the dithering.

`DemoSourcesProofs`, for any length of the silence, any datagrams, and any numbers of
LEDs, strips and degrees:

- `RemoteTakesOver`: at most one late demo frame, since a thread that is about to send
  either has let none through or looked at a silence that has not been broken since
  (`LateInv`).
- `DemoEndsForRemote`: while the demo is enabled there is silence, or remote data has come
  since (`EnabledInv`).
- `FramesOfDatagrams`: the payload is a part of the datagram, by the properties of
  `SubSeq`, whatever the rest of the buffer holds.
- `FadeStepsStaySmall`: `SourcesSpec => FadeStepsAreSmall`. `Height` is how far up its
  ramp each colour stands at a hue, as one function around the wheel, so that the joins of
  the sectors need no cases further on: turning the wheel by some degrees moves no height
  by more (`HeightIsSteady`). A colour is a height times the brightness, rounded down
  (`ChannelIsRise`), so it moves by no more than the wheel and the brightness do
  (`RiseMoves`, `ColoursMove`). How far these go from one index to the next, the wrap
  included, is `HueSteps` and `BrightnessSteps`.

`OpcTcpProofs`, for commands, headers, reads and limits of any length: `TypeCorrect`,
`NothingIsLost` and `FramesAreInOrder`, from `IInv`, which joins the three with the fact
that no more was handled than was sent. What the client sent is defined by recursion on
the number of commands; the lemmas about it (`Recursion`, and the stream of one command
more) are proved by induction on that number. The argument of a read is that the buffer
and the wire together begin with the whole of the next command, if the stream is intact:
so the header the handler reads is that command's, and what it takes off is its length.
From the same facts, `ImplementsCommands`: `Spec => CommandsInOrder`. A read is a step
`CarryOut`, or `Lose` if what the handler keeps is over the limit, or only moves bytes from
the sockets to the buffer, which `OpcCommands` does not see.

`NetServerProofs`, for any clients, any finite set of blocks and any number of
descriptors:

- `ListStaysIntact`: `Spec => []ListIntact`. `PassInv` has the list as a sequence of blocks
  beside its links (`Order`), and the position of the pass in it. Adding a block puts it in
  front (`AddKeepsOrder`), removing one closes the gap (`RemoveKeepsOrder`), and removing
  all that are to be closed, one after the other, leaves the others in their order
  (`RemoveAllKeepsOrder`, by induction over the sets of blocks).
- `SetsStayCurrent`: `Spec => []SetsAreCurrent`. What select found ready stays so until the
  pass comes to it, because only the pass reads and an end or a reset leaves something to
  read (`Untouched`), and because no descriptor of the sets is closed before the end of
  the pass (`SetsInv`), so that a connection accepted meanwhile gets another.
- `AnswersComeFirst`: `Spec => AnswersBeforeClose`. It says for each block whether the pass
  has not come to it, has read it or is done with it (`Untouched`, `HalfServed`, `Served`)
  what may stand in the way of its answers: a block is marked for closing only when it is
  read, and is written to after that in the same pass.
- `TypeCorrect`, the type invariant.

`E131Proofs`, for every width of the sequence number, every window and every delay:

- `FreshIsAccepted`: `Spec => []FreshAccepted`. The packet accepted last need not be the
  newest accepted; `LastInv` says that it was sent at most `MaxDelay` before it. A fresh
  packet is then less than `SeqMod - Window` ahead of it, so that wrapping around cannot
  make it look older.
- `RestartIsHeard`: `DelayIsShort` implies `Spec => []RestartHeard`. While packets of a
  sender are refused each has another of the `Window` numbers that look old: `RefusedInv`
  names the set of those numbers and counts it. `DelayIsShort`,
  `Window + 2 * MaxDelay + 1 < SeqMod`, is about the network and not about the program:
  without it the theorem is false, as TLC shows for 7 numbers, a window of 1 and a delay
  of 3. A packet that is held back for half a round lets the numbers come round before it
  arrives, and the same ones are refused twice. With the 256 and 64 of the code it allows
  a packet to be 95 packets late.
- `NeverFurtherAhead`: `PaceSpec => []AtMostAStripAhead`, of `E131Pace`, for every number of
  strips and width of the counters. `BurstInv` says, for each place of the thread, how the
  packets since the last turn relate to its counter, as long as `frame_counter` is what
  it was when the thread last looked; the assumption that the counter wraps beyond the
  number of strips is what the code has by 2^32.

`ConfigTextProofs`, for every width of a port, precision of the power, and number of
options, runs and kills, and for texts of every length and nesting, over any letters and
digits:

- `SavedFileIsValid` and `SettingsDoNotDrift`, from `Invariance`: what the file holds is
  the text of settings that were valid, and with `--config` alone those read have the
  same texts. What makes it inductive is `RoundTrip`: reading the text of a valid
  setting and printing it gives the same text, for the power because rounding twice is
  rounding once and the greatest power is itself a multiple of the precision.
- `CutOffIsRefused`: `TextSpec => []CutOffRefused`. `Behind` relates the parser of a text
  to the parser of a beginning of it: they differ in nothing but the text, as long as
  neither has come to the end of the shorter one. Each function of the grammar keeps
  that, or the second parser fails (`TestAndSkipBehind` to `TurnBehind`); a number may
  end where the text is cut off, but then no brace follows, and a parser at the end of
  its text never accepts (`TurnAtEnd`). So the shorter text is accepted only if the
  longer one was accepted within it (`CutOff`).
- `FindsFirstMember`: `TextSpec => []FindsFirst`. Two inductive invariants of the turns:
  `Tree` says that a closed token has for descendants exactly the tokens that lie within
  it, which is what `num_desc` counts; `Objects` that the keys of an object are a
  `Chain`, each followed by its value, the descendants of that, and the next key or the
  end. An object that is being parsed has the one that is inside it for the value of its
  last key (`Pending`). Then the lookup, which steps by `num_desc`, goes along the chain
  (`NextKeyIs`, `FindsAmong`), and the keys are the children of an even number
  (`KeysAreEven`, `ChildrenAre`), which is how `MembersWith` names them without
  counting.
- `SavedSettingsAreFound`: `TextSpec => []SavedIsFound`. `Layout` says where in the text
  that is printed each key, value and bracket is, `LayoutOfPieces` that the pieces printed
  one after the other have that layout, and `LayoutRead` that nine turns read it, each from
  what it finds ahead. `TokensLaidOut` names the fifteen tokens, and the lookup is followed
  over the chain of their keys (`Sought6`, `SoughtInside`). Settings that are in the file
  are in the ranges that can be printed (`SavedIsPrintable`), from the same `Invariance`.

  `SymbolAssumption` and `TextAssumption` say what the symbols are: that no letter is a
  digit or punctuation, that the names the program prints are letters, and the decimal
  numerals of ports and powers are digits. They are about the alphabet of the model, and
  TLC evaluates them in the run.

`ThreadsProofs`, for every set of worlds:

- `HoldsWhatItShould` and `NoDeadlock`: `LockInv` says that a thread holds exactly the
  mutexes of its place, in both directions. A section that takes two mutexes takes them
  in the same order as every other, from which it follows that nobody who waits for
  the first holds the second.
- `DeathHasCause`: `PortInv` says which ports the process itself may have bound; the
  thread of UDP finds its own port taken by E1.31 only if the two are the same.

Every invariant and every action property of the passing runs is proved. What remains
with TLC are the liveness properties (`DemoTakesOver`, `LateFrameTaken`, `NoLeak`,
`QueuedAccepted`, `ReturnsToRecv`, `ComesUp`, `TurnsEnd`): liveness under fairness needs
`ENABLED`, which the installed provers do not reason about.

## Where the code and its documentation disagree

Checked by runs:

- **`render_late`** (1224). The render loop decides to rotate under the mutex,
  releases it, and takes it again in `rotate_frames(TRUE)`. If a frame is stored in
  between, that call has already rotated, and the loop rotates the new frame in at
  once. The comment at 1219 says this is done only if the next frame is really late.
  What does hold is `RotationHasFrame` and `DisplaySpec`: the LEDs do not go back
  and nothing is lost.
- **`dither_blinks`** (1321). When the last effect is older than the limit the carry is
  dropped and its age starts anew, but the dithering goes on: half a level later it has
  its next effect, and the carry that leaves behind is too large to be made up before it
  is dropped again. At 2 ms a frame, where the limit is 8 frames, an unchanging pixel a
  little above a level so blinks every 15 frames, 33 times a second, without end.
  Line 1288: "Only allow dithering to take effect if it blinks faster than 60fps", and
  1319: the reset "serves to prevent visible blinking pixels".
  What does hold is `DroppedInOneRound`, if a frame takes more than 260 microseconds;
  when frames are faster the limit is 64 or more, which the difference of two absolute
  values of an 8-bit counter need never exceed, and the carry may stay for ever.
- **`opc_clears`** (1911). One command is handled per read of up to 2048 bytes. A
  client of short commands piles up a backlog which is cleared at 100 000 bytes,
  in the middle of a command. Line 1909: "Fallback to handle misformed data".
  What does hold is `CommandsInOrder`: until more than that waits, nothing is lost.

Stated in the modules and refuted by TLC when named in a configuration, but not
kept as runs:

- `RendersReceivedData` (1065, 1199): three calls of `set_next_frame_data` before
  `ensure_frame_data` set the flags of the previous and the current frame, of which
  `ensure_frame_data` resets that of the next one only; freshly allocated blocks are
  rendered.
- `OptionsAfterSaved` (968, 583): the E1.31 port is not among the settings written and
  read, though the help says that options after `--config` are saved.
- `FramesAreSet` (1715-1718): the size of the E1.31 buffer in bytes is compared with the
  number of LEDs, so it is allocated anew for each packet, and not cleared; the whole of it
  is shown, though line 1095 says: "Zero out any pixels not set by the new frame".
- `BlendGoesForward` (1234): the progress at the very end of an interval does not fit
  16 bits.
- `FinalFrameIsRendered` (1221): a final frame that is rotated in is exhausted at once.
- `DemoOnlyInSilence` (1588): a demo frame decided on before remote data arrived.
- `CommandsCarriedOut` (1883): the second of two commands in a read waits for more bytes.
- `OutOfOrderRefused` (1725): a packet from before the wrap that arrives after it.

Seen while reading, and not checked: a port 0 is to disable a receiver (1661, 1792,
1931) but is refused by the validation (802); the usage lists `-e` and `-C`, which
the string at 459 lacks; the order of the colours is an option "not implemented yet",
though the file takes one, and an unknown order becomes RGB without a word
(`src/util.c:205`); the address "[::]:" (1942) is understood only when mongoose is
built with `NS_ENABLE_IPV6`, which the Makefile sets and `CMakeLists.txt` does not, and
`Threads` has the former; a saved `enableDithering` of false cannot be undone by an option;
the path of the device is printed into the file without escaping; a file that is not
JSON is reported as loaded and overwritten (424); `opc_server_set_error` leaves the
message in a local buffer (194); `spio_open` reads the SPI mode where it means to set
it (`src/spio.c:41`).

## What is not modelled

- Universes from 2 on, see above: undefined behaviour with one strip.
- A clock that is set back (1208): the difference becomes a huge unsigned number
  and the pair counts as exhausted. It needs a second clock.
- Memory that cannot be had, except where mongoose handles it; elsewhere the code
  does not look, or dies.
- The frame rate report (1390-1410): it feeds `maxDitherFrames` and
  `dithering_enabled`, each of which may be anything of a set in any frame. `pow` of
  fractional powers.
- The closing loop of `ns_server_poll` (`mongoose.c:868`) one connection at a time: it
  is one step, so nothing is said of the pointer kept aside at 869.
- Whether a division by zero (1234) traps, see above. `BlendInOrder` excepts it, and the
  very end of an interval.
- What becomes of a file that was not completely written, of a name of an order that is
  not known and of a file that is not JSON: `ServerConfig` does what the code does, but
  no statement of the repository says what should happen, so no property does.
- What the server never calls: of `mongoose.c` `ns_connect`, `ns_add_sock`,
  `ns_iterate`, the wakeup, TLS, HTTP and websockets, most of the file; of `frozen.c`
  `json_emit` and paths with an index; of `util.c` `write_all`, `serial_open`, `hexdump` and `strlcat`.
- What is printed for the user, the usage text included.
- The pictures of the Processing sketches, the node example and its vendored module,
  build and service scripts.

## Plan

Done, in this order: the frame buffers, the render loop and their abstract
specification with its proof; the receivers and the demo; the configuration; the
dithering. Then the threads and their locks, the poll loop, the output from frame to
wire, the datagrams and pictures, the JSON text, and the proofs about seven of them.
Then the proofs of what had only been model-checked: the byte stream of a connection
and that it implements `OpcCommands`, the list of connections and the sets of a pass,
the sender that starts anew, the blend and the lookup table and that they dither as
`Dither` says, the fade. Last the parser: `Frozen` as a machine with a stack, and the proofs
that a text cut off is refused, that the lookup finds the first member, and that what was
saved is found.

Left:

1. An abstract specification of the poll loop: a connection is accepted, answered and
   closed, as its client sees it.
2. A variant of `FrameStore` with a clock that is set.
