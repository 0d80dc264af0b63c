# Verification of the NatNet SDK samples

TLA+ models, TLC runs and TLAPS proofs for the programs of this repository. The
repository holds the NatNet client library as a binary (`lib/`) with its headers
(`include/`), and programs written against it or directly against the wire
format. The library itself has no source here; everything below is about the
programs.

Paths are relative to the repository (`src/` in PROJECT.json is its root).

## 1. Inventory

| Component | Code | Model |
|---|---|---|
| Python client session | `samples/PythonClient/NatNetClient.py`, `PythonSample.py` | `NatNetSession` (implements `NegotiatedVersion`) |
| SampleClient frame pipeline | `samples/SampleClient/SampleClient.cpp` | `FramePipeline` (implements `FrameFeed`) |
| PacketClient command channel | `samples/PacketClient/PacketClient.cpp` 114-1427, 2986-3191 | `CommandChannel` (implements `NegotiatedVersion`) |
| Packet decoders | `PacketClient.cpp` 1488-3268, `NatNetClient.py` 293-1950 | `WireFormat`, `FrameLayout`, `DescriptionLayout`, `Decoders` |
| Asynchronous packet reader | `src/main.cpp`, `PacketClient.cpp` 1428-1486 | `AsyncReader` (implements `FrameFeed`) |
| SampleClient server discovery | `SampleClient.cpp` 160-287, 357-422, 476-563, 1366-1416 | `ServerDiscovery` |
| Console and file output | `SampleClient.cpp`, `MoCapData.py`, `DataDescriptions.py` | no |
| MinimalClient, PacketClientUDPBroadcast | `samples/...` | no |
| NatNet library, build files | `include/`, `lib/`, `CMakeLists.txt` | external |

### Python client session

State: two UDP sockets, a flag `stop_threads`, the application name and server
version of the last announcement, the version of the server's stream, the
*requested* version every packet is decoded with, and the permission
`__can_change_bitstream_version`. Nothing is locked.

Three threads share it. The main thread runs `run` (create the sockets, start the
threads, send one NAT_CONNECT), serves the keys of the sample
(`set_nat_net_version`, requests, queries) and runs `shutdown` (set the flag, close
both sockets, join both threads). The command thread receives with a timeout,
unpacks what it received and, in a unicast session, sends a keep-alive each round.
The data thread receives without a timeout and unpacks.

What is hard: versions are lists stored and read one component at a time by two
writers and two readers; the network loses, duplicates and reorders; an exception
ends a thread and nobody notices; shutdown waits for threads that block in a
receive; the server may restart.

Correct means: at most one thread is in the middle of storing a version; the
version is taken from the server once, then only the user changes it, and only
where the server offered it; shutdown returns and leaves no thread; a session whose
datagrams arrive gets connected; a unicast session keeps sending keep-alives.

### SampleClient frame pipeline

State: `gNetworkQueue` behind `gNetworkQueueMutex`, the flag
`gNeedUpdatedDataDescriptions`, `gPauseOutput`, the descriptions `g_pDataDefs` with
the maps built from them, and the output file.

The library calls `DataHandler` on its own thread for every frame. It copies the
frame, tries for 5 ms to lock the queue, appends, and releases the oldest frames
above `kMaxQueueSize`; without the lock it releases the copy. The main loop fetches
the descriptions when the flag says so, serves one key, and empties the queue into
a local display queue (again with 5 ms for the lock), prints and writes it up to a
frame that says that the asset list changed, and releases all of it.

What is hard: ownership of the frame copies over three places and four ways to be
dropped; announcements among the frames that are dropped; requests that fail;
reconnection and exit while `DataHandler` is under way.

Correct means: each copy is released exactly once; frames are shown in order, each
once; once an announcement has been taken off the queue no frame is shown with
older maps; a list that is waited for arrives; 'q' ends the program.

### PacketClient command channel

`PacketClient.cpp` is built in two ways. With `ORIGINAL_SDK` it is a Windows program
with three threads (lines 114-1427); without it, the file gives the CMake project a
decoder and an `UnpackCommand` for `src/main.cpp`. The command channel exists in the
first build only, the decoders in both.

State: `gCommandResponse` with `gCommandResponseString`, `gNatNetVersion`,
`gCanChangeBitstream`, `gBitstreamChangePending`, all global and unlocked.
`SendCommand` sets the response to -1, sends, and polls it five times. The command
listener stores responses and versions; either listener unpacks frames (unicast
frames arrive on the command socket). `SetBitstreamVersion` marks the change as
pending; frames are skipped until one says that the bitstream changed or the
command fails.

What is hard: datagrams are lost, overtake each other and come twice, and `SendCommand` gives up
whatever is still under way; the polled global belongs to no command; every short response makes
the listener parse an older string again; the version a frame is decoded with is
read before its flags; the mark of the pending change is cleared in three places by
three threads.

### Packet decoders

Two decoders of the same format, written apart: for each section of a frame and each
kind of description the bytes it takes depend on the version. A disagreement shifts
everything behind it. Correct means that both take the same bytes, and that flags
at the end of a frame are found where they are.

### Asynchronous packet reader

`src/main.cpp` is the program of the CMake project. State: the version in a global, one
receive buffer, and whether an asynchronous receive is under way. main sends NAT_CONNECT
once, blocks in one receive and gives whatever came to `UnpackCommand`, which takes the
version of an announcement and ignores everything else; then a `receiver` joins the
multicast group, and each handler unpacks the buffer and starts the next receive.

What is hard: nothing is sent or received a second time; any first packet is accepted; the
server may change its version later, which nothing here notices; the buffer holds 20000
bytes and the length received is ignored; one buffer is shared by a receive and the handler
of the one before.

Correct means: the program gets to its frames where no datagram is lost; each frame is
unpacked before its buffer is filled again, in order and once; the chain of receives goes
on; a frame is read otherwise than it was written only in the cases above.

### SampleClient server discovery

State: the vector `g_discoveredServers`, the connection parameters, the terminal. The
library calls `ServerDiscoveredCallback` on a thread of its own, which prints each server
with a key and appends it; main reads keys, tests the size, takes a reference to the
element, fills the parameters, ends the search and connects. The parameters keep pointers
to the addresses in the element, and every later 'r', 'm', 'u' or 'c' connects with them.
`getch` switches the terminal's line buffering off and on, `_kbhit` switches it off once. The
search also ends when `getch` returns 0, at the end of the input: main then connects with the
default parameters.

What is hard: the vector has no lock, and an append that finds it full moves it; the
reference, and the pointers in the parameters, then lead to released memory; ending the
search waits for a callback; a key typed in the main loop may wait for the end of its line.

Correct means: a key opens the server printed beside it; the addresses kept by the first
connection serve all later ones; a choice is tried. The first of these holds as long as no append
moves the vector (`discovery_moved`), and 'q' does not quit at any time (section 7).

### The remaining components

- *MinimalClient* prints each frame on the library's thread and never ends;
  *PacketClientUDPBroadcast* prints broadcasts. Neither has state that changes.
- *Data classes and output*: containers and formatting, without control of interest.

The hazards of all of them, each at its line, are in PROJECT.json.

## 2. Modules

| Module | What it holds |
|---|---|
| `NegotiatedVersion` | abstract: a version cell, negotiated once, then changed by the user only |
| `NatNetSession` | the three threads, the version, server and network |
| `MCNatNetSession` | values of its constants |
| `NatNetSessionProofs` | invariants, refinement and the steps left to shutdown and keep-alive, proved |
| `FrameFeed` | abstract: a lossy feed that never reorders or repeats |
| `FramePipeline` | `DataHandler`, queue and lock, main loop, descriptions |
| `FramePipelineProofs` | invariant, refinement and the steps left to the end and to a request, proved |
| `CommandChannel`, `MCCommandChannel` | start, commands, answers, frame skipping, data buffer |
| `CommandChannelProofs` | invariant and the safety properties that follow from it, proved |
| `ChannelVersionProofs` | the version of the packets under way at each stage of a change, proved |
| `ChannelCellProofs` | refinement of the version cell, what ends the skipping of frames, proved |
| `ServerDiscovery`, `MCServerDiscovery` | callback and vector, choice, parameters, reconnection, terminal |
| `ServerDiscoveryProofs` | invariant, the properties that follow from it, the wait for the callback, proved |
| `AsyncReader` | NAT_CONNECT and its answer, the chain of receives and its buffer |
| `AsyncReaderProofs` | invariant and refinement, proved |
| `WireFormat` | versions, names, sections, 16-bit sizes |
| `FrameLayout`, `DescriptionLayout` | bytes of each section and description, operators `Cpp...` and `Py...` |
| `Decoders`, `MCDecoders` | both decoders reading one packet side by side |
| `DecodersProofs` | invariant and agreement, proved |

Definitions whose comment starts with "Fault:" are not part of any specification. Each is a plausible bug in the definition
below it and shows that a property would notice it.

### How steps correspond to code

A step of `NatNetSession` is one access to state another thread can see. So the
stores of the components of a version are steps of their own (`StoreMajor`,
`StoreMinor` in `set_nat_net_version`; `CmdInfoMajor`, `CmdInfoMinor` in
`__unpack_server_info`), and so are the two reads at the top of `__process_message`.
Components 2 and 3 of a version decide no layout and are left out. Whether
unpacking a packet may raise is decided by comparing the layout of the version it was
read with and the version it was encoded with; a packet read with the wrong layout
may raise or may be parsed into wrong values, so both are allowed. That holds for a packet
read with its own version too, where the decoder parts from the format: `FrameSupported` and
`DescriptionSupported` say which packets it takes in full. With `PlainDescriptions` false, as in
every run, any description may hold an unknown dataset or a marker name that is not ASCII. Playback commands
and keep-alives change nothing in the client and are not recorded.

A step of `FramePipeline` is what one thread does between two points where the other
one can act: taking the lock, what is done under it, showing a frame, releasing the
queue. A lock that is not to be had within 5 ms may be given up whenever the other
thread holds it. A frame is its number, the asset list it was built from and its
`TrackedModelsChanged` bit. Keys that send a command and print the answer are
`KeyNone`. `heap` is the set of frame copies whose members are allocated.

In `CommandChannel` a datagram stored by a listener, a component of a version stored
or read, a flag tested or cleared are separate steps. The string that is parsed
again is the variable `text`: `strtok` leaves its first number in the buffer. A
frame read with the wrong version has its flags at the wrong place, so the suffix
may or may not clear the pending change. `Return` may give up at any moment while it waits:
the polls know nothing of what is under way. The sockets are sequences; unless the session is
`orderly`, which is settled like `unicast` in the first state, a datagram
may change places with the one behind it (`Overtake`) or be there twice (`Duplicate`).
`answered`, `late` (a command timed out, or a datagram came twice), `lost` and `tooLong` are
history. The listeners run from the first state on; main zeroes the version
(`StartVersion`) and sends NAT_CONNECT (`StartConnect`) beside them. The length of a frame
is kept for multicast only: the unicast buffer holds any packet.

In `Decoders` a step is the content of one section, item or dataset, and `cpp` and
`py` are the bytes each decoder took. Once they differ the decoders really read
different bytes; the following steps then say what each would take for the content
the packet holds there, which is how each gap is found on its own. A name is its
length in bytes and in characters. A dataset of an unknown kind ends the packet for both:
the C++ decoder stops behind the header of the dataset, in Python the caller of
`__unpack_data_descriptions` raises, since it unpacks two results and gets one.

In `ServerDiscovery` the vector is its elements and the number of its block of memory. An
append that fits is one step; one that does not is three, because `push_back` puts the
elements into a new block and releases the old one before the vector's two pointers follow, one
at a time. What main reads in between is any outcome: a size test with the old begin and
the new end may go either way, and what a pointer into a released block names is any
server or nothing. `wanted` is the server printed beside the key that was pressed, and
`disturbed` that a moving append fell between the size test and the end of the search: both
are history. `SearchEnds` is the 0 from `getch`, which the user owes as little as a key; the
parameters are then the default ones, whose address may lead to any server or none. The parameters hold a pointer, as in the code, and `Connect` reads through it.

In `AsyncReader` a completed receive and its handler are two steps, since
`io_context::run` calls the handler after the data has arrived. A frame read with another
version than its own, or one cut off at 20000 bytes, sends `Unpack` through memory the
packet does not fill: the program may go on or end (`ended = "crash"`).

## 3. Runs

| Run | Expect | What it shows |
|---|---|---|
| `session` | pass | unicast, with loss, duplication, reordering and a restart of the server: one writer of the version at a time, change requests prove a negotiation, the session implements the version cell; its version differs from the server's only where a request to change it was sent; where close wakes a blocked receive, shutdown returns; keep-alives go on |
| `session_connect` | pass | multicast, all datagrams arrive: one NAT_CONNECT suffices unless a packet that overtook the announcement killed the command thread; a thread ends unasked only for a packet read before the announced version was stored, for a number that ends with a NUL, or for a packet the decoder does not take in its own version (a frame before 3.0; a description of major 5, of an unknown dataset, with a name that is not ASCII) |
| `session_perpetual` | violation | a frame before the announcement ends the data thread |
| `session_blocked` | violation | where close does not wake a receive (POSIX), shutdown hangs |
| `pipeline` | pass | frames owned once, the abstract feed implemented, maps follow announcements, requests are served, 'q' ends |
| `pipeline_stale_maps` | violation | an announcement that falls into a reconnection is never made up for |
| `channel` | pass | with loss, reordering, duplication and timeouts at any moment: until an answer may come too late or twice, answers belong to their command and the channel takes the steps of the version cell, with the version the server has at that time; a string parsed again never changes the major; at rest the client holds the server's version; at most two frames are lost to the data buffer. In sessions that keep the order: a frame is unpacked with a wrong version only during a change; skipping ends, and before that only for cause |
| `channel_edit_bit` | violation | the Edit-mode bit of a frame clears the mark of a pending change |
| `decoders` | pass | agreement outside the named gaps, disagreement at each of them, where Python finds the flags |
| `discovery` | pass | keys name the servers they were printed with, the server beside the key is the one connected to unless an append moved the vector meanwhile, addresses stay, choices are tried |
| `discovery_moved` | violation | after an append that moved the vector the server connected to is not the one beside the key |
| `reader` | pass | the program gets to its frames, reads each once and in order without skipping any, goes on reading, and misreads only for the three known reasons |

Each violation is a disagreement with a sentence of the repository, quoted under
`findings` in PROJECT.json.

### Bounds

- *Session.* One or two requests and packets in flight per socket: the hazards need
  one late packet and one new one (`session` has two per socket, a repeated
  announcement and the answer to a request). `session_connect` has three, so that a
  description and a query response can overtake the announcement. Two versions with
  different layouts, 3.1 and 4.2, and one restart.
- *Pipeline.* Cap 2, so that three frames overflow it while one is in hand; two
  changes of the list, so that one announcement can hide behind another.
- *Channel.* Four commands in a unicast session that keeps the order (a change is two: the
  change and its confirmation), three in one that does not, where a datagram that comes twice
  counts as a command; in a multicast session one command or one datagram that comes twice. Any
  number of timeouts among them; two datagrams waiting on the command socket, one on the other.
  A second change, behind which an older version of the user's could come back, needs four
  commands; without order that is left to the theorem. Three versions, the one the server starts
  with and two the keys ask for. Frames one byte longer than the buffer at its first size, one
  byte longer than after the first growth, and the longest a 16-bit length can tell.
- *Discovery.* Four servers, so that the vector moves at the first, second and third append
  and not at the fourth; two keys, so that there are servers without one; one server of each
  kind (multicast, unicast, legacy).
- *Reader.* Four frames and a socket that holds two, so that frames are received while
  others wait and one is in the buffer; two versions.
- *Decoders.* Every version at which a test of either decoder changes and the one
  before it; up to two items per section, with zero and one elements; 0, 1 and 2731
  unlabeled markers, the last making the frame longer than 32767 bytes.

Deadlock is checked except in `session_blocked`, whose subject is a system that stops, and
in `reader`: that program waits for ever when the answer to NAT_CONNECT is lost, and ends
with an exception or when its chain of receives is broken.

### Fairness

Threads are scheduled (weak fairness of each thread as a whole). The user owes nothing: no key
is ever assumed. Shutdown and keep-alives need nothing from server or network.
`GetsConnected` assumes a server that answers (weak) and a socket queue that is
served in order, so that no packet waits for ever behind later ones (strong
fairness per packet). `NeedIsServed` assumes that a connected server answers some
request in the end; the property excepts a lost connection. `SkippingEnds`
assumes a server that keeps answering and streaming, and excepts timeouts and losses. In `discovery`
both threads are scheduled, main and the callback; servers and the user owe
nothing, neither a key nor the end of a line. In `reader` the program is scheduled and the server answers NAT_CONNECT;
the properties except losses. A weak fairness condition on main alone would not
do for `QuitEnds`: main waits for a `DataHandler` under way, which is a thread of its own.

## 4. What is proved

All theorems hold for every value of the constants that the `ASSUME`s of the modules
allow, hence for every number of frames, cap of the queue, set of versions, capacity
of the network and number of restarts.

**Session.** `SessionInv` is inductive. The version is safe without a lock because of the
*order* of the stores: `__unpack_server_info` stores only while the version is 0, and
sets the permission last; `set_nat_net_version` stores only with the permission.
`StoreInv` says this at every position of both threads (while main stores, permission
is set; permission set means that the command thread is past its stores and the major
is not 0). `SingleVersionWriter` alone is not inductive: it says nothing of a
command thread that is about to test the version. `RequestInv` says that a change
request in flight proves the permission, which is never withdrawn; `ThreadInv` orders
starting and joining. From it follow `VersionHasOneWriter`,
`ChangeRequestsNegotiated`, `ShutdownJoinsThreads` and the refinement
`SessionImplementsVersionCell`. `AgreementInv` is about the server: until a change is possible
every packet that tells a version, and every version stored, is the server's; afterwards
the requested version is the server's until the first request is sent, and from then on one the
user asked for. `DivergesByRequestOnly` follows from it. Its mapping counts a store in progress as made:
the version the client stands by is `want` while main stores, and the announced one
once the command thread has stored the major.

Three more invariants are inductive with `SessionInv`. `SocketInv` says when the sockets
are open and when `stop` is set. `ReadInv` says which versions the packets in flight carry and
which versions a thread may have read at each of its positions, torn or not; with it
`ThreadsEndOnlyForCause` follows: a packet read with the version it was encoded in is
readable unless it is one of those the decoder does not take at all, and these are among the causes
the theorem names. `ConnectInv` is about the one NAT_CONNECT: a server that does not know the
client yet sends it two kinds of packets at most, so the socket has room for the announcement,
and from the request on the request, the announcement or its effect is there.
`ConnectionIsOwed` says so of a running session, where no datagram is lost, the server
stays up, the socket holds three packets (`PacketCap`, three in `session_connect`) and the
command thread lives.
`ShutdownIsBounded` and `KeepAliveIsNear` give each thread a number of steps that are left: after
`stop` every step that changes the client lowers the sum, which is at most 21, and a
command thread is at most ten steps from its next keep-alive.

**Pipeline.** `PipelineInv` joins types, the holders of lock and frames, the order of
frame numbers over display queue, network queue and hand, ownership, and the age of
lists (`AssetsInv`: a request under way is at least as recent as every announcement
taken, since the flag stays set until it succeeds). From it `FramesReleasedOnce`,
`MapsRecent` and the refinement `PipelineImplementsFeed`; the frames the abstract feed
holds are those in hand, in the queue and those of the display queue that can still
be shown. `FramesShownInOrder` says of the concrete system what the feed implies,
and `FileFollowsConsole` that an open file holds the frame shown last.
`QuitInv` (where main can be after 'q', and that a display queue is no longer than the cap)
gives `QuitIsBounded`: at most `MaxQueueSize` + 7 steps of main are left, and a wait for
`DataHandler` lasts two of its steps. `RequestIsNear`: while `need` is set no frame is shown,
and main is at most eight steps from its request, unless the user presses 'q' or connects again.

**Decoders.** `DecodersInv`: types, items only in sections the version has, from 3.0 on equal
cursors up to the suffix of a frame, and the relation of the three readings of the
flags behind it. From it `TypeCorrect`, `AgreeOutsideGapsAlways`, `GapsAreRealAlways`, `FlagsFoundAlways` and
`SuffixSkippedAlways`, for all versions, names and counts, unknown datasets included.

**Channel.** `ChannelInv` joins types, `StartInv` (nothing is waiting for the command
listener before NAT_CONNECT, so that zeroing the version forgets nothing), `VersionInv` (a
major is stored first and is never 0; the parsed string holds the major of the version),
`BufferInv` (each frame that was too long made room for 10001 bytes more than there
was) and `AnswerInv`. `AnswersAreOwn` alone is not inductive: it says nothing of an answer
that is still on its way when the next command starts. `AnswerInv` says that until a command
times out or a datagram comes twice at most one command is unanswered, that it is the one main polls for, and that it is
in exactly one place: on its way, answered and on its way back, or stored. From these follow
`AnswersBelong`, `StaleTextNeverHarms`, `TwoFramesTooLong` and `VersionKept`. The assumption
`LengthsAssumption` says that no frame is longer than the last size of the buffer or than the
first plus 20002 bytes; the 65539 bytes that a header can tell, 49152 and 100000 satisfy it. All of
this holds whatever is lost, overtaken or repeated. Beyond the first late answer `AnswersAreOwn`
says nothing: the answer to a command that timed out is returned for the next one, which the model
does as the code does, and which no property denies.

`FollowInv`, in `ChannelVersionProofs`, is inductive relative to `ChannelInv` where the network keeps
the order (`orderly`). It says what is the
server's version (`Current`: the version held, the packet in hand, all that waits on the command
socket) and when (`Settled`): always, except from the moment the server accepts a change to the
moment the answer to the query that confirms it is taken. In between only what stands *behind* that
answer tells the server's version, which is enough, since one thread takes both from one socket.
From it follows `OnlyChangesMislead`; where an answer is lost nothing is
claimed, because its command must time out. The order is needed: a frame of the old version that is
overtaken by the answer that confirms a change is unpacked with the new one.

`ChannelCellProofs` shows that the channel takes the steps of `NegotiatedVersion`
(`ChannelNegotiatesUntilLate`), in any order of datagrams and with losses, until an answer may come
too late or too often. A store in progress counts as made. A version the user has replaced, the
server's first one or an older one of the user's, must not come back: each version taken is the one
the server has at that time. `CellInv` gives the reason: a server that was asked for no change tells
its first version only, and as long as no answer is late the answer to a query is read before the
next command is sent. After a timeout nothing is claimed: a string that was overtaken by a newer
one does bring the old version back.

`RestInv`, relative to both and again in any order, is the part of `FollowInv` that needs none: while
the query that confirms a change is open, no answer but its string is under way, and unless a change is
accepted and not confirmed yet (`Settled`) the client stands by the server's version. With an
announcement that is stored or still waits (`AnnouncedInv`) it gives `FollowsAtRest`.

What follows is proved for a network that keeps the order: it is about the frames that are skipped
while a change is pending. `MarkInv`: a frame whose
unpacking had begun when the change was marked is read with its own version, until a command
times out. So its flags are where they are looked for, and `SkippingEndsOnlyForCause` follows.
`SkipInv` and `SkippingIsOwedAnEnd`: none of the three places that clear the mark leaves it
standing for ever. While it stands, the server has not decided yet, or its refusal or the
frame that announces the change is under way.

**Discovery.** `DiscoveryInv` joins types, `VectorInv` (the vector is what was printed, up to
the append under way; no append outlives the search) and `ChoiceInv`, which follows a choice
from the size test on: as long as `disturbed` is false, the digit is an index of the vector, the
reference is to that element in the present block, and the parameters point where the reference
does. A search that `getch` ended comes to the connection with nothing wanted, and the invariant
says nothing of where it leads. `ConnectsToChosenUnlessMoved` alone is not inductive, since the parameters it speaks of
are filled from a reference taken two steps before. From it follow `HotkeysRight`,
`ConnectsToChosen` and `AddressesKept`, for every set of servers and number of keys.
`ChoiceIsBounded` is about the wait for the callback at the end of the search: with finitely
many servers the library's thread has four steps left for each that is not printed yet and
those of the append under way, so servers found meanwhile cannot hold main for ever.

**Reader.** `ReaderInv` joins types, that a receive under way has a buffer whose handler has
run, the order of frames over buffer and socket (`OrderInv`), and where the version comes from
(`VersionInv`): an announcement that came first proves that the server knew the client, so that
each later change is seen in `changed`, and without one every frame held is of the version
announced. `ChainInv` says that a receive is under way or a handler due until a cause is
recorded, `NothingSkipped` that what got into the socket is unpacked or still held. From
these follow `MisreadingsKnown`, the refinement `ReaderImplementsFeed`, `EndsForCause` (the
program ends for one of three reasons) and `FramesInTurn` (each handler unpacks the very next
frame). `AnswerIsOwed`: while the program waits, its request or a packet is on the way.

**What is proved of liveness.** That a step is taken at all is fairness, and fairness and
ENABLED are beyond the prover. What a proof can say is what such a step achieves: that a number of
steps left goes down with each of them (`ShutdownIsBounded`, `KeepAliveIsNear`, `QuitIsBounded`,
`RequestIsNear`, `ChoiceIsBounded`), and that what is waited for is always under way
(`ConnectionIsOwed`, `SkippingIsOwedAnEnd`, `AnswerIsOwed`). TLC finds the distances and invariants
behind these theorems to hold on the instances of the runs; no run lists them, since the liveness
properties there say more of a small instance.

| Liveness property, checked | Theorem about the steps |
|---|---|
| `ShutdownReturns` | `ShutdownIsBounded` |
| `KeepsAlive` | `KeepAliveIsNear` |
| `GetsConnected` | `ConnectionIsOwed` |
| `QuitEnds` | `QuitIsBounded` |
| `NeedIsServed` | `RequestIsNear` |
| `SkippingEnds` | `SkippingIsOwedAnEnd` |
| `ChoiceIsTried` | `ChoiceIsBounded` |
| `GetsToFrames` | `AnswerIsOwed` |
| `ReadsOn` | `EndsForCause`, `FramesInTurn` |

**Only model-checked.** The liveness properties of the table as such. Every safety property and
every action property of a passing run is proved, and so are all refinements. Theorems that no run states:
`ShutdownJoinsThreads`, `VersionKept`, `FramesShownInOrder`, `FileFollowsConsole`, and those of the table.

## 5. Where the decoders part

`GapInCount`, `GapInItem` and `GapInDataset` of `Decoders` list all of it but the last
row, which `AgreeOutsideGaps` and `GapsAreReal` name themselves:

| Where | C++ | Python |
|---|---|---|
| version 0.0, rigid bodies | with mean error and flags | the fields of 1.x |
| 2.1 to 2.11, bones of a skeleton | pose, error, flags | a rigid body with its marker list |
| 2.3, labeled markers | read | not read (2.4 and later, against its comment) |
| before 4.1, size of a dataset | read | not read |
| marker names that are not ASCII | bytes | characters |
| before 4.1, dataset of an unknown kind | stops behind 8 bytes of header | raises behind 4 |

Others are in the step that reads the suffix of a frame: from 4.1 on Python does not read
the precision timestamp (`FlagsFound`), before 3.0 it does not read the software latency
(`PyBeforeFlags`), and of frames of 32768 bytes and more it skips the suffix
(`SuffixSkippedIffLong`). With version 0.0 the suffix raises. Descriptions of rigid bodies of major version 5 and above raise in Python
(`PyRigidBodyDescRaises`).

## 6. Plan

Done: all components with control of interest, in the order of their hazards; every safety
property, action property and refinement that a passing run checks; and what can be proved of
liveness. What is left:

1. The content of the name maps of SampleClient, if a property is found that speaks of more than
   printed names.
2. Larger instances where a change of the code makes a case need them; the proofs hold for all sizes.

## 7. What is not modelled

- *Decoded values, printing, the output file's columns, command-line parsing and address
  handling.* They decide no control. With them, the rule that the output file is opened
  with the first list only (`UpdateSucceeds` follows it, no property speaks of it).
- *The content of data descriptions and of the name maps of SampleClient.* Maps are the
  version of the list they were built from, which is all that `MapsFollowFlags` needs.
  `operator[]` adds an empty name for an identifier the list does not hold; that is visible
  in the printed name only.
- *Playback and recording commands* beyond the fact that they are sent and answered: they
  change nothing in a client.
- *MinimalClient, PacketClientUDPBroadcast, the Python data classes*: after their start no state
  changes that two threads share, or that a later step depends on.
- *Synchronous discovery* in SampleClient is compiled out (`#if 0`); addresses from
  the command line skip the search, and the parameters then point to memory that stays.
- *The library* has no source here. What is assumed of it is what `SampleClient.cpp` relies on:
  `DataHandler` runs on one thread, `Disconnect` waits for it, a failed `GetDataDescriptionList`
  leaves its argument alone, the discovery callback is called once per server, one call at a
  time, and ending the search waits for a call under way. Whether descriptions that were
  released can be released again after a failed request depends on what the library does with its
  argument, so no property is stated of it.
- *What is assumed of the servers.* The server of `CommandChannel` switches its version in one step
  with accepting the change, and the next frame announces it; the announcement of a new asset list in
  `FramePipeline` is in one frame only (the run that loses it rests on that). Both are what the
  clients rely on.
- *The order of datagrams* is assumed where `orderly` is, in some sessions of `CommandChannel`:
  `WrongVersionOnlyInChange`, `SkippingEndsForCause` and `SkippingEnds` speak of those only, and so
  do `FollowInvariant`, `OnlyChangesMislead`, `MarkInvariant`, `SkippingEndsOnlyForCause`,
  `SkipInvariant` and `SkippingIsOwedAnEnd`; in `channel_edit_bit` the others have no commands.
  All other theorems of the channel hold without it. A datagram of the
  channel that arrives twice counts as a late answer, so that what excepts late answers claims nothing
  behind it. `AsyncReader` and `FramePipeline` have no reordering network of their own: the first takes
  packets in the order in which its socket holds them, the second gets frames from the library.
- *What the models do as the code does, and no property denies.* `SendCommand` returns the answer
  to a command that has timed out as the response to the next one. A string that comes after the
  polls of its query, overtaken by a newer one, brings an older version back. In SampleClient a 'q' that
  follows another key of the main loop is read only when its line is ended, though
  `SampleClient.cpp` prints "Press Q at any time to quit." (174): `getch` turns line
  buffering on again (1407), `_kbhit` turns it off once.
- *Losses in `AsyncReader`.* The program waits for ever when NAT_CONNECT or its reply is lost;
  `GetsToFrames` excepts that, since nothing of the repository promises a second try.
- Creating sockets, and sending a datagram on an open one, are assumed to succeed, except where
  `AsyncReader` lets the library throw.
