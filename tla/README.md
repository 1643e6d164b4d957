# gpk: a verification project

TLA+ models of `gpk`, model-checked by TLC and proved about with TLAPS. gpk is a C++ framework:
a base library (`src/llc`), a UDP networking and file layer (`src/gpk`), an engine
(`src/gpk_engine`), a backend that runs CGI programs behind UDP (`src/brt`), its CGI front ends
(`src/gpk_cgi_*`), runtimes for applications (`src/grt`, `src/gme`), and applications
(`src/dryer`, `src/smart` and smaller ones).

The logic of gpk that is hard to test is first in the UDP layer and in the backend on top of it: a
transfer protocol with retries, packing and key detection; a server whose threads share slots,
some of the time without its mutex; a client whose threads are started and never waited for; and
an update that couples requests, processes and pipes. Each of these has modules and runs of its own.
Then there is the library below it and the applications beside it: two threads that share an
application, a tree of controls in recycled slots, machines that read texts, containers that move
under what refers to them, encodings, meshes, the program of a dryer. Those parts do not interact
with one another; a module models each, and one run, `library`, checks them all.

Run everything from this directory: `tlc -workers 2 -config conn_safety.cfg MCUDPConnection`,
`tlapm UDPConnection_proofs.tla`. `PROJECT.json` lists the components, the runs, for each
property a defect that breaks it (operators that begin with `Bug`), the source lines of each
definition, the hazards, the findings and the theorems.

## 1. Inventory

For each component: the state it keeps, its operations, how it interacts, what is hard, and what
makes it correct.

**UDP connection** (`gpk_connection.{h,cpp}`). State: `State`, `KeyPing`, `LastPing`, and the
queues `Send`, `Sent`, `Received` of `SUDPMessage`s. Operations: `connectionPushData`,
`connectionPayloadCollect`, `connectionSendQueue` (scan of what is unconfirmed, packing,
transmission), `connectionHandleCommand` (CONNECT, DISCONNECT, PAYLOAD requests and responses).
Both ends run the same code over a lossy, reordering, duplicating network. Hard: messages move
between queues by pointer in nested loops; a payload is retried under new MessageIds (hashes of
times) while confirmations of the old ones are in flight; the key is guessed from the first
MessageId that arrives; times are unsigned. Correct when: no payload is lost or doubled inside
the endpoint, confirmations tell the truth, retries are bounded, and everything settles.

**UDP server** (`gpk_udp_server.{h,cpp}`). State: `Clients` (slots, each an `SUDPConnection` with
a socket of its own), `Socket`, `Listen`, `Mutex`, `Timeout`. Operations: accept and recycle
(listen thread), transmit and handle datagrams (update thread), collect and answer by slot index
(the application), start, stop and restart. Hard: the update thread handles datagrams without
`Mutex` while slots are recycled; indexes are kept over time; listening socket, `Listen` and
`Clients` are written by threads of different starts. Correct when: what a slot queues and
receives belongs to its client, handshakes end, one server runs at a time and a stop stops it.

**UDP client** (`gpk_udp_client.{h,cpp}`). State: `State`, `Socket`. Operations: `clientConnect`
(starts a handshake thread, polls for a second, then gives up or starts a reader),
`clientUpdate`, `clientDisconnect`. Hard: threads outlive the call that started them and share
`State` and `Socket` without a lock. Correct when: an IDLE client has an open socket that the
server knows and that a thread reads, and old threads leave new connections alone.

**Applications of both** (`gpk_udp_client_app.cpp`, `gpk_udp_server_app.cpp`, `gpk_lobby.h`): the
buttons that call the above. Their guards (`State`, `Listen`) are in the models.

**Backend** (`brt_application_main.cpp`). State: per client, the batch of requests, the pipes, the
process, the responses. Operation: `update`. Hard: processes of any speed, pipes that are
inherited, handles that are per client where requests are not, an error that ends the
application. Correct when: each request gets the whole output of its own process, once.

**CGI front ends** (`gpk_cgi_rest`, `gpk_cgi_rt`, ...): connect, push one request, take the first
answer. They are the clients of `UDPServer` and `BrtDispatch`.

**Application runtime** (`gpk_app_impl.h`, `grt_main.cpp`): an update loop and a render thread that
share an application, a count of users and a reload of modules. Hard: the shutdown counts users
the render thread may not have declared yet. Correct when: nothing draws a destroyed application,
or controls whose input is being processed, and the process ends.

**GUI** (`gpk_gui*.cpp`): a tree of controls in slots that are recycled, and their input flags. Hard:
a press and a release come in different frames, and the tree changes between them. Correct when: both
records of the tree agree, no former parent keeps a control, one control is hovered and one acts.
**Dialogs and input boxes** (`gpk_dialog.cpp`, `gpk_dialog_controls.h`, `gpk_gui_inputbox.h`): tuners, sliders, boxes,
viewports and a text, each with state of its own that is updated from those flags after the turn. Correct when: a
value takes the steps that were clicked and follows the pointer, a text is what is shown, folding loses no size.
**Layout** (`gpk_gui.cpp`, `gpk_gui_draw.cpp`, `gpk_rect_align.h`): areas computed from placements, docks, text, zoom and
window, kept until they are outdated. Hard: who is told, in which order areas are computed, the wheel between two
drawings. Correct when: what counts as updated is what computing all anew would give, and docked controls meet.

**Containers** (`gpk_array_*.h`, `gpk_queue_async.h`, `gpk_linear_map_*.h`,
`gpk_keyed_bit_array.h`): arrays that grow, a ring, locked queues, key/value arrays, rows of bits.
Hard: an array given a part of itself moves it while it copies; two cursors wrap separately. Correct
when: they hold what the calls mean.

**Reference counts** (`gpk_ref.h`, `gpk_ptr_*.h`): acquire and release with atomic counts, by several
threads and by the arrays that move their elements. Correct when: an object lives exactly as long as
a pointer to it.

**Label and view managers** (`gpk_label_manager.h`, `gpk_view_manager.h`, `gpk_block_container*.h`):
texts and views kept once, in blocks. Correct when: what was given out stays where it is and what it is.

**Packed payload format** (parts of `gpk_connection.cpp`): 16-bit sizes in a byte stream that is cut.

**Entities and scene** (`gpk_engine_entity.h`, `gpk_engine.cpp`, `gpk_engine_scene.h`): parents, children, bodies
and render nodes, which refer to meshes, skins, shaders and lights that clones share and that are saved and loaded; **weapons and particles** (`gpk_weapon.h`): columns that are walked while entries are swapped
out of them; **meshes and voxels** (`gpk_geometry.cpp`, `gpk_voxel*`): vertices and indices of several
parts in one buffer, meshes shared by parameters. Correct when: indices stay aligned and closed
surfaces are closed.

**Paths and files** (`gpk_path.cpp`, `gpk_file.cpp`, `gpk_deflate.cpp`): names normalised and joined,
files split, joined, checked, deflated and encrypted. Hard: the disk fills up, the program stops between
two parts, buffers are used again. Correct when: what was written is read or refused.

**Encodings, cryptography** (`gpk_base64.cpp`, `gpk_encoding.cpp`, `gpk_packed_int.h`,
`gpk_view_serialize.h`, `gpk_rsa.cpp`, `gpk_aes.cpp`): bytes to bytes and back, at every boundary.

**JSON, XML and expressions** (`gpk_json.cpp`, `gpk_json_expression.cpp`, `gpk_expression.cpp`,
`gpk_xml_reader.cpp`): machines that take a character a step, open elements before they know what they
are, and address what they read by position. Correct when: a document is read as what it is.

**PNG pictures** (`gpk_png.cpp`, `gpk_adam7.cpp`): chunks, filters that need other rows, depths, and seven
interlaced pictures. **Grids** (`gpk_grid_copy.h`): rectangles that overlap their target in part.

**Filament dryer** (`src/dryer`) and **serial port** (`s3d_serial.cpp`): a program of phases with a
door, dialogs and buttons; a thread that corrects a device by a status that may be of the past.

**Drawing** (`gpk_raster_lh.cpp`, `gpk_bitmap_target.h`, `gpk_geometry_draw.cpp`, drawing in
`gpk_engine_scene.cpp`): triangles, lines and shapes into a target and its depths, or into lists that are
drawn from afterwards. Hard: what is clipped, what lies on two edges, lists that outlive what they are of. Correct
when: each pixel shows the nearest of what covers it, and nothing outside is written.

**HTTP, smart card, engine physics, audio, windows, matrices, Ragnarok file readers, examples
and shells**: arithmetic, platform services or input and output, with no protocol of their
own. The components of `PROJECT.json` give the reason for each.

How they interact: an application thread calls `clientUpdate` or `serverPayloadCollect` and
`connectionPushData`; the threads of the server and the client call `connectionHandleCommand` and
`connectionSendQueue`; these meet in the queues of an `SUDPConnection`, each with a mutex, and in
`State`, `Socket`, `KeyPing` and `Listen`, without one.

## 2. Modules

| module | models | instance |
|---|---|---|
| `PayloadContract` | what a connection promises about a payload (abstract) | `conn_safety` |
| `UDPConnection` | both endpoints, the network and the clock | `MCUDPConnection` |
| `UDPConnection_proofs` | theorems on it | |
| `UDPServer` | slots, accept, update thread, application, clients | `MCUDPServer` |
| `UDPServer_proofs` | theorems on it | |
| `UDPServerLifecycle` | start, stop, restart and their threads | itself, `life` |
| `UDPServerLifecycle_proofs` | theorems on it | |
| `UDPClient` | connect and disconnect and their threads | itself, `client` |
| `UDPClient_proofs` | theorems on it | |
| `BrtDispatch` | the update of the backend, processes and pipes | `MCBrtDispatch` |
| `BrtDispatch_proofs` | theorems on it | |
| `MCLibrary` | the run of all the following, one part in each behaviour | `library` |
| `AppRuntime` | the threads of an application and its shutdown | part `app` |
| `GuiControls` | the tree of controls and a turn of input | `gui` |
| `GuiDialog` | the controls of a dialog and the input box, over `GuiControls` | `dialog` |
| `GuiLayout` | where controls lie, and when that is computed | `layout` |
| `BoundedQueue`, `ArrayCircular` | a queue (abstract), the ring | `ring` |
| `ArrayPod` | the growing array | `pod` |
| `SharedObjects` | counted objects, threads, the array of objects | `shared` |
| `Interning` | label and view managers over blocks | `interning` |
| `PayloadFormat` | the bytes of packed messages | `packing` |
| `ViewSerialize` | packed integers and streams of views | `view` |
| `Codecs`, `Aes` | encodings and RSA; AES, its modes and contexts | `codecs`, `aes` |
| `JsonReader`, `Expressions`, `XmlReader` | the readers, the writer of JSON, the evaluation | `json`, `expressions`, `xml` |
| `PathNames`, `Files` | names; split and join, checksum, deflate, encrypt | `path`, `files` and `secure` |
| `PngImages`, `GridCopy` | the reader of pictures; copies between grids | `png`, `grid` |
| `EngineEntities`, `EngineScene`, `EngineWeapons` | entities, bodies, transforms; what nodes show; shots | `entities`, `scene`, `weapons` |
| `Raster` | triangles, depths, shapes; the walk of a line | `raster`, `line` |
| `Geometry` | meshes and who shares them; voxel maps and models | `geometry`, `voxels` |
| `DryerProgram`, `DryerSerial` | the drying program; the serial thread and its device | `program`, `serial` |
| `Storage` | `ArrayPod`, `SharedObjects`, `ViewSerialize`, `Interning` and `Files`, side by side | the parts of each |
| `SharedObjects_proofs` | theorems on `SharedObjects` | |
| `Storage_proofs` | theorems on the rest of `Storage`, and on the whole | |
| `Library_proofs` | theorems on `ArrayCircular`, `Raster` (lines), `AppRuntime`, `DryerProgram`, `GridCopy`, `PayloadFormat` | |

`UDPServer` leaves out what `UDPConnection` models inside of a connection, and `UDPServerLifecycle`
what `UDPServer` models between a start and a stop. `BrtDispatch` sees a client as what arrives in
a slot and is answered through it; that a slot may have changed hands meanwhile is in `UDPServer`.

### State and actions, and the code

*UDPConnection.* `send`, `acks`, `sent`, `received` are the queues of each endpoint, as sets: the
network reorders anyway and `remove_unordered` shuffles them. A payload is a token, a message has
the set of payloads packed into it. `Push`, `Collect`, `SendQueue`, `ClientDisconnect` are calls of
the application; `Receive` is `connectionHandleCommand`, with an action per handler; `Drop` is a
datagram that is lost and `Tick` the clock. `SendQueue` is the whole of `connectionSendQueue`: scan
(`Expired`, `Retried`, `Kept`, `Abandoned`, `Restamp`), packing (`Packings`, `Optimized`) and
transmission with any failure of `sendto` (`Failures`, `Transmit`). `Elapsed` subtracts modulo
`Word`, as the code does in 64 bits. The history variables record who pushed a payload, its fate,
how often and under which MessageIds it was transmitted.

*UDPServer.* `accepting` holds the mutex from `AcceptBegin` to `AcceptEnd` or `AcceptFail`, that is
from `serverAcceptClient` to its end; `Turn` is the part of `updateClients` under the mutex, `Peek`
to `Finish` the part without it, where `busy` is the datagram between its peek and its effect.
`Collect` and `Reply` are the application's. `reused` and `strange` are history.

*UDPClient.* `handshake[k]` and `reader[k]` are the program counters of the threads of the k-th
call, with the socket each waits on. Every access to `State` or `Socket` is a step of its own.

*UDPServerLifecycle.* The same for the listen and update thread of each start; `open` are the
sockets bound to the port, which only one can be.

*BrtDispatch.* `at` says which loop of `update` is under way and `iClient`, `iMessage` where it is in
`batch` (`NextClient` when the requests of a client are done); a process makes `left` writes into a pipe of
`Capacity` and exits; a pipe breaks when nobody holds its write end (`held`, `inherits`).

The parts of `MCLibrary`: one action is one call, unless the code can be interrupted inside of it.

*AppRuntime.* `appMain` and `appRender` are the places of the two threads, `appUsers` is
`RenderThreadUsers`, whose interlocked operations are a step each. `appShares` says whether drawing and
input take one mutex, which differs between applications.

*GuiControls.* `guiFlags`, `guiParent` and `guiChildren` are the table, a sequence of slots each; create,
delete, set parent, and a turn of input with any controls under the cursor. *GuiDialog* composes it with a dialog: an
action is a frame, that is a turn of input (`GuiTurned`) and the update of the dialog, with the pointer at one of
the places that differ in what is under them; `dialogKind` says which control is on the screen.
*GuiLayout.* `layoutTable` has the placements and constraints a program builds, `layoutAreas` the areas computed,
`layoutUpdated` the flags, `layoutLast` what was last drawn; an action is a resize, a placement, a text, a turn or a
drawing. `layoutUntold` records what the code leaves outdated (section 5), and is the only exception to freshness.

*ArrayCircular.* The storage, `ringOffset`, `ringCount`; `ringToRead` is a read in progress, an
element a step. *ArrayPod* and *SharedObjects* have the blocks of
memory as sequences, so that reading an element that was never written, or writing over one that was
not destroyed, is visible; in *SharedObjects* the element-wise work of a call is a list of steps
(`SharedDo`), the counts a function, and the destruction after the last release a step of its own
(`RefDestroy`), which any thread may come before.

*JsonReader*, *Expressions*, *XmlReader.* A document or expression is chosen, written as a text by the
module, and read a character a step by the machine of the code (`JsonParseStep`, `XmlParseCharacter`,
`ExprStep`), whose state has the fields of the code's. What the text means is defined on the
document, not on the reader. *PngImages* does the same with pictures: the file is written from the
format, the reader is the code's.

*PathNames*, *Codecs*, *PayloadFormat*, *ViewSerialize.* One variable grows by what a caller may append,
so that every reachable value is an input of the pure functions below it, which the invariant compares
with their inverse or meaning.

*Interning*, *Files*, *Aes*, *Geometry*, *EngineEntities*, *EngineWeapons*,
*DryerProgram*, *DryerSerial*, *GridCopy.* Actions are the calls (frames, in the last ones), in any order
up to a bound. Files fail at any write; `Files` has two sets of variables, of split and join and of files with a checksum. A matrix is the list of places it was multiplied from, a vertex
is where it lies, a shot is its number: what is compared is which, not how much. `DryerSerial` keeps
what is in flight on the port in both directions; the device is external.

*Raster.* An action draws a triangle (or a shape) whole, pixel by pixel as the loops
do; `raster` has the target (`depth`, `image`) and the lists of what is to be shaded (`coords`, `weights`). A step of `LineNext`
is a turn of the loop of `drawLine`, whose state is the point reached and the error.

*EngineScene.* `scene` has the columns of the nodes and the arrays they index, `sceneFile` what has been saved, by
this run or an earlier one, and `sceneMeant` what the callers asked of each node and of those it shares with: the property
compares the two through `SceneLook`, which goes the way `drawScene` does, down to the bytes of the indices.

## 3. Runs

| run | instance | what it shows |
|---|---|---|
| `conn_safety` | 2 payloads, 1 retry, ciphered, clock 2..4, `sendto` may fail; 0.8 M states | one home, bounded transmissions, truthful confirmations; implements `PayloadContract` |
| `conn_settles` | 2 payloads, plain, a duplicate, fair; 0.5 M | what the client pushes settles; a duplicate is one copy more at most |
| `conn_key` (violation) | 2 payloads, reordered | the key found need not be the one ciphered with |
| `server_safety` | 2 clients compete for a slot, loss, `socket` may fail; 0.9 M | recycling forgets the queue; at most one payload of a former client for each reuse |
| `server_handshake` | 2 clients, 2 slots, a duplicated CONNECT, fair; 0.1 M | handshakes end |
| `server_answers` (violation) | 2 clients, 1 slot | an answer pushed by index reaches another client |
| `client` | 2 calls, loss, resets, any speed, fair; 38 k | when threads run within the sleeps: served, no leak, old threads harmless, calls connect |
| `client_failed` (violation) | 1 call | a late handshake connects after the failure was reported, on a socket that nobody reads |
| `life` | 2 starts, 1 slot, 2 attempts, any speed, fair; 0.3 M | `serverStop` returns; when threads run within the sleeps: one server, port freed, stops stop |
| `brt` | 3 requests of 2 clients, outputs of 0, 2 or 3 writes, pipes of 2, fair; 0.5 M | answers are own and whole, write ends are closed, requests are answered |
| `library` | 29 parts (section 2), each alone, fair; 0.42 M | each part keeps what it promises, below |
| `brt_batch` (violation) | 2 requests of a client in one update | the second loses both and ends the application |

Deadlock is not checked: every bound (payloads, sockets, calls, clock) makes behaviours stop that
the program would continue, and a server with nothing to do does nothing.

`library` has `part` chosen in the initial state and never changed; the properties are conjunctions over
the parts, so that a part that breaks is named by the state found:

- `RenderIsSafe`, `AppExits`: nothing is drawn after the cleanup (when the render thread counted itself
  in time, `appTimely`) nor controls during input (when one mutex is shared); main leaves its wait.
- `ControlsAgree`, `ActionsAreEarned`: parents and children agree, no slot is used twice, one control is
  hovered and one pressed, and one acts only after it was hovered and pressed; viewports keep their size, the box shows
  the text that an enter confirms, and tuners, boxes, sliders and titles change as the pointer did; areas are fresh
  and docked controls meet.
- `RingIsQueue`: the ring implements `BoundedQueue`, reads included.
- `DocumentsAreRead`: every text of a document, expression or element is read to its end without error and
  means what was written; keys lead to their values.
- `StorageIsKept` (of `Storage`): shared objects live exactly as long as something points to them, arrays of them and of
  values hold what the calls mean, cut streams load what is whole, a split file is whole in its parts and joined from the
  second on, files with a checksum load as they were saved or are refused, what is interned stays where it was put.
- `DataAreKept`: paths lead to one place, encodings and ciphers are inverted (AES also gives a published
  vector), packed messages are unpacked, pictures are
  the ones written, voxels are listed as they are in their cells, copies are of the overlap.
- `EngineKeepsUp`: shots live their lifetime in aligned columns, nodes follow their parents, meshes are closed and
  turned one way, voxel models have no hole; a node looks as asked, through
  clones, saves and loads; a pixel shows the nearest triangle drawn over it and nothing beyond the
  target is written; a line stays between its ends, has no pixel twice and none further than one and a half from it.
- `DryerRunsItsProgram`, `DryerPumpFollows`: clocks and phases agree, and the pump of the device comes to be
  what the program says.

Each says in its comment where the code falls short of the plain promise, and states the promise with
exactly that exception; section 5 lists them.

### Bounds, and why they are enough

*Connection.* Two payloads are what packing, shared MessageIds, a confirmation of the wrong message
and a key taken from the wrong message need; one retry makes a message pass through every branch of
the scan (retry, last retry, abandon); the clock covers a push, a lifetime and the restamp into the
future. Nothing is pushed later than `MaxPush`, so that what was pushed has time to settle.
`UDPConnection_proofs` removes these bounds for the safety properties.

*Server.* One slot for two clients is the smallest instance where a slot changes hands, and two
payloads of a client the smallest where one is queued while another is handled. `Timeout = 0` makes
an idle slot recyclable at once. `UDPServer_proofs` removes these bounds for its theorems.

*Client, lifecycle.* All hazards are between a call (or start) and the next one; two are enough for
each. `MaxSockets` leaves each start two sockets; a listener that finds none left waits,
which only ends behaviours early, and the shortest ones with all events need one socket a start.
`UDPClient_proofs` and `UDPServerLifecycle_proofs` remove these bounds for the safety properties.

*Backend.* Three requests of two clients give batches of one and two, of one client or two; outputs
that fit the pipe (2), exceed it (3) or are empty (0) are the cases the pipe distinguishes.
`BrtDispatch_proofs` removes these bounds for the safety properties.

*Library.* Each part has the smallest instance in which its hazard occurs: three slots for a tree that
is deleted and created again (a parent, a child, a stranger); a ring of three (both cursors wrap, full
and empty differ); documents two levels deep (an element opened and taken back inside another); paths
of six characters (`//x/..`, a drive with `..`, a share); blocks of four characters and texts of up to
five (no text fits, one does, two do, the terminator does not); payloads up to 7 in a limit of 12 with
sizes modulo `FormatWord` (a size that is cut, a pack that is refused); pictures up to 9 by 10,
where every one of the seven passes has a pixel, and every triple of filters; two threads, two objects and an
array of four (one growth, one last release against a copy); a tuner of three values, sliders
with more values than places, fewer, and below zero, and a box of three letters, which a given text may exceed; lists of controls
in each direction, in windows of two sizes at two zooms, and the buttons, slider and viewports of the applications; two saves (a stale cache); rectangles that start
before, inside and behind a grid of 3 by 2; two drawings out of five triangles (two that share an edge, one across the
border, one behind another, one turned away) on a target of 4 by 3, and lines between eight points in and around it; four calls on a scene (create, change, clone, change) with a file
of an earlier run, and bytes of four values, so that meshes of 3, 9 and 20 positions need each of the widths.

### Assumptions as history

`UDPClient`, `UDPServerLifecycle` and `BrtDispatch` are right only while other threads keep up with
a `sleep`: the code has no other synchronisation there. The models let the sleeps end at any moment
and remember it: `timely` is true as long as everything that could run did so in the sleeps so far,
`silent` says that a call was given up unanswered, `alone` that no client sent a request before its
former one was answered, `failed` that a process could not be started. The properties that depend on
them say so; the others hold at any speed. So one run covers both worlds, and an event that breaks
the assumption ends the promise, not the behaviour.

### Fairness

- *Connection*: weak fairness of the client's `SendQueue` and of `Tick`. The application calls
  `clientUpdate` in its main loop; `Prompt` says that the loop turns at least once in a unit of the
  clock (a unit is a lifetime, a second). The network is not fair: everything may be lost.
- *Server*: weak fairness of the update thread, of the end of an accept, of the clock, and of a client
  that waits in `recvfrom`: these are threads that run or return from calls that do not block.
- *Client*: weak fairness of the steps of both kinds of threads and of the ends of `clientConnect`. No
  fairness of the server: that it did not answer is `silent`.
- *Lifecycle*: weak fairness of `serverStop` and of the threads. Nobody has to connect.
- *Backend*: weak fairness of `update` and of each process. A process that waits for its standard input
  is not modelled.

- *Library*: weak fairness of the two threads of the application (main does not block but on the render
  thread, which returns from drawing), and of the serial thread and the device: the thread loops without
  waiting for anything but the time limit of a read, and a device executes what it has received. `DryerPumpFollows`
  says in its formula that breaks, resets and changes of mind end.

## 4. Proofs

All proof modules are about every value of the constants their `ASSUME`s admit: any sets of
payloads or clients, any bounds, any hash, either value of the switches;
any capacity of the ring and any values in it; any views below the size a packed integer holds, and any number of them;
any threads, objects and pointers, and arrays of any length; any texts and blocks of any size; any file contents;
any number of calls, starts, requests and outputs; any drying program and any lengths of frames.

The induction theorems of the library take an operator, which the provers cannot instantiate. What they are
needed for here, recursive functions over sequences, is proved from the well-foundedness of `<` instead, which is a
fact about a set: `NatSets` and `UpTo` (in `SharedObjects_proofs`) say that a set with 0 and the successor of each of its numbers
has all numbers (up to n), and a proof names the set of the lengths for which its claim holds.

`UDPConnection_proofs`:

- `TypeCorrect`: the type invariant.
- `OneHomeHolds`. `OneHome` says that a live payload is in exactly one message of one queue. It is
  inductive with `TypeOK` and `CommandsBare` (commands carry no payloads), together `HomeInv`. The work
  is in `SendQueue`: `ScanSeparates`, `PackingConserves`, `StampingKeeps` and `TransmitMoves` say what
  scan, packing, stamping and sending do to the set of payloads, and `TransmitOneHome` puts them
  together.
- `TransmissionsBounded`: at most retries + 2 transmissions. The count of a packed message replaces
  those of its parts, so the bound is not inductive; `Budget` adds that what was transmitted and what
  the message may still retry stay within it.
- `ConfirmationsTellTheTruth`: `Truth` relates each MessageId a peer has queued or sent as a
  confirmation, and each it has in flight, to a payload that arrived under it.
- `Implements`: `RefineInv` (`Truth`, and nothing arrives unpushed), each action refines a step of
  `PayloadContract` or a stutter.
- `CopiesAreBounded`: the receiver does not look for duplicates, so the copies an application gets are
  bounded by what the wire carried. `CopiesBounded` says nothing of a datagram that is still in flight, and is not
  inductive; `Accounted` is: the copies that arrived *plus* the requests in flight that carry the
  payload are no more than its transmissions plus the duplicates of the network. A transmission puts one datagram
  on the wire for each payload because a payload is in one message (`OneHome`, `SoleIn`); an arrival takes
  one off it, or is a duplicate. Sets in flight are finite, which is part of the invariant.

`UDPServer_proofs`:

- `TypeCorrect`: `TypeOK` needs `Places` (what the threads refer to are slots there are) and `Held`
  (what an accept in progress excludes).
- `QueueFresh`: with `Window`, which says what the update thread may find of a slot between its peek
  and its effect.
- `StrangersBounded`: strange payloads are at most reuses. The invariant is a potential: `strange +`
  payloads in the slots that are not of their client `+` the one being handled `<= reused +` the reuse
  in progress.

`UDPClient_proofs`, at any interleaving of the threads of any number of calls:

- `ClientTypes`. That `socket` stays within `Sockets` is not a matter of types: it needs that a call creates one
  socket at most, so `Numbered` counts them (`sockets` is the number of calls whose handshake is past it).
- `SocketsAreClosed`, `ConnectedIsServed`, `ReadersDisconnectTheirOwn`, `HandshakesGetTheirs` rest on one
  invariant, `OneAtATime`: in a timely behaviour the threads of all calls but the last are over, and
  those of the last are where the application can rely on them: alone with the socket while
  `clientConnect` looks at `State` (`Polling`), over or waiting in vain once it has given up (`Failing`), and a reader on a
  confirmed socket, or no thread that matters, between the calls (`Ready`).
- `FailuresAreFinal`: what the run `client_failed` refutes in general (a call that failed may connect
  the client later) holds in a timely behaviour. So the sleeps are what the promise rests on.

`UDPServerLifecycle_proofs`, for any number of starts, sockets and clients:

- `LifecycleTypes`, with the numbering of the sockets.
- `OneServerAtATime`, `PortFreed`, `ClientsKept`, again from one invariant: in a timely behaviour former
  starts are over, and the last serves (`Serving`: its listen thread has, or comes to have, the only open socket), is
  being stopped (`Stopping`: it waits on a socket that `serverStop` wakes, or is past it), or is over.

`BrtDispatch_proofs`:

- `BrtTypes`: `BrtInv`, which says where each request is: received, in the batch, or answered, once
  (`Numbered`, `AnsweredOnce`, `ResponsesOfBatch`); that what was not executed has no process and an empty pipe
  (`Processes`); and that the pipes and the process of a client are those of the last of its requests that was executed
  (`Pipes`), which is why a second request in one batch is the trouble of `brt_batch`.
- `HandlesAreReleased`, and `AnswersAreTheirs` where clients wait: `Alone` says that a client then has one
  request at most that is not answered, so the pipes are of the request that is read, and
  the write ends held are of requests executed and not yet read.
- `AnswersAreComplete`, and `AnswersAreTheirs` where outputs fit the pipes and processes write them in the sleep: `Slept...`
  says that no process is left once update reads, so the first read takes all. A client
  may have sent two at once here: the second read finds nothing, and update ends before any answer is pushed.
  This case is why an answer is not its own as soon as it is read, but when it is pushed.

`SharedObjects_proofs`, for any threads, objects, pointers of each thread and length of the array:

- `ObjectsLiveCorrect`: an object is alive as long as a pointer to it is somewhere, and is destroyed once, by one thread. The invariant
  (`SharedKept`) says that each count is the number of places that hold a pointer: of the threads, and of the array.
  An object is dying in exactly one thread's list when that number has come to 0, and nobody can copy a pointer that is nowhere.
- `SharedHoldsCorrect`: the array holds what its calls mean and its memory nothing beyond (`SharedPlaced`). A
  call of the code is a list of steps on raw memory (`SharedDo`: construct, copy, move, assign, destroy). One lemma for all of them,
  `SharedDoBalanced`, says that a list of steps keeps the counts right if each step finds what it needs, constructs
  only where nothing is and destroys only what is there; `SharedLeads` says that, and where the steps lead the memory. Then every loop
  is a lemma on its own, composed along the call: growth into a new block (`LeadsTransit`), the same with a chain between, shifts up and
  down, destruction of a tail. They are proved along a trace of the memory after each step, given as a function of how
  far the loop has come, so that no proof needs the recursion but `SharedDoBalanced`.
- `SharedTypeCorrect`: the type invariant, whose part on counts follows from the same.

`Storage_proofs`:

- `StorageCorrect`: `StorageIsKept` for the six parts of `Storage` at once, by the theorems below and the two above.
- `PackedIsExact` (a count below 2^30 unpacks to itself, at the head of any stream, from as many bytes as
  were written, in each of the four widths), `ViewLoadsAsSaved` and `ViewCutIsRefused`, about a single view.
- `StreamLoadsCorrect`: wherever a stream of any number of views is cut, what loads are the first of them. `StreamInv` names the stream
  that is left after each view (`StreamParts`), `StreamReached` where a reader is after any number of turns: past whole views,
  with the same cut of what is left. A turn on less than a view is refused, and so are all after it.
- `PodHoldsCorrect` (`ArrayPod`, for elements, chains and lengths of any kind; `PodChains` are sequences of `PodValues`): the
  invariant `PodInv` adds that memory only holds values, garbage or the empty element, and names the elements one by
  one. `PodEndsHolding` is how every call ends; the calls that put a chain somewhere share `PodPutHolding`, those
  that remove one element `PodMovedOver`. `PodShiftedIs` is the hard one: after `insert` moved the tail up, a chain
  of the array's own is read back whole from after it, from before it or from both sides.
- `FilesWholeCorrect` (`Files`): the parts of a split that ended well are the file, and a join reads it from the second part
  on, with what older parts hold. `FilesInv` says what a split or join that is under way has done: the parts written are
  those of the file that was read (`FileWritten`), and what was joined is what the parts before this one hold (`FileSum`).
  `FileEndsAre` is the arithmetic of where parts meet: at multiples of the size, the last one at the end and not empty,
  whether or not the size divides the length. That parts in a row are what lies between their ends (`FileParted`) and that
  sequences of parts can be put together piece by piece (`FlattenJoins`) are inductions on their number, by `UpTo`. It
  is assumed that no content is one of the two marks that stand for no file and for an error.
- `SecureLoadsCorrect` (`Files`): a file with a checksum loads as it was saved, and is refused when it was cut anywhere. `SecureInv` says
  that the file is a beginning of what was to be saved; `SecureVerifies` that only the whole of it passes. This needs that no beginning of
  a content ends with its own checksum by chance, which is `SecureAssumption`: a sum of bytes can promise no more.
- `InternedCorrect` (`Interning`): what was interned is read where it was put, under its index, and a manager that was saved and loaded
  reads the same. `InternInv` says that every entry lies within what is taken of its block (`InternGood`, and `InternFits` where
  room is counted right: all blocks of views, and the first of labels); `InternGrown` what an addition does, in an
  old block or a new one. A manager that is loaded is built again entry by entry (`InternCopies`, by `UpTo`).
- `StreamTypeCorrect`, `SecureTypeCorrect`, `InternTypeCorrect`: their type invariants.

`Library_proofs` is about six modules of the library that share nothing.

`ArrayCircular`:

- `RingTypeCorrect`: the cursors stay in the storage. The bound of `ringToRead` by the room that is left
  is part of the invariant: without it a read could push beyond the capacity.
- `RingImplementsQueue`: under the mapping of the two views to one sequence, `next` is a take, a push a
  put, a `read` a series of puts. It rests on `PairElements`: the k-th
  element of the two views is in the slot `(Offset + k - 1) % mAx`, on either side of the end of the storage.

The lines of `Raster`, between any points and targets of any size:

- `LineStaysCorrect`: the point reached stays in the box of the two ends, steps only towards the end and no further. It
  needs `LineInv`: the error is a function of the moves made along each axis
  (`err = dx + dy + moved(x) dy + moved(y) dx`), which the loop rests on without saying so. When the moves of
  one axis are all made, the error forbids another (`LineKeepsX`, `LineKeepsY`).
- `LineNearsCorrect`: `LineNears`, by the same equation: with it every turn brings the end nearer.

`AppRuntime`:

- `AppTypeCorrect`, `RenderIsSafeCorrect`: `AppCounterTells` is what `RenderThreadUsers` means: the number of threads that
  have counted themselves and not reported that they are done, until main has found 0 and left the -1 it goes by. A render
  thread that counts itself after that makes the -1 a 0, and never takes it for the end: `appTimely` excludes just this.

`DryerProgram`:

- `DryerTypeCorrect`, `DryerRunsCorrect`: the clock and the counters of the phases disagree by at most a frame for
  each phase that ended. The products of durations and subcycles are given to the prover as lemmas
  (`DryerProducts`). The code admits no subcycles, phases of no duration and frames that take less than a
  millisecond, so the assumption on the constants does, too.

`GridCopy`, for every two grids, offset and size:

- `GridCopiesCorrect`: `GridCopiesOverlap`. On each axis the count that the code computes is how much of the source, from
  where it meets the target, lies on it (`GridAxis`, `GridExtentIs`); what a call copies and what overlaps are then
  compared cell by cell. Needed of a call: only blend has an offset before the source (`GridCallIs`, the invariant).

`PayloadFormat`, for every queue, width of a size and limit:

- `FormatPacksCorrect`: `FormatPacksUnpack`, the part of `PackedIsUnpacked` that is about packing: what is taken can be
  packed, a pack says of no byte it does not hold, and one that is not refused is unpacked into what was taken.
  Where the code reads from one offset to the next, the proof has the bytes of the first parts (`FormatFirst`):
  sizes that fit add up to it (`FormatEndsAre`), and the next part follows (`FormatPartIs`). That no count wraps
  follows from the limit, which is at most three times the width of a count (`FormatAssumption`). That nothing else is
  lost or sent twice by a turn stays with TLC.

Only model-checked: every liveness property (out of the prover's reach), `PickedUpIsAnswered` and the other properties
of violation runs, and the other parts of the library (`ControlsAgree`, `ActionsAreEarned`, `DocumentsAreRead`,
`DataAreKept` but for the copies between grids and the packing, `EngineKeepsUp` but for the lines, and `LibraryTypeOK` but for the parts above). Of these, `GuiControls`,
`GuiLayout`, `EngineEntities`, `EngineWeapons`, `JsonReader`, `XmlReader`, `Expressions`, `Codecs` and `Aes` are recursive as their code
is, and `Codecs` and `Aes` use bitwise operators, both of which the prover cannot take in.

## 5. What was found

Four runs show the code doing other than it says; `PROJECT.json` quotes the lines.

- `conn_key`: `handlePAYLOADRequest` takes for key the time of whichever payload arrives first.
- `server_answers`: the backend answers `Clients[iClient]`, whoever has that slot by then.
- `client_failed`: `clientConnect` reports a failure and its handshake thread connects the client afterwards. In the
  trace the thread is late: the call has failed, and closed what there was, before the thread opens its socket. The new
  socket stays open, the server has its confirmation, the client is IDLE, and nothing reads what is sent to it.
  (A thread that has its socket when the call fails finds it closed, and fails too. Only one that had already
  confirmed sets IDLE in spite of that, with the socket closed; the model has this as well.)
- `brt_batch`: pipes and process are per client and a second request of the batch overwrites them; a
  retransmitted request is enough.

Seen while modelling and part of the models, without a run of their own. The network and the backend:

- A retried message is stamped a lifetime in the future, the unsigned difference of the next scan wraps
  (`Elapsed`), and its next retry is spent at once. `SUDPServer.Timeout` is read only when somebody else
  connects. A stop that comes before the listen thread of a start has run is forgotten, and so is the
  DISCONNECT a stop sends while the listening socket is being recreated. A process that writes more than its
  pipe holds and exits between `ReadFile` and `GetExitCodeProcess` is cut.
- Packed sizes are cut to 16 bits though payloads go to 128 K (`gpk_connection.cpp:89`); what fits is counted
  without the sizes themselves (82 against 142); an empty plain payload makes every turn of
  `connectionSendQueue` fail (`gpk_view_stream.h:31`), and what it sent before is sent again.

Containers and encodings:

- `array_circular::append` stores one element (`gpk_array_circular.h:41`). `array_obj::insert` of an empty chain
  destroys the elements after it; appending or inserting an element of the array itself reads it after it
  was moved; `split` skips the character after a separator.
- `CLabelManager::Load` into a manager that has the empty label misaligns texts and counts
  (`gpk_label_manager.h:46`) and does not advance its input. A block of texts has its terminator one place too
  far and one byte of room too many (`gpk_block_container_nts.h:46`).
- base64 drops trailing zeros (`gpk_base64.cpp:102`). JSON loses the sign of integers (`gpk_json.cpp:356`). What is
  composed to a drive alone (`C:`, its current folder) goes to the root of the drive (`gpk_path.cpp:234`).
- `mapTableMapAdd` of `gpk_block.h` does not compile when it is instantiated; `blockMapLoad` pushes the block before it
  knows that its file loads.

Files:

- An empty file cannot be loaded, and its handle leaks (`gpk_file.cpp:209`). A limit of size is not respected by
  the read (218).
- `fileSplit` writes parts from `.00`, `fileJoin` starts at `.01` and empties the file first: the first part is lost,
  and a file of one part becomes empty (164). Parts of an earlier, longer split are joined too.
  `fileSplitLarge` tests its file before it opens it (124) and always fails.
- `folderPack` never stores the count that `folderUnpack` reads; `gpk_unpak` takes its own name for its source.
- A cache that is used again loads what it deflated first (`gpk_deflate.cpp:311`). The checksum adds every byte twice
  whatever its place: permutations pass, and nothing has the checksum 0.

Readers:

- Expressions: an operand of `&&` or `||` that is not found counts as true, and `!` of it is false
  (`gpk_json_expression.cpp:69`, 134); a first term in parentheses or after `!` is looked up at the document (79); `==`
  of different numbers leaves the number (229); `c ? x` without else gives `x`; an index without quotes is
  looked up as a key (105), which `json_expression_notation.txt` does not say; errors of the reader's step are
  swallowed (`gpk_expression.cpp:370`).
- XML: `<b/>` has the name `b/` (`gpk_xml_reader.cpp:169`); text right after a tag with attributes has no token (120).
- PNG: the seven pictures are taken for empty when the whole is up to four pixels wide or high
  (`gpk_adam7.cpp:24`).

Engine, meshes, grids:

- `SShots` saves `PositionDraw` and `PositionPrev` in one order and loads them in the other (`gpk_weapon.h:78`, 90);
  the integrator saves no bounding volumes; the clone of an entity is not listed by its parent
  (`gpk_engine.h:102`).
- A box added to a mesh reads beyond its tables (`gpk_geometry.cpp:13`); caps of cylinders have 16 slices whatever the
  wall has; rings of tubes start a quarter of a turn away from the walls; a helix has neither the indices of its second half
  nor all normals; the meshes that entities share ignore orientation, and all helices share one map.
- Erasing a voxel removes another and lists the erased one (`gpk_voxel.h:195`); slices of a voxel model count
  the triangles of all before (`gpk_voxel_geometry.cpp:59`), material and alpha are read one apart (74, 88), a
  coordinate at its limit has its neighbour at the other end.
- The versions of one drawing differ. The depth of a line is interpolated by `1 / (factor * coordinate)` instead of the
  progress from its start; steep lines of `gpk_bitmap_target.h` that are listed need `y >= 50` (331); the first point of a
  listed line is not tested against the target; a circle lacks its last column and row, and the one of a bitmap is
  another when it is cut on the left. The functions that list pixels leave it to callers to empty the lists.
- What is made with parameters that are known clones the first node as it is by then, colour and shader included, and what
  is known is not forgotten by `Load`: after it, a box may be any node of the loaded scene, or one beyond its end
  (`gpk_engine.h:201`). Shaders are not saved, so loaded nodes use whichever have their numbers by then. Clones share a list
  of lights, and loading writes into it for each (`gpk_engine_rendernode.h:128`). Images are looked up by their path but
  never stored under it (`gpk_engine.cpp:213`).
- `drawScene` returns at the first node behind the camera: nodes after it are not drawn. Indices of four bytes are counted
  as if they had two (`gpk_engine_scene.cpp`), and the slice of a node is computed and not used.
- `grid_copy` tests one of its two limits: rows that end before the target run astray where there are no columns
  to copy; a rectangle that starts before the target has more copied than it holds; `blend` copies less than it could.

Dialogs:

- A control that is entered in the turn in which the button is released stays pressed with the button up
  (`gpk_gui.cpp:519`). A slider shows its value only after the first `sliderSetValue`. A tuner of an unsigned type whose
  minimum is 0 goes from there to its maximum (`gpk_dialog_controls.h:118`); the one in use starts at 100. A text that is
  given to the input box may be longer than what may be typed. Escape and enter in one frame confirm. A viewport folded
  before its first update would open with the two pixels its client area was created with. The keyboard on the screen takes
  the number of a control for its key, so it has to be created before any slot is free.
- `controlTextSet` outdates the control and not those docked to it (`gpk_gui.cpp:645`). The wheel computes the areas for the
  window instead of what was last drawn (`gpk_framework.cpp:161`); when it is turned back before the next drawing at the old size,
  `guiDraw` finds nothing changed. Above another control a control keeps its border unzoomed, and its place in the window
  is added to that of the other unless that one is aligned to the bottom (`gpk_gui.cpp:449`).

Dryer and applications:

- A stopped program leaves `State.Pump` on (`dryer.cpp:87`); commands pile up while the port is closed; a lost port makes up
  temperatures (176); `screenSwitch` compares a screen with itself (`dryer_app_update.cpp:93`).
- `gme` and `brt` draw controls under one mutex and process their input under another or none.

## 6. Simplifications

- `LastPing` is kept by `UDPServer` (for the timeout) and left out of `UDPConnection`, which has no
  timeout. Two equal datagrams in flight are one of the set.
- A key that deciphers wrongly delivers a payload marked as such; lengths and contents of payloads
  are not modelled.
- `UDPServer`: retries are those of `UDPConnection`; a client is one attempt to connect; a CONNECT that
  waits in the listening socket while it is recreated is a lost one (`DropCall`).
- `UDPClient`: the server is what answers a socket once called; `FirstPing`, `KeyPing` and the queues
  that `clientConnect` clears are left out.
- `BrtDispatch`: standard input of the processes, failures of `CreatePipe` and leaks of process
  handles are left out; the loops over clients and messages are one loop over the batch.
- Library: floating point is left out (what is near, fast or bright), and so are failures of allocation, but for
  files every write may fail. A keyword, a number or a name is one character of a text. Layout and drawing of
  controls choose what is under the cursor: `GuiControls` takes any choice, `GuiLayout` has no cursor; its zoom is integral.
- Files of the reader of pictures are those of a writer that follows the format; damaged ones are not tried.
  Deflate (miniz) is a function with an inverse.
- `SharedObjects`: the array is used under a lock, the counts are not. `Files`: one file and its parts.

## 7. Plan, and what is not modelled

Done: the UDP layer, the backend, their contract and proofs; the data structures, readers, encodings, files,
meshes and applications of section 2. What is left, in order of what it would tell:

1. Composition: `UDPServerLifecycle` with the turns of the update thread of `UDPServer` (an offset of a list
   copied before `Clients` was cleared).
2. Theorems: that a turn sends each message of the queue once (the rest of `PackedIsUnpacked`). `GuiControls` and
   `EngineEntities` would need their recursion as a relation on the table first.
3. `LinearMap` and `KeyedBitArray`, folders that are packed, `serialRead`, tile maps (`gpk_geometry_lh.cpp`).

Not modelled, because there is nothing in it that TLC could find and arithmetic would not: shading and light,
audio and windows, matrices and coordinates, physics and orbits; tables (log
levels, wave banks, shaders); the readers of Ragnarok and bitmap files, which copy structures; code of one platform
that passes a call on (HTTP, smart card, serial, Android); what is generated or vendored. The map covers a small share
of the lines of the repository for that reason.
