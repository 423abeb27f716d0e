# QAIOS+ in TLA+

QAIOS+ is a C++ kernel with its own desktop: one address space, one main loop,
interrupt handlers that cut into it, and an event system through which almost
everything talks to everything else. There are no threads and no scheduler in
use at this commit, so its hard behaviours are of six kinds:

* **interrupts against the main loop**: IRQ 1 posts keys into the queue the
  loop is draining, without a lock;
* **re-entrance**: handlers called from a loop over a table change that table,
  post to the queue being drained, or destroy the object that is calling them;
* **long-lived data structures**: rings, block lists, cluster chains, reference
  counts, cached positions and trees that have to be right after any sequence of
  legal calls;
* **devices that work beside the processor**: a disk that fails or loses power
  between two sectors, a USB controller and a TPM that answer late or not at all,
  a network card and the hosts behind it, a display that reads the frame buffer
  when it gets to it;
* **limits**: full queues, tables, volumes and rings, exhausted memory, and the
  error paths that few tests reach;
* **computations with many cases**: layout expressions, theme layers, image and
  text formats, clipping, paths and command lines.

The modules below are translated from the code, function by function.
`PROJECT.json` holds the exact correspondence (`map`: definition -> file and
lines), the runs, the mutated definitions that show that every property can
fail, and the hazards the properties are for.

A run is `tlc -config X.cfg M`, the proofs of a `*_proofs` module are checked by
`tlapm`.

## 1. The system

| Component | State it keeps | Operations | Talks to | What makes it correct |
|---|---|---|---|---|
| Event queue (`QEvent/src/QKEventQueue.cpp`) | `m_events`, `m_head`, `m_tail`, `m_count`; the immediate queue likewise | push with priority insert, pop, clear, clearType, clearCategory | called by the event manager, from the loop and from IRQ 1 | hands out the oldest event of the highest class, each once; never writes outside the array |
| Event manager (`QKEventManager.cpp`) | both queues, tables of listeners and receivers with counters, `m_dispatching` | post..., processEvents, dispatchImmediate, add/remove/enable | calls listeners and receivers, who call back | nothing queued is lost or handled twice; nobody skipped or called twice; queues drain |
| Input path (`QKDrvPS2Keyboard.cpp`, `QKDrvPS2Mouse.cpp`, `DesktopSession.cpp`, `QDrvTimer.cpp`) | the keyboard's output buffer, modifier flags, the mouse's packet, remembered buttons, the loop's position | IRQ 1, poll, mouse callback, `hlt` | posts to the event queue | an accepted event is dispatched; `hlt` strands nothing; a key or a movement is reported as it was made |
| Message bus and service registry (`QKMsgBus.cpp`, `QKServiceRegistry.cpp`) | 64 subscription slots, service entries, reference counts of envelopes | subscribe, unsubscribe, publish, onEvent; register, unregister, sendTo | a receiver of the event manager; clients are windows, terminal, command processor | counts exact, every subscriber called exactly once, every envelope freed |
| Shutdown controller and dialog (`QKShutdownController.cpp`, `QDShutdownDialog.cpp`) | phase, UI handler, vector of subsystems; the dialog's window | requestShutdown, confirm, register, unregister; open, close, buttons | a listener of the event manager; calls subsystems and the desktop | nobody asked twice, nobody missed for no reason, the phase is never stuck |
| Kernel heap (`QKMemHeap.cpp`) | block list in the arena, `m_usedSize`, `m_allocationCount` | initialize, allocate, reallocate, free | `operator new` and `delete` of everything else | regions in the arena, disjoint, never lost to the list |
| Window manager, windows, desktop (`QWWindowManager.cpp`, `QWWindow.cpp`, `QDDesktop.cpp`, the dialogs, `QDTerminal.cpp`) | z-order list, focus, drag, pending destructions, dispatch depth; the desktop's pointers to its windows, the taskbar | create, destroy, focus, raise, event routing; open and close of each window | a receiver of all events; windows own controls that call back | no pointer to a destroyed window, what is taken off the list is deleted, the taskbar shows what is open |
| Compositor and display (`QWCompositor.cpp`, `QDrvVmwareSVGA.cpp`) | dirty rectangles, the frame buffer, the device's command FIFO | invalidate, compose, present | windows above, the display device below | what is on the screen is what the windows look like |
| Controls (`QWControls`) | a tree with cached positions, focus, hover and capture; text buffer, slider, combo box | layout changes, mouse and key events | windows above, handlers of the desktop | what is drawn, hovered, focused or pressed is what the next event goes to |
| Network (`QNetwork`, `QKDrvE1000.cpp`) | connections, listeners, bindings, datagram queues, the ARP cache, two descriptor rings | connect, listen, accept, send, receive, close; poll | card and hosts below, sockets and the shell above | both ends of a connection agree, datagrams in order, nothing waits for ever |
| Root volume (`QFSFAT32.cpp`, `QKSecureStore.cpp`, `TpmSecureStore.cpp`) | link table, directories, data; wrap keys, TPM sessions and objects | lookup, open, write, close, remove, directories; seal, unseal, the self-tests | boot, setup wizard, terminal | no cluster in two files or in none, what was saved is read, keys are only given out where they belong |
| Volumes and their tree (`QFSVolumeManager.cpp`, `QFSVFS.cpp`, `QFSFATProbe.cpp`, `RamdiskMount.cpp`, `LimineModules.cpp`, `QKStorageProbe.cpp`, `QKDrvIDE.cpp`) | volume records, mount points, file systems, one stage of the boot | choose the ramdisk, probe disks and modules, register, mount, retry, unregister; resolve a path | boot, the drivers' poll; everyone who opens a file | the three tables say the same, no medium serves twice, a path leads to the volume above it |
| Shared volume (`QFSFAT16.cpp`, `QKDrvIDE.cpp`) | the medium, the mount state | probe, mount, save | terminal and console (`saveterm`), volume manager's poll | the medium is consistent and holds the last save after errors and power failures |
| USB (`QKDrvXHCI.cpp`) | command, event and transfer rings, device table | enumeration, transfers, reports | controller below, mouse callback above | an answer is taken for its own request, every report handed on once, no pointer falls silent |
| Graphics and style (`QGraphics`, `QWStyle*.cpp`) | pixels | lines, rectangles, gradients, text, images, PNG; the look of windows and controls | the compositor | what is drawn is what the shape says inside the clip, and nothing else |
| JSON, desktop layout, themes (`QCJson.cpp`, `QDDesktop.cpp`, `QDTheme.cpp`) | the desktop's tree of controls, colours and metrics | parse, build, apply, free | files on the root volume | texts are parsed as the grammar says, layers override in order, every control is freed once |
| Console and commands (`QKConsole.cpp`, `QKCommandCenter.cpp`, `QCCommandRegistry.cpp`, `StartupConfig.cpp`) | input line, command tables, working directory, transcript, start-up settings | keys, lines, commands, `/startup.cfg` | keyboard, file system, network | the line that is seen is the one that is run, a path leads where it says, the last setting is in force |
| Page tables and early pages (`QKMemVMM.cpp`, `QKMemTranslator.cpp`, `EarlyMemory.cpp`, `AcpiTables.cpp`) | the tables behind CR3, `m_mmioBase`, `g_earlyDmaOffset` | map a range, windows for registers, walk ACPI's tables, take a page | boot, TPM and the drivers of the card and of USB | a window reaches its device, what is read is mapped, no page serves two |
| Tasks, page frames, interrupt controller, UHCI, logger, security centre | see `PROJECT.json` | | | not modelled, with the reason for each |

How they interact: IRQ 1 and the polling loop put events into the queue
(`InputPath`, with `Ps2` for what the bytes mean); `processEvents` takes them out
and calls listeners and receivers (`EventManager`); one receiver is the message
bus, which delivers to subscribers and services (`MessageBus`), one listener is
the shutdown controller (`Shutdown`), one receiver is the window manager
(`Windows`), which calls the windows of the desktop (`DesktopUI`) through their
controls (`Controls`). What they change gets to the screen through dirty
rectangles (`Screen`), drawn by `Painter` in a `Style`. The terminal and the
setup wizard write to the two volumes (`SecureStore` on `Fat32`, `SharedVolume`);
the main loop polls the card (`Network` on `NetStack`) and the USB controller
(`Xhci`). All of them allocate from the heap (`Heap`), which nothing does that runs
in an interrupt; drivers take their rings and buffers from the pool of early pages
and reach their registers through the page tables (`PageTables`).

## 2. The modules

| Module | Models | Composition |
|---|---|---|
| `EventOrder` | what the main queue promises: a bounded priority order | abstract |
| `EventQueue` | the ring, every call atomic | implements `EventOrder` (`ImplementsOrder`) |
| `InputPath`, `Ps2`, `MCInputPath` | main loop, keyboard interrupt, timer, the queue's statements one by one; scan codes and mouse packets | instantiates `EventQueue` for the ring's geometry |
| `EventManager`, `MCEventManager` | queues, tables, dispatch, re-entrant handlers | its queues are `EventOrder`'s ordered sets |
| `MessageBus` | bus, registry and envelopes on top of the event manager's queue | relies on `EventOrder` for FIFO order of one class |
| `Shutdown` | controller, callbacks, dialog | relies on the same FIFO order |
| `Arena` | what clients of `new` and `delete` rely on | abstract |
| `Heap` | block list, split, merge, counters | implements `Arena` (`ImplementsArena`) |
| `PageTables`, `MCMemory` | mappings, register windows, ACPI's tables, early pages | `MCMemory` extends `Heap` and `PageTables` |
| `Windows` | the window manager's operations on one record | used by `DesktopUI` and `Screen` |
| `DesktopUI` | terminal, setup, login and shutdown dialogs, taskbar, command replies | extends `Windows` |
| `Screen` | dirty rectangles, composition, presentation, the SVGA device | extends `Windows` |
| `DesktopScreen`, `MCDesktop` | the two sides of the desktop in one specification | `DesktopScreen` extends `DesktopUI` and instantiates `Screen`; `MCDesktop` extends it and `MCGraphics` |
| `Controls` | the tree of controls, text box, slider, combo box | |
| `Fat32` | the file system as operators on a volume | used by `SecureStore` |
| `SecureStore` | boot demo, secure store, TPM, setup wizard on the root volume | extends `Fat32` |
| `Mounts` | which volumes there are, where each is mounted, what a path leads to | |
| `SharedVolume`, `MCSharedVolume` | the FAT16 disk, access by access | `MCSharedVolume` extends `SharedVolume` and `Mounts` |
| `StartupConfig`, `Console`, `FatNames` | `/startup.cfg`; console, terminal and shell commands; names on the shared volume | instantiated by `MCSharedVolume` |
| `NetStack` | ARP, ICMP, UDP, TCP, sockets and card rings on one record | used by `Network` |
| `Network`, `MCNetwork` | programs, poll, card, hosts | extends `NetStack` |
| `Xhci` | the USB driver and its controller | |
| `Painter`, `Style`, `Png`, `Json`, `MCGraphics` | drawing, the look of windows, images, the parser | functions, compared with references |
| `DesktopLayout`, `Theme` | the desktop's file and its themes | functions, compared with references in `MCGraphics` |
| `EventQueue_proofs`, `EventManager_proofs`, `InputPath_proofs`, `MessageBus_proofs`, `Shutdown_proofs`, `Heap_proofs`, `Network_proofs`, `DesktopScreen_proofs` | theorems | each extends its component; `EventQueue_proofs` also extends `Controls`, `Heap_proofs` `MCMemory`, `InputPath_proofs` also `Xhci`, `Shutdown_proofs` also `Mounts` and `SharedVolume` |

There are two kinds of modules. Most are state machines, one action per
operation or handler. `Ps2`, `Painter`, `Style`, `Png`, `Json`, `DesktopLayout`,
`Theme`, `StartupConfig`, `Console` and `FatNames` are pure: the code is written as functions of its
input, followed by a reference definition that says the same thing in another way
(sets of points for rectangles, a grammar for texts, a walk for paths, the last
layer that speaks for themes). Their comparisons are named assumptions of the MC
modules, which TLC evaluates before it explores the run that extends them. No
invariant or temporal property depends on them, and nothing is proved about them.

**EventQueue.** `events`, `head`, `tail`, `count` are the members; `posts` is
the timestamp `getTimestamp` draws, `out` the event the last pop returned.
`Push` is the whole of `push`: the refusal of a full queue is `PushFull`, the
append and the insert with its backward shift are `InsertIndex` and `InsertedAt`.
`ClearTypes` covers clearType and clearCategory, which differ only in the test.
`PushPastEnd` is a push with the tail outside the array; what the store hits is
undefined, so the model stops there (`wild`).

**InputPath.** `pc` is the statement the loop is at. Between any two of them
`KeyIrq` may run the whole keyboard handler; interrupt gates keep it from being
interrupted itself. `m_count++`, `m_count--` and the update of `m_tail` are a
load and a store, with the loaded value in `reg`. `Breaks` are the statements at
which a push by the interrupt damages what the loop is doing, `cut` remembers that one
came there. The keyboard's output buffer is
one byte deep; `PollStatus` and `PollData` are the two port reads of `poll()`,
with the interrupt possible in between. Mouse movement and buttons come from the
polled driver through the callback in `DesktopSession.cpp`. A key is a number
here; what the drivers make of the bytes is `Ps2`: `HandleKey` and `HandleMouse`
are the two `handleInterrupt`s, as functions of the state and one byte.

**EventManager.** `stack` holds one record per `dispatchEvent` in progress: its
event, how far the scan is, and whether a handler is running. `run` holds the
locals of `processEvents`. User code acts when the stack is empty or its top is
in a handler, and may do everything the header offers: post, clear, add, remove,
enable, `dispatchImmediate`, `processEvents` (which returns at once while
`m_dispatching`). `called`, `touched` and `newFrom` in a frame are history for
the properties.

**MessageBus.** `subs` and `services` are the slot tables, `refs` the reference
counts; `queue` holds the custom events that carry an envelope and `others`
counts foreign events, which take up capacity. `OnEvent` starts a delivery and
calls the first subscriber; `HandlerReturns` goes on from `slot`, reading the
topic from the envelope again, as the loop does. In between, `Client` may do
anything the two interfaces offer. `serving` marks a service's handler running
inside the registry's. Two rules of the callers are assumed, and hold for all of
them in this repository: a reference is released by who holds it, and nobody
redirects with `sendTo` the envelope whose delivery it is part of.

**Shutdown.** `pc` says where the stack is: between events, in the loop of
`notifySubsystems`, in a callback, or halted. Callbacks may register and
unregister anyone and post requests; `confirm` is called by the dialog's buttons
only, as in the code. The dialog's layout and the port writes are left out. The
UI handler always accepts, as `Desktop::onShutdownRequested` does.

**Heap.** Addresses are offsets; `blocks` maps each header's offset to size, used
flag and both links, and is not assumed to be well formed: that it is, is
`ShapeOK`. `Split` and `Merge` are the code's on that list. `granted` is what
clients hold, with the bytes they asked for. `reallocate` is two actions: in
place, and by moving (allocate, copy, free, as one call). Assumed of clients:
they free and reallocate only pointers they hold, and sizes within 15 bytes of
2^64 are not requested.

**PageTables.** A frame that is taken for a table is a function from slots to
entries; the loader's tables, with pages, large pages and holes, are chosen in
`TablesInit`. `Map` makes the tables that are missing, as `getOrCreateTable` does,
and follows an entry without a look at its large-page bit, as it does; `Reached`
is what the processor makes of the same tables. `EnumerateTables` is the list of
what the ACPI walk maps and reads (`Looks`), one after the other; addresses are in
units of a quarter of a page, so that a structure may lie across two. The pool is
`used`; it never takes back. The boot, in this order, is `Enumerate`, then windows,
pages and TPM commands.

**Windows, DesktopUI.** `Windows` is the window manager as operators on one
record, in the order of the code: the list is taken, the pointers are reset, the
deletion is deferred when a dispatch is on the stack. `DesktopUI` adds the
handlers of every button and key that opens, closes or raises a window, the
terminal's entry in the taskbar, the login's enrolment and the queue through which
an answer gets back to a terminal that may be another one by now. A dispatched
event is two steps, its handlers and `Return`, because destruction is deferred in
between; a mouse event may be lost to a full queue (`lost`).

**Screen.** The screen has one dimension and a cell is one bit: what matters is
which rectangles are redrawn. Every operation of the window manager invalidates
what it invalidates in the code; `Render` is compose on the list of dirty
rectangles, `Present` hands the rectangles to the device one command at a time,
`Device` takes commands from the FIFO, wraps included, and reads the frame
buffer when it gets to them. With `card.svga` false the front buffer is the
screen. `DesktopScreen` puts the two modules side by side: in each behaviour one of them moves
and the other stands still (`side`), because handlers change what a
window is while compose never does.

**Controls.** `ui` is the form: every control with its place relative to its
panel, the cached absolute place with its mark, and the pointers for focus,
hover and capture of every panel. `MouseMove`, `MouseDown`, `MouseUp` go down the
tree as `Container` does. The text box has buffer, capacity, length, cursor and
growth that may fail; the slider its thumb; the combo box its edit field, list
and selection.

**Fat32, SecureStore.** `Fat32` gives every call of the file system as an operator
from a volume to a volume: the clusters' links, the entries of every directory,
the contents of files. The ramdisk cannot fail, so a call is one step.
`SecureStore` runs one boot on it: the demo file, the first self-test, the
second with its flag from the boot before, each sealing and unsealing through
a sequence of TPM commands (`SealProgram`, `UnsealProgram`), one operator each, of
which any may be refused (a session's policy is the list of the PCR values it was
bound to), then the setup wizard, logins and saved transcripts. `hits` counts what
was injected and what ran full.

**SharedVolume.** One save is a job of single disk accesses: find the entry, free
the old chain, clear the entry, allocate and write clusters, write the entry. Each
access may fail, the power may go between any two, and the code goes on after
most errors, as it does here. `last` remembers what the last save reported as
done; `torn` and `counts` say where errors came, for the properties. `Reached` are the
clusters that are reached link by link, the least set that is closed under the links,
and `Reads` says that a text is what a reader of an entry gets.

**Mounts.** `records` are the volume manager's entries, `mounts` the tree's mount points in
their order, `live` the file systems that exist with the device and the place where each
reads its data, `dirs` the directories that were made for mount points. The boot goes
through its stages in the order of the code: the ramdisk is chosen among the boot loader's
modules and registered, mounted again if that failed, then disks port by port, then the
other modules; beside them the volume manager's poll sweeps over its records (`cursor`),
and `UnregisterVolume` takes any volume away. `MountRecord` is the whole of `mountRecord`:
the file system is chosen from the boot sector or made as it was asked for, mounted, the
directories on the way are made, the mount point is entered. A round that fails does so
in the middle as the code does (`Outcomes`), at most `MaxFaults` times. `ResolvePath` is the
search for the longest mount point; letters count without their case (`LowerOf`).

**NetStack, Network.** `NetStack` is the stack on one record: connections,
listeners, bindings, datagrams, the ARP cache and the two rings. `Network` adds
who drives it: programs that use the socket interface in any legal order, the
shell, the poll that empties the ring, the card, and hosts that answer as the
protocols say. No program of this commit opens a socket, so the API's rules are
the callers. `load` limits a behaviour to one kind of traffic or a little of
all.

**Xhci.** The driver waits by taking events from the ring until a flag is
cleared; `ProcessEvent` is one event, `Timeout` the end of its patience. The controller's side
(`hw`) works at its own pace, may answer late, with an error or not at all
(`faults`). Rings have their cycle bits and link entries. An event carries the
request it answers as a ghost: the driver matches by type, and `AnswersMatch` says
when that is right.

**Painter, Style, Png, Json, DesktopLayout, Theme, StartupConfig, Console, FatNames, Ps2.**
A drawing operation is the set of pixels it writes with their colours; a window's
look is a surface made from a surface; a text is a sequence of the characters that
its parser tells apart, a name a sequence of symbols and a FAT16 directory a sequence
of clusters of entries. In the last part of each module stands the reference: point sets, the
line within half a pixel, the grammar, the filters' inverse, the last layer that
names a key, a walk on a tree for paths.

## 3. The runs

All runs pass; the longest takes about two minutes on two cores, most take less
than one.

| Run | Question | Bounds |
|---|---|---|
| `event_queue` | Does the ring implement the priority order, through wraps, shifts and compactions? | 3 slots, 5 posts, 4 priorities, 2 types |
| `input_path` | With the interrupt inside push and pop, what survives, and does `hlt` strand anything? | 3 slots, 2 keys, 2 mouse reports |
| `event_dispatch` | Is dispatch right when handlers do anything? | 2 listeners, 1 receiver, 1 + 1 queue slots, 2 posts, 4 table changes, 1 direct call, depth 2 |
| `message_bus` | Counts and delivery while handlers change the tables | 2 envelopes, 1 topic, 3 subscription slots, 2 services, queue of 2, 2 clients, 2 publications |
| `shutdown` | Rounds with subsystems that come and go | 4 subsystems, 3 requests, queue of 2 |
| `heap` | Does the block list stay well formed and lose nothing? Is everything mapped where it should be? | header and alignment 2, requests 0, 1, 4, 7, arenas of 2, 21, 26; 3 levels of tables with 2 entries, pools of 1 and 4 pages, 2 devices, 2 buffers, 56 kinds of firmware |
| `desktop` | What still points at a window, when is it deleted, does the screen show it? | 3 windows, 2 queued events, 1 request; 3 cells, 3 rectangles, 8 words of FIFO, 3 changes |
| `root_volume` | Volume, keys and TPM through a boot that meets failures and a full volume | 10 clusters, 6 entries each, hello files of 1 to 6 clusters, 2 failures, 2 saves |
| `shared_volume` | What is on the medium after errors and power failures? Do records, mount points and media agree, however the volumes came up? | 4 clusters, 3 entries, 2 names, 1 error, 1 power failure, 3 saves; 21 machines (7 lists of modules, 3 pairs of disks), 4 names, 4 file systems, 2 rounds that fail |
| `network` | Who holds which connection, do the ends agree, what waits for ever? | 2 hosts and a server, rings of 4 and 3, 1 ARP entry, 2 connections, 2 ports, 2 sockets of each kind, four loads |
| `xhci` | Whose answer is taken, is every report handed on, does a pointer fall silent? | 2 ports, rings of 4, 3, 4, 1 fault, 3 reports, 1 change |
| `controls` | Cached places, focus, hover, capture, text buffer, slider, combo box | 4 kinds of windows, 1 character, 3 long, capacity from 2, 1 refused allocation, screens of 2 and 3, 2 taskbar entries |

Why the bounds are enough. *Ring*: three slots are the least where an insert in
the middle of a wrapped ring has an element on both sides; five posts let every
position wrap; capacity is a parameter of the proofs. *Input path*: the races
are between one interrupt and one statement pair, two keys allow a second
interrupt on the damaged state, and the full queue is reached. *Dispatch*: two
listeners are needed for one to be skipped or called twice because of the other,
depth two for a nested dispatch. *Bus*: two subscribers besides the registry,
and a queue that can refuse. *Shutdown*: the loop can miss two entries and still
have a fourth. *Heap*: requests that fit exactly, that leave a rest too small to
split, and that split; 26 bytes hold three used blocks, so that a free block has
used neighbours on both sides, free ones on both sides, and one of each. *Page
tables*: three levels have a table that is shared by two others and one that is
not; a pool of one page is empty in the middle of a range, one of four is not; a
window of three pages crosses two tables; every structure of ACPI also lies across
two pages, and the TPM's registers begin with a page, end with the dump behind it, or run
over its end themselves. *Desktop*: the terminal, a dialog and one window that comes in their
place; two queued events let a reply and a click overtake a destruction. *Screen*:
three windows in three cells uncover, cover and cover partly; the FIFO wraps with a
command left over. *Volumes*: a directory fills and grows, a file fills the
volume in the middle of each of its writes, a
failure comes between any two accesses. *Mounts*: modules with and without a tag, with a
size of 0, with two names for one path and one name for two, mount points below each
other and beginning like each other, boot sectors of each kind and two that the two file
systems read differently; two rounds let a volume fail at its registration and at a retry. *Network*: both slots of a table in use and a third asked for, a ring
that is full, an ARP entry that is evicted. *USB*: one port whose answer is late
while the other is enumerated, each ring comes round at least once. *Controls*: a
panel in a panel, a box beside a button, two entries that exchange their places,
a buffer that grows once and one time cannot.

Computations checked over bounded inputs, by named assumptions:

| Module | Assumptions |
|---|---|
| `MCInputPath` | `KeysAreKnown` (all strokes of up to four keys), `MovesAreReported` (movements with lost bytes) |
| `MCGraphics` | `RectsAreSets`, `ShapesAreClipped`, `BordersHaveSides`, `LinesAreStraight`, `ColoursAreBetween`, `TextIsPlaced`, `ImagesAreScaled`, `PicturesAreDecoded` on a surface of 4 by 3; `WindowsAreOpaque`, `ButtonsAreContained` on one of 6 by 7; `TextsAreParsed`, `NumbersAreParsed`, `StringsAreParsed`, `DocumentsAreParsed` (all short texts, and every edit of one character in two documents) |
| `MCGraphics` (layout and themes) | `ExpressionsEvaluate`, `TreesAreBuilt`, `ControlsAreFreed`, `PanelsFit`, `ImagesAreShared`, `StartIsWhole`; `StylesAgree`, `TextScales`, `ColorsParse` |
| `MCSharedVolume` | `SettingsAreRead`, `LongLinesAreCut`, `TranscriptIsSavedOnce`; `PathsLead`, `LinesAreRun`, `CommandsAreFound` (ls, help, ip and ping among them), `NumbersAreRead`, `OutputIsWhole`, with buffers short enough to be full; `NamesAreFound`: names of up to five symbols with 2 + 1 of a short name, long names cut at five, directories of up to four entries |

`CommentTakesSetting` and `CwdIsCut` in them say what the code does where it is
not what one expects (section 7).

Properties, by kind:

* *Invariants*: `IntactUnlessCut`, `Accounting`, `OneCallEach`, `RefsExact`,
  `AskedOnce`, `ShapeOK`, `RefusedOnlyWhenFull`, `MappingsHold`, `PointersLive`,
  `TaskbarExact`, `RepliesToAsker`, `ScreenExact`, `VolumeSound`, `ReadsBack`, `SelfTestsTell`,
  `Separate`, `LastSaveReadsBack`, `NothingLost`, `MountsAgree`, `EndsAgree`,
  `DatagramsInOrder`, `SettledWhenQuiet`, `AnswersMatch`, `ReportsArrive`, `NeverSilent`,
  `BoundsFresh`, `RoutesAgree`, `HeldIsCaptured`, `TextIsTyped`; some hold ghosts
  of what was asked, sent or saved against what is there.
* *Action properties*: `ExactlyOnce`, `MissedAtMostRemoved`.
* *Refinements*: `ImplementsOrder`, `ImplementsArena`.
* *Liveness*: `Drained`, `QueuesDrain`, `EventuallyFreed`, `Answered`,
  `DestroyedIsFreed`, `CaughtUp`, `MountedInTheEnd`.

Deadlock checking is on for `input_path` and `controls`, whose users and
interrupts never cease. It is off where the model stops by design: bounded
posts, requests and saves run out, the boot is over, or the processor is halted.

## 4. Fairness

Fairness is weak and is assumed only of what the processor, or the device, does by
itself.

* `InputPath`: the main loop executes its next statement, a raised IRQ 1 is taken
  when `hlt` or the loop lets it, and the timer ticks. The timer is started at
  1000 Hz (`DesktopSession.cpp`) and never masked; without its fairness `Drained`
  fails, which is its mutant. Keys and mouse reports are not fair.
* `EventManager`: the manager's own code goes on, handlers return, and the main
  loop calls `processEvents()` when nothing else is on the stack. That handlers
  return and stop posting in the end is an assumption about clients (posts are
  bounded); a handler that always posts keeps `processEvents(0)` busy for ever.
* `MessageBus`: dispatch goes on and handlers return. Clients are not fair: they
  may keep a reference for ever, and `EventuallyFreed` says so.
* `Shutdown`: the main loop dispatches, the notification loop goes on, callbacks
  return. The user is not fair: the dialog may stay open.
* `DesktopUI`: handlers return (`Return`). Nothing is assumed of mouse and keys.
* `Screen`: the main loop renders when something is marked, a presentation that
  has begun goes on (`Render`, `Present`), and the display device empties its FIFO
  (`Device`), which the driver's own waiting relies on too.
* `Mounts`: the boot goes on and the main loop calls the volume manager's `poll`, which
  tries a volume that is not mounted again (`Boots \/ Sweeps`). Rounds that fail are
  bounded; a medium that always fails is never mounted. That someone takes a volume away
  is not fair. `SharedVolume`, which has no liveness property, assumes nothing.

## 5. What is proved

`EventQueue_proofs`, for every capacity, set of types and number of posts:

* `TypeCorrect`, `ShapeCorrect`, `OrderCorrect`: types, the shape of the ring
  (`RingShape`) and its order (`Ordered`). The inductive invariant is their
  conjunction with `Stamped` (no queued event has a timestamp later than the last
  one drawn), without which a new event could stand in front of an older one. The
  heart is `InsertPosition` (findInsertIndex returns the place before the first
  event of a lower class) and `PushEffect`, which turns slots modulo the capacity
  into queue positions.
* `RingImplementsOrder`: the ring refines `EventOrder` with the queued events as
  `pending` (`ImplementsOrder`, which the run checks on three slots). Pop returns
  the event that is before all others; clears are `Discard`.

`EventQueue_proofs` also proves, of `Controls`, for every set of window buttons, screen sizes
and characters, any number of items and any sizes of buffer, slider and thumb:

* `PlacesCached`, `PointersAgree`, `ReleaseHeard`, `FieldShowsTyped`: `InOrder` is
  inductive. What it says of the form besides the four properties: `Tree` (a control is
  in its panel's list once, and only there), `Places` (a button shares its place with
  nothing else in its panel), `Fresh` and `Marks` (a cached place that is not marked is
  right, and a drop-down panel that is marked has its list marked and is closed),
  `Hovering` and `Pointing` (what hover, focus and capture of a panel name lies in it),
  and for the text boxes `BoxHolds` (buffer, length, cursor and capacity fit one
  another, and the bytes are the text).
* Why they are needed: without `Places` two buttons could lie under the mouse and
  stay lit both (`ButtonsApart`); without `Marks` marking the panel again, which stops at a
  control that is marked, would leave the list with a stale place (`DropDownKeeps`). For
  the release, `Reached` says that every panel on the way to what is pressed or dragged
  captures for the next one: a panel does not ask where the mouse is then.
* One lemma per handler says what it leaves of the form: `Moving` and
  `MouseMoveKeeps`, `CaughtKeeps` and `MouseDownKeeps`, `Lifting` and `MouseUpKeeps`
  for the three walks down the tree, of which each goes through at most two panels;
  `ResizeKeeps`, `AddKeeps`, `RemoveKeeps` for the places; `LongerBox`, `ShorterBox` and
  `EmptiedBox` for the text, with or without room for a larger buffer; `ItemsKeep`
  for the combo box.

`Heap_proofs`, for every header size, alignment, set of requests and arena:

* `HeapTypeCorrect`, `HeapShapeCorrect`: the list tiles the arena, links and back
  links agree, no two neighbours are free, clients hold exactly the used blocks.
  The invariant is `TypeOK /\ ShapeOK` with `RefusedFits` (after a refusal no free
  block is large enough) and the count of allocations, which equals the number of
  pointers held; `UseSound`, `MergeSound` and `ReleaseSound` show that the three list operations
  keep a list well formed, `NextPrev`, `LastBlock` and `Neighbours` are the facts
  about such lists they rest on.
* `RefusalsJustified`: a request is refused only when no gap between used blocks
  is large enough: merging forgets nothing.
* `HeapImplementsArena`: every call grants, returns, resizes or moves a region of
  an `Arena`: regions lie in the arena and never overlap.
* `MemoryRunsHeap`: the run `heap` moves the page tables beside the heap; what the
  heap does there are its own steps, so that the three results above hold of what is
  run as well (`MemoryShapeCorrect`, `MemoryRefusalsJustified`,
  `MemoryImplementsArena`).

`Shutdown_proofs`, for any number of subsystems, requests and queue slots:

* `TypeCorrect`, `CoherentCorrect`, `AskedOnceCorrect`, `MissedCorrect`. The
  strengthening says that what lies ahead of the loop was not asked (`Fresh`) and
  that the number of entries passed without being asked, plus the number of
  entries by which the vector has become shorter than the loop's position, is at
  most the number of removals (`Missing`). A removal either moves the last entry
  behind the loop or widens that gap; a registration may fill the gap.

`MessageBus_proofs`, for every number of slots, services, envelopes and clients:

* `RefsCorrect`: an envelope's count is at every moment its queued events, its
  delivery and the references clients hold. `Listening` is needed beside it: an
  event that is in the queue finds the bus registered, or its reference would be
  nobody's.
* `ExactlyOnceCorrect`, an action property: a delivery that ends has called everybody
  who was subscribed from its beginning to its end, once. The invariant turns it
  into what the walk still has ahead: `Walked` says that no subscription in a slot
  ahead was called, `Owing` that every one that is owed a call sits in such a slot
  and still matches; for the target service also that the registry's own
  subscription is ahead and the service is still in the table. `Distinct`,
  `Registry` and `OneOfAName` are the facts about the two tables that make "the
  slot" and "the service" of an id unique. `WalkStep` is the delivery's step,
  `Undisturbed` and `ClientStep` show that what handlers change in between only
  shrinks the debt.

`EventManager_proofs`, for every size of the queues and tables, all types and
filters and every depth of nesting:

* `AccountingCorrect`: events posted and dispatched directly are those dispatched,
  dropped, cleared and queued. `Stamped` (no queued event has a timestamp that was
  not drawn yet) makes a posted event a new element of its queue, so that
  cardinalities add up.
* `OneCallEachCorrect`: the invariant says of every frame on the stack, not only the
  last one, that nobody was called twice (`Once`), that among the entries its scan
  has passed those that were due were called, and that none ahead was (`Passed`).
  The frames below the last one must keep this while handlers above change the
  table: `FrameStays` and `FrameTouched`; `FrameCalls` and `FrameGoesOn` are the
  scan's own steps. That an id is in one entry (`Distinct`) is what fails first if
  a new listener could get an old id.

`InputPath_proofs`, for every capacity and any number of keys and reports:

* `IntactUnlessCutCorrect`: as long as the interrupt pushed at none of the places of
  `Breaks`, the ring is in order, what was accepted is queued or was taken out, and
  nothing that is queued is older than an event of its type that was taken out. Between
  the statements of a push the members of the queue disagree with one another, so the
  invariant says for every statement how far: `Shape` (the tail is `Span` slots from the
  head), `Loaded` (what the loop has read is still so, and the place it has found is
  still the right one: `Place`), `Accounted` (where the event that is being moved counts)
  and `InOrder`. `Numbered` says that an event that is about to be posted is newer than
  all of its type, without which order would not survive the insert. `InsertEffect` and
  `InsertedSorted` show that the backward shift loses nothing and keeps the order;
  `InterruptStep` that an interrupt elsewhere, in the middle of a push or a pop too, which
  runs a whole push of its own, keeps all of it.

`InputPath_proofs` also proves, of `Xhci`, for every number of ports, sizes of the rings,
faults, reports and changes:

* `AnswersCorrect`: the invariant `AnswersInv` says of the three rings what the driver
  relies on: where the two sides are (`RingsKept`), and that
  only the request that is waited for is under way, in its ring or as the one answer in the
  event ring (`Asked`); `Enumerating` ties the step
  of the enumeration to the flag that is waited for. So an answer of the right type is the
  answer.
* `ReportsHandedOn`, `PointersHeard`: `ReportsInv` adds which slot and which ring belong to
  which device (`DevicesKnown`, `SlotFresh`, `EndpointsOwn`) and that each pointer has one
  entry or one event under way (`OneUnderWay`), so that its one buffer is not
  overwritten before it is read.
* All three are about behaviours in which no wait was given up (`gaveUp = {}`). That is
  all of `AnswersMatch`, but not of the other two, which also speak of behaviours in
  which a command was given up (`ReportsArrive`) or a transfer was (`NeverSilent`); for these
  they are model-checked only. The assumption that a ring has more entries than
  there can be late answers is the code's 256 entries against five per device.

`Shutdown_proofs` also proves, of `Mounts`, for every set of machines, boot sectors and
paths, any number of records, of file systems and of rounds that fail:

* `MountsCorrect`: `VolumesInv` is inductive. Its parts are `Good` (each record names a
  device of the machine, and no two have a name or a path in common), `Tied` (mount points
  and mounted records are in a one-to-one relation, live file systems and mounted records
  as well, and each serves its record's device as its boot sector says) and, unless
  a round failed, `ShownInRoot` (what was mounted after the root has a directory in it), which
  needs the order of the mount points. `TieFacts` and `UntieFacts` are mounting and unmounting,
  `ShownShifted` shows that taking a mount point away keeps the others in order,
  `Resolves` that the longest mount point above a path is the directory it lies in.

and, of `SharedVolume`, for every size of the volume, any names, and any number of write
errors, power failures and saves:

* `FilesSeparate`, `SavesReadBack`, `ClustersOwned`: `SharedInv` says that there is a function
  `own` that gives every cluster to one entry, to the save in progress, to the chain that is
  being freed, or to nobody, such that three things hold. `Owned`: links stay with one
  owner, first clusters belong to their entries and what belongs to an entry is not
  free; this is what `Separate` needs, and it has to hold in the middle of a save too,
  when the directory says less than the link table. `Told`: what each name last wrote
  is what a reader gets, and the save in progress has laid out its clusters in order
  (`Laid`). `Full`: every cluster in use has an owner and is reached from its owner's first
  cluster. Each part leaves out the errors that its property leaves out, and no others.
  No owner could be read off the disk alone: the chain that is being freed
  begins in the middle of nowhere once its first links are gone.
* `ReachedNext`, `ReachedStays` and `ReachedLeast` are the facts about chains: reachability
  is a least set and not a recursion, so that they can be proved for any length.
  `WalkShares`, `StoreShares`, `AllocateShares` and the others are one lemma per access.

`Network_proofs`, for every size of the rings, the cache and the connection table,
and every set of hosts, sockets and loads:

* `EndsAgreeCorrect`, `SettledCorrect`: the invariant `Joined` says of the wire what
  neither end can see: which segments can wait in the two rings (`Sending`,
  `Arriving`), what one end's state says of the other (`Agreed`), that a connection
  has its port to itself (`Ports`), and that who still waits for the other end has
  something under way unless a segment of its port was lost (`UnderWay`). The last
  is what makes a quiet wire a settled one. `ReceiveOwn` is `processSegment`,
  `ServerHearsStep` its counterpart, `AnswerDue` the reason why nothing that asks
  for an answer disappears.
* `DatagramsInOrderCorrect`: queue and ring together are in increasing order, and
  all after the one read last (`Waiting`).

`DesktopScreen_proofs`, for every number of windows, queued messages and requests, with
and without the security centre's bypass:

* `PointersLiveCorrect`, `TaskbarCorrect`, `RepliesCorrect`, and `DesktopBesideScreen`,
  the three of them for the specification that the run checks. The invariant is about
  one record, so that a handler which opens and closes several windows is a
  composition of facts about each call (`RaiseSound`, `NewSound`, `CloseSound`,
  `PostSound`); `Left` is what every handler leaves. Its parts: `Managed` (each window
  once in the list, what exists is listed or waits for its deletion), `Pointed` (the
  terminal and the dialogs have listed windows, and no two the same), `Terminals`
  (a listed window of the terminal's kind, or one that takes its typing, is the
  terminal's present window), `Mail` (a request or an answer in the queue names the
  present terminal's window or one that is gone, and what is reported as destroyed is
  gone), `Barred` (the taskbar) and `Dragged` (unless a release was lost, a window is
  dragged with the button down only).
* Why they are needed: without `Terminals` a line could be asked for by a terminal that
  was closed; without `Mail` its answer would be shown in the next one. Without
  `Dragged` the window that is dragged could be closed by a click. A drag is
  not reset by `destroyWindow`, so that only the button tells that nobody clicks
  meanwhile; this is why a lost release is excepted in `PointersLive`.

Assumptions are the `ASSUME`s of the modules: positive sizes, natural bounds, a
non-empty header and alignment, a placeholder that is no real value, a gateway that
is a host, room for the two windows of the first boot. TLC evaluates them in every
run.

`LeastNatural`, that a set of naturals has a least one, is a lemma of each module that
needs it (least addresses, first free slots, first entries of a class); it follows from
the library's well-founded order. `RingRound`, `RingSlot`, `RingAhead` and `RingBefore`
in `InputPath_proofs` are the arithmetic of a ring's slots.

## 6. Model-checked only

* Liveness (`Drained`, `QueuesDrain`, `EventuallyFreed`, `Answered`, `DestroyedIsFreed`,
  `CaughtUp`, `MountedInTheEnd`): fairness and ENABLED are outside the prover's reach.
* What recursive functions compute for every input (paths, parsers, clipping,
  expressions, chains of clusters): an induction over data, which the prover
  cannot cite. They are compared with their references over bounded inputs.
* What a USB command or transfer that was given up leaves behind, see above.
* `MappingsHold` of `PageTables`: a walk goes down as many levels as there are, and
  tables overlap by powers of their size, so that a proof for every number of levels
  is an induction over data too.
* `ScreenExact` of `Screen`: the commands in the FIFO are read back from words, one
  after the other, so that what the device will still draw is a recursive function of
  the FIFO.
* `VolumeSound`, `ReadsBack` and `SelfTestsTell` of `SecureStore`: one behaviour is a boot with
  forty calls in a row on a volume whose chains are followed by recursion.

## 7. Observations

What the code does and a reader may not expect. Each was met while modelling; the
models show it or are built around it, and no property forbids it.

*Events and input*

* A key that is pushed by the interrupt while the loop is inside push or pop
  (`QKEventQueue.cpp:22-76`) breaks the ring at these places: between the loop's write of its
  event and the store of `m_count`, between load and store of `m_count` in pop, when it
  takes the last slot after the loop has found room, and when it is put at the head
  that pop has copied already. Events are then lost or handed out twice, and head and
  tail stay apart for good. `IntactUnlessCut` says that nothing else loses or
  reorders events; an interrupt anywhere else in push and pop is harmless.
* A byte that `poll` reads may be one that the interrupt has handled already, and its
  event comes after those of later keys; `IntactUnlessCut` numbers the two kinds apart.
* An immediate event posted by a handler waits for the next `processEvents`; the
  hover move of a click (Normal) is overtaken by its button change (High).
* `clear` of a full queue that keeps everything stores `m_tail = MaxEvents`: the next
  push after a pop writes behind the array. The model stops there.
* The registry initialises itself although its subscription was refused.
* `processEvents(max)` may handle more than `max` events. `ShutdownPrepare` and
  `ShutdownNow` are posted and never dispatched. `TODO_MAIN.md:19` says that
  QFileSystem registers with `registerSubsystem`; nothing does. The shutdown loop
  steps over the entry that swap-with-last moves into its slot.
* The mouse does not resynchronise after a lost byte; its position is updated
  against the report's sign. The keyboard ignores the 0xE0 prefix (its fake shifts
  count as shift, arrow keys do nothing), the release of either shift key ends both,
  repeats of CapsLock toggle it, and `poll` may handle a byte after a later one that
  the interrupt took.

*Desktop and screen*

* A click on the desktop's own window raises it above all others. `m_dragWindow` is
  not cleared by `destroyWindow`. A release over another window never reaches the
  control that was pressed, which a comment in `Container.cpp` says it does.
* Without a hardware cursor a movement of the mouse invalidates nothing, so that the
  software cursor freezes. `invalidateRect` with a negative x shifts the rectangle
  instead of cutting it. An UPDATE that finds the FIFO full is dropped; a FIFO whose
  length is not a multiple of an UPDATE has a gap at its wrap that the device reads
  as commands (with `FifoWords = 9` `ScreenExact` fails), and one that is filled to
  the brim looks empty.
* A combo box's list lies outside its own rectangle, so no click reaches it; its
  index, text and list disagree after `removeItem` or a refused allocation.
  `ListView` shifts its rows by a header it does not have. A right button's release,
  or a lost one, leaves what was pressed pressed. A failed first allocation leaves a
  text box without a buffer.
* Layout: sidebar buttons overlap on screens lower than 384 lines, a corner of 64 by
  40 pixels belongs to no panel, `updateLayout` leaves the power button where it was,
  buttons of taskbar entries leak. Image paths of more than 127 characters are cached
  and never found. A file's colours are ignored when its image cannot be loaded.
* Style: the gradient brush of `fillRect` adds the origin twice and starts again at
  the clip's edge; text wider than its rectangle vanishes when centred; translucent
  colours are written, not blended; `darker(f)` multiplies, so `darker(0.1f)` is
  nearly black; caret and glyphs of a text box advance differently; "centre" starts
  the text at the middle. A theme's `shadow`, `buttonGlow`, title-bar gradient and
  animations have no effect, disabled colours never follow it, and a `button`
  section in the overrides drops a loaded theme's other button colours.
* JSON takes control characters and unknown escapes, turns `\u` above 0x7F into `?`
  and returns the first of two equal keys. PNG knows neither palettes nor CRCs.

*Volumes and keys*

* A FAT32 directory that has grown returns the index in the cluster before: another
  file's entry is overwritten (`QFSFAT32.cpp:1160`); `VolumeSound` and `ReadsBack`
  leave such volumes out. A name outside 8.3 is stored cut and never found again:
  `owner.enrolled` is written again at each enrolment and `isOwnerEnrolled` stays
  false.
* A wrap key cut short by a full volume fails for good. A malformed blob leaves a
  policy session open, and so does an unseal whose CreatePrimary fails
  (`TpmSecureStore.cpp:1143`). Nothing counts them: the TPM has room for three, and one that
  is full is in the model only as a TPM that refuses a command. `SelfTestsTell` bounds what
  stays by the number of commands that failed. The plain key is removed even if the sealed one was not
  stored.
* `saveterm` ignores what `write` returns. An error while looking a name up makes a
  second entry of that name. A power failure between the freeing of a chain and the
  clearing of its entry leads to cross-linked files. The disk is looked for once per
  boot, and nothing flushes its writes.
* Where no module is tagged as the ramdisk, the first one is, so that an image that is
  also registered as a volume is in use twice (`LimineModules.cpp:39`). A module's path that
  differs from another one only in its case is mounted and never reached. `probeFATBootSector`
  takes the size of a FAT from whichever field is set, each file system from its own: a boot
  sector with the wrong one is mounted with its data elsewhere.
* A name that does not fit 8 + 3 is stored cut on the shared volume and never found
  again: every save of it makes one more entry of the same short name. Files below
  the root can be listed and asked for, not opened. `stat` answers with the short
  name where the listing shows the long one.

*Network and USB*

* A passive open never completes: the listener takes the peer's port for its
  address, answers to nobody, and one SYN blocks it. Slots in LAST_ACK or TIME_WAIT
  are never given back. Nothing is sent twice: a SYN that met no ARP entry is gone.
  Sequence numbers are stored and never compared, FinWait1 takes any ACK. A UDP
  `connect` without a free port counts as bound. The properties do not forbid these: a
  slot in TIME_WAIT agrees with the other end (`EndsAgree`), and `SettledWhenQuiet` leaves
  lost segments and a filled ring out. Filling the transmit ring to its
  last descriptor stops the card.
* A stalled EP0 or an interrupt endpoint that halted is never reset; a port that
  changes is never enumerated; `configData` of a device whose transfer was given up is
  read as the next one's, and its late answer ends the wait for the next command or
  transfer: `AnswersMatch`, and where a command or a transfer is concerned `ReportsArrive` and
  `NeverSilent`, leave those behaviours out; the PS/2 mouse is not started although the USB pointer may stay
  silent, and a slot may be given to two devices after a command that was given up.

*Memory*

* `translate` and `getOrCreateTable` follow an entry without its large-page bit: a
  page that is mapped inside one of the loader's large pages is written as an entry
  into that page's data, if its words look absent; `MappingsHold` leaves those out.
* The pool of 256 early pages never takes back, every control transfer of the USB
  driver takes one and the card 130; an empty pool answers 0, whose virtual address
  is not null, so no driver notices and physical page 0 becomes its buffer.
* A window of `mapMMIO` that fails keeps its addresses; `isMapped` says no for frame
  0.
* Of the TPM's registers the page is mapped in which they begin, and no other
  (`AcpiTables.cpp:283`, `TpmSecureStore.cpp:1319`): with a control area that begins near the
  end of a page, the dump and the commands access the next one, which nobody has
  mapped. The runs have such areas; `MappingsHold` allows this access (`RunsOver`) and
  no other that is not mapped.
* `Heap::freeSize()` wraps when every block is used, for the first header is counted
  twice. Nothing calls it.

*Console and settings*

* The working directory is 128 bytes, paths may have 255: a deep one is cut to
  another path. A path that is too long is cut when absolute, refused when relative;
  its 33rd segment is dropped. `cd` of the console and of the registry keep two
  different directories, and all terminals share one. A handler that returns false is
  reported as an unknown command. A command's name in quotes finds the console's
  commands only, and `cd` takes the rest of its line with the blanks at its end.
  `parseIPv4` ignores what follows, `parseU32` wraps
  and takes no digits for 0. The test for `/shared` also accepts `/sharedx`.
* In `/startup.cfg` a setting without `=` is lost when its comment holds one. The
  self-tests run before the file is read, and `BootSaveTermOnce` has no caller.

## 8. Not modelled, and the plan

Not modelled: the scheduler and tasks (no task is ever started), the page frame
manager, `Paging`, `VMM::allocate` and address spaces (no callers), descriptor tables
and the interrupt controller (registers), UHCI (finds controllers and reads their
ports), the security centre (one mode, stored and printed), the logger, the boot's
straight sequence, formatting of listings, mathematics and stubs without callers
(`QJUser`, `QQuantum`, `QWRenderer`, `Frame`), `QFSCache` (unused), vendored code
(miniz) and headers that nothing includes (`XHCI/xhci_common.h`). Of the modelled
parts are left out: FAT32 on the shared volume, shutdown() and
statistics of the event manager, the initialisation of the PS/2 controller,
paths longer than their buffers, volumes that are not mounted by themselves, the port I/O of
single sectors, the TPM's arithmetic and the cryptography (a sealed key is the key and what it was
sealed under). Branches left out of modelled functions, none of which the modelled callers
reach, or which change nothing that is checked: `close` of a connection that is Closed
(`QNetTCP.cpp:222`: only one in LAST_ACK becomes Closed, and its socket has dropped the
pointer by then), the file that stands where a mount
point's directory should be made (`QFSVolumeManager.cpp:64`; the mount goes on without the directory, as after one that could not be made), the limit of 16 USB devices
(`QKDrvXHCI.cpp:1401`; the run has two), a click handler that changes the tree of
controls before the release has returned through it (`Button.cpp:152`; in `Controls` handlers do so between events,
in `DesktopUI` they close whole windows in the middle of one), and the refusal of a text box's
first buffer (`TextBox.cpp:41`, `TextBox.cpp:73`).

Next are proofs, in this order, each with the invariant that the run has already
checked:

1. `SecureStore`: `VolumeSound`, call by call, once chains are least sets as in
   `SharedVolume`.
2. `Xhci`: `ReportsArrive` after a command that was given up.

Larger instances (four windows, three connections) come after them; their state
spaces grow by an order of magnitude with each.
