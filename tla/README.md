# injectlib in TLA+

injectlib lets a Python process inject a library into a running GUI application
and then call it: the library serves requests that read and change the user
interface. This directory models the parts of it in which steps of several
actors meet, checks the models with TLC on small instances, and proves the most
important properties with TLAPS for every instance.

Paths below are relative to the repository. `Qt/` stands for
`backends/qt5/src/winmsg_listener/` (its Qt 6 copy differs in nothing the models
distinguish), `wpf/` for `backends/dotnet/src/wpf/`, `py/` for `src/injectlib/`.

## Inventory

| Component | State | Operations | Meets |
|---|---|---|---|
| Connection manager, `py/api.py` | pipe per pid, backend per pid | `call_action`: probe, inject, connect again, transact | injector, channel |
| Windows injector, `py/injector.py` | a remote thread, 1000 ms of patience | write the path, `CreateRemoteThread(LoadLibrary)`, wait | loader of the target |
| Linux injector, `py/linux_injector.py`, `py/cfuncs.py` | saved registers, code and stack of the target | attach, save, patch, continue, wait, restore, detach, verify | the target's main thread, its loader |
| .NET bootstrap, `backends/dotnet/src/bootstrap/dllmain.cpp` | reference count of the DLL, a thread | `DllMain`, `LoadWorkerDll`, `FreeLibraryAndExitThread` | injector, .NET server |
| Named pipe channel, `py/channel.py`, `wpf/Main.cs`, `Qt/pipe_server.cpp` (Windows) | one pipe instance, two handles | connect, write, flush, read; the server loop; `disconnect`, `shutdown` | both programs |
| Socket channel, `py/channel.py`, `Qt/pipe_server.cpp` (Linux) | socket file, accept queue, descriptors, `m_stop`, `m_running` | `start`, `run`, `stop`; probe, transact | clients, kernel, the application's own files |
| Qt server, `Qt/qt_server.cpp`, `Qt/qt_utils.cpp` | `m_pipeServer`, posted events | `bootstrap`, `shutdown`, slots `start`, `stop`, `processRequest` | pipe thread, GUI thread, dialogs |
| Qt object table, `Qt/qt_object_store.cpp` | two pairs of hashes, two counters | `ensureIdFor`, `dropIdFor`, `objectForId` and the graphics twins | the application's heap |
| Qt commands, `Qt/qt_widget_actions.cpp`, `Qt/qt_property_actions.cpp` | none of their own; posted calls and zero timers | some twenty-five handlers | event loop, application code |
| Qt discovery, `Qt/qt_discovery_actions.cpp`, `Qt/qt_element_summary.cpp` | none | roots, children, parent, info, focus | object table |
| WPF worker, `wpf/*.cs`, `wpf/WPF/*.cs` | `ObjectIDGenerator`, `KnownControls` | fifteen actions | server thread, UI thread, application code |
| Message hook, `backends/hook` | hook thread, filter set, pipe | `Initialize`, `SetApprovedList`, hook procedures, destructor | every hooked thread |
| `py/sysinfo.py`, logging, JSON helpers, `setup.py`, CMake | none | | |

How they interact. `call_action` looks for a channel named after the pid; when
there is none it injects and waits for the channel to appear. On Windows the
injection is a remote `LoadLibrary`, whose `DllMain` starts a thread that hosts
the .NET server (or, for Qt, waits for the application's event loop and posts
`start()` to it); on Linux it is a `dlopen` run by the stopped main thread, whose
constructor does the same. A request travels over the channel to a thread of the
server, which has the GUI thread run it: through a `BlockingQueuedConnection` in
Qt, through `Dispatcher.Invoke` in WPF. The reply returns the same way.

What is hard in this code: the pipe thread and the GUI thread share descriptors
and wait for each other; events are taken in nested loops; commands are put off
until after their reply; elements die between two requests; clients, servers and
targets die at any step; injection rewrites the memory of a program that goes on
being scheduled, signalled and killed; and several Python processes do all this
at once. `PROJECT.json` lists these hazards one by one with their lines and the
properties that would catch each; those that no property catches say why. They are
few: unloading a library under running threads, rows of item models that go stale,
lambdas that run on what was destroyed, and the waits that have no way out in the
code, which the properties below name as their exceptions.

What makes each component correct: an ID never designates another element (object
tables); a walk finds what did not move (discovery); every request is executed at most once and answered only when it was
(channels); the server stops cleanly and leaves nothing behind (Qt server); a
client reads what it wrote (Qt commands); a request is one atomic access to the
user interface (WPF); a hooked thread returns, and nothing on the list is lost
(message hook); a target gets exactly one server and its own state back
(injectors).

## Modules

| Module | Models | Extends or instantiates |
|---|---|---|
| `Rpc` | abstract: at most once, answered only if executed | |
| `ObjectStore` | the object table under a heap that reuses addresses | |
| `ElementSummary` | the classes and the chains of casts that give an element its type | |
| `Discovery` | the handlers that name elements, the trees of the application, the walk of a client | extends `ObjectStore`, `ElementSummary` |
| `PipeServer` | the socket server in steps at its system calls, its clients, the kernel | `Rpc` |
| `QtServer` | `QtHelloServer` around `PipeServer`: bootstrap, event loop, dialogs | extends `PipeServer` |
| `NamedPipe` | the Windows pipe, under either server loop | `Rpc` |
| `QtActions` | when the effect of each Qt command happens | |
| `WpfTree` | the trees of a WPF application as the worker reads them | |
| `UiCalls` | abstract: one atomic access to the user interface per call | extends `WpfTree` |
| `WpfServer` | the actions of the WPF worker on its two threads | extends `WpfTree`; `UiCalls` |
| `Injection` | Windows: connection manager, injector, bootstrap DLL | |
| `LinuxInjector` | ptrace injection, and the target that runs the stub | |
| `HookRecorder` | the message hook: its thread, hook procedures, list, pipe and destructor | |
| `DiscoveryProofs` | theorems | about `ObjectStore` and `Discovery` |
| `PipeServerProofs` | theorems | about `PipeServer` and `QtServer` |
| `QtActionsProofs`, `NamedPipeProofs`, `WpfServerProofs`, `InjectionProofs`, `LinuxInjectorProofs`, `HookRecorderProofs` | theorems | about the modules they name |
| `MCObjectStore`, `MCDiscovery`, `MCPipeServer` | symmetry sets for TLC | |

Every model definition has its source lines in `PROJECT.json` ("map"). Variables
keep the names of the members they stand for (`m_clientFd`, `KnownControls`);
definitions that a comment calls a mutant are plausible mistakes, used to see
that each property can fail; no specification uses them.

### ObjectStore

A pointer is an address, an instance a serial number, so that two objects that
live one after the other at one address differ. `objectForId` follows a
`QPointer`: it yields the instance or null. `ensureIdForGItem` keeps a bare
address. `DestroyObject` runs `dropIdFor` when the `destroyed` connection is
there, and `DisconnectAll` is the application cutting it. `issued` and
`issuedItems` remember which instance each replied ID was given for.

The table is checked in use, by the run of `Discovery`, and proved: an ID never
designates another QObject, even after disconnects; it designates its object as
long as that lives, and dead entries are dropped, until the application disconnects
an object; IDs of QObjects are not taken for items until the counter reaches the
other range (1000000 in the code).

* `ObjectStoreItems.cfg` finds that IDs of graphics items are not stable,
  contrary to `qt_server.h:41`.

### Discovery and ElementSummary

The application has widgets, windows, Quick items and graphics items. An object
has an owner (`QObject::parent`), something it appears under (`up`: parent widget,
parent window or parent item) and may have an `inner` object (platform window of a
widget, content item of a Quick window); these are the notions the handlers mix.
Between two requests the application creates, moves, destroys and, before the walk,
disconnects. A handler goes through its loops one element at a time, since each
registers the element (`handles`), while the application stands still; a client
starts with the roots and asks for the children of every ID it had not seen
(`frontier`, `visited`). An ID of a destroyed graphics item is followed into freed
memory: that ends the walk and the application (`walk = "crashed"`).

A widget is a window (`IsWindow`) if it has no parent, or if it is a dialog or a menu,
which stay windows under an owner. A dialog with an owner is therefore listed twice,
as a root and under its owner, and its platform window, which has no parent, is
one more top-level window of Qt that the handler of the roots has to leave out.

`ElementSummary` holds the class hierarchy that the casts go by, and the chains that
give an element its control type, as sequences of pairs, so that "the first that fits"
is one operator. It describes what a reply says; no property is about it. The texts
of a summary are left out. Reading the chains side by side shows what no run decides,
since no document says what is meant: a Quick `RadioButton` is reported as a button,
because `quickControlTypeFor` looks for "Button" first; `setQObjectTextOrValue` never
reaches its branches for `QDateEdit` and `QTimeEdit`, which are both `QDateTimeEdit`s;
a dialog with an owner is a `Window` among the roots and a `Pane` under its owner.

* `Discovery.cfg`: three addresses, three objects and three items, and every kind of
  element (`QDialog` is also the plain widget). The IDs stay with their objects;
  no reply names an element twice, nor a widget and its window; the handler of
  parents and the handler of children agree, with two exceptions that
  `ParentListsIt` names; a walk reaches every element that was there before and did
  not move, nor anything it hangs from. Three addresses give a parent, a
  child and one more that comes, goes, and is used again during the walk; or an owner,
  its dialog and the window that shows the dialog. Two more
  would be needed for an item that has left the scene (below); what holds there is
  proved, not checked.
* The limits of a walk, which `WalkReaches` names: an item that was taken out of the
  scene while another item owns it has that one as its parent
  (`handleElementParent`, line 220) but is listed by nothing (line 175 goes through
  `childItems`), and without Qt Quick a window that another one owns is not listed
  either (line 149). A disconnected object may be out of reach, and everything may be
  once the IDs of objects have reached those of items.
* Safety only: a request is a loop over a finite list, and no property says that a
  walk ends, since an application may create elements for ever.

### PipeServer and its implementation of Rpc

`run()`, `stop()` and `closeCurrentPipe()` are split at the system calls that open,
close, use or wait on a descriptor, `bind()` with `listen()` and the whole of
`connect()` being one step each (`chmod()` is left out), and at every access to `m_clientFd` and `m_serverFd`, which are plain integers that both
threads use: check, close and reset are three steps. The kernel hands out the
lowest free descriptor; a blocked call keeps its file; the last reference to the
listening socket takes the queue with it. Messages are sequences of `Chunks`
pieces, and interrupted calls go round their loop. Clients probe, send,
half-close, read to the end, or die at any point. The application opens and closes
files of its own in the same table, may fill it, and may end. `stop()` connects to its
own socket to wake an `accept()`, and needs a descriptor for that: when the table is
full it goes on to `join()` unheard (`"unheard join"`).

* `PipeServer.cfg`: two clients, three connections (one of them that of
  `stop()`), two descriptors and one file of the application (so EMFILE happens
  both at `socket()` and at `accept()`), messages of two pieces, one signal, one
  stop, an exit at any point. No request is handled twice, an answered client had
  its request handled, a client fails only when the server ends, `run()` leaves no
  descriptor or socket file behind however `stop()` interrupts it, and the server
  implements `Rpc`, which also says that only whole requests are handled
  (`OnlyWholeRequests`, proved). Two clients and one queue slot make them wait for
  each other; more clients repeat the same interleavings.
* `PipeServerForeign.cfg` finds `close()` called twice on one number, the second
  time on a file the application opened in between.

### QtServer

Adds the bootstrap thread, `shutdown()`, and the posted events of the GUI thread
to `PipeServer`; the handler of a request is the posted call of `processRequest`.
A request may open a dialog, in whose loop further events, `stop` included, are
taken; `join` blocks the GUI thread, so no event is taken inside `stop()`. A
timer of zero started on another thread is a posted event.

* `QtServer.cfg`: one client with two connections, two `shutdown()` calls, dialogs, and
  an application that may fill the descriptor table. The composition is a `PipeServer`
  (`Spec` holds, with its assumption that `start` and `stop` are used properly), a thread
  is never without its owner, one request is processed at a time, however many stop
  events are queued the server stops once, and every `transact()` ends unless a
  dialog that its request, or one before it, has opened stays open. `stop()` returns
  unless the pipe thread is waiting in a handler, or nothing has woken its `accept()`
  (`NotWoken`): `socket()` in `stop()` found no descriptor, and no client has connected
  since. Both are what the code does; without either exception TLC finds the `stop()` that
  hangs. Signals and an end of the process at any moment are left to `PipeServer.cfg`,
  where one is an `EINTR` and the other ends every thread; here the event loop returns.
* `QtServerCleanStop.cfg` finds the first case: `stop()` joins a thread that waits for
  the GUI thread.
* Fairness (`QtFairSpec`): the pipe thread, the posting of a request and the
  clients are scheduled; the GUI thread takes events; `bootstrap` polls. Nobody has to
  close a dialog, and nothing promises `shutdown()`, new connections or signals.

### QtActions

A widget stands for its class and a text for the number of the request that set
it. `manner` says of each action and class how the handler carries it out: at
once, by a posted call (`QMetaObject::invokeMethod`, `Qt::QueuedConnection`), by a
zero timer, as a read, or not at all. Posted events are taken in order, timers in
any order and at any time. An effect may run code that opens a dialog, in whose
loop events go on; an element may be destroyed at any time, which takes back the
calls bound to it: Qt leaves an empty place in its queue until it comes to that
place (`Emptied`). Lambdas without a context object stay, and `dangled` records
those that then run.

* `QtActions.cfg`: three requests on one element of each class, two dialogs, and
  nine actions that between them have every manner (the others go the way of one
  of these: SetFocus, Expand and SelectCell that of Select, GetItems that of
  GetValue). A client reads the text it was told was set, although the change
  happens after the reply; whatever was posted happens before the next request;
  no call reaches a destroyed widget, tab bars and graphics items apart (those
  lambdas do run on destroyed items, see the hazards); clicks, texts and reads are
  answered even when the application opens a dialog. Three requests are the
  fewest in which something put off by the first can overtake the second and be
  seen by the third.
* Fairness: the event loop takes its posted events. Nobody has to close a dialog.

### NamedPipe

One pipe instance in message mode. `Qt` selects the loop of `PipeServer::run` or
of `Server.Start`; the two differ in what they do after a client leaves and in
the exceptions of the second. Both sides flush after writing, that is, wait for
the other to read. A reply is measured in reads of the client (64 KB).

* `NamedPipe.cfg`: three clients, three calls, replies of one and two units, both
  loops. A reply belongs to the request it is returned for, the channel
  implements `Rpc`, and every `transact()` ends until a reply was cut; then both sides may wait for ever,
  which is the reason for the proviso in `TransactEndsUnlessCut`. Three clients
  let one hold the pipe, one hold a broken handle and one wait.
* Fairness: the server's thread and the calls of the clients go on.

### WpfServer and UiCalls

A request is checked on the server's thread, a delegate runs between two things
the application does on the UI thread, and the reply is made on the server's thread.
`WpfTree` has the trees apart: `GetParent` asks for the visual parent, `GetChildren`
for the visual or logical children, or for what a control was given to show
(`content`: elements, or data that is none). They are not inverse: an element need
not be a child of its parent, and columns are nobody's logical children.

`SetProperty` assigns, and the setters and handlers of the application run after that
(`server = "setting"`): they move the focus, the trees or the value, throw or open a
dialog, as the handlers do that `RaiseEvent`, `InvokeMethod` and `SetFocus` run. An
`Invoke` may throw (`DelegateFails`), and `GetChildren` may have registered a part of
its children by then. Getters are taken to have no effect, though they may throw.

`UiCalls` promises that each call reads the user interface at one instant or changes
it at one instant, and that OK after `SetProperty` means one assignment (`assigned`);
what the application's code does around that instant is free, so a value may differ
from the one given when the reply arrives. The refinement shows the instant to be the
run of the delegate, and for the focused element the instant it was read, with the ID
it is about to get (`pendingIds`).

* `WpfServer.cfg`: a window, a control that holds others and a column, every action with
  the kinds of argument and of `tree_mode` it tells apart, IDs below, in and above the
  range, arguments of a wrong type. IDs of replies resolve, the worker implements
  `UiCalls`, and every request gets its reply unless a dialog is open or serialisation
  threw. The reply is serialised outside the `try` block (`ControlsHandlerBase.cs:95`): an
  exception there, for a collection that changes or belongs to the UI thread, ends
  the server's thread without a reply, which `Replied` excepts. Three elements are
  enough for a parent, something shown elsewhere than it hangs, and something that
  is not visual.
* Fairness: the server's thread, and the dispatcher running delegates, which includes
  that code of the application returns; nobody has to close a dialog.

### Injection

Python processes at the level of `_get_pipe`: probe, inject, wait, connect, and a
request that ends with a reply (`reply`) or at once with a broken pipe (`brokenPipe`);
the target at the level of `LoadLibrary`, its reference count, and the thread of each
injection. The server lets go of a client that wrote "disconnect" and serves the
next one, while the process keeps its handle (`cutOff`), or it ends after "shutdown".
`again` remembers that a load found the DLL there.

* `Injection.cfg`: two processes, three loads, two attempts to connect. There are
  never two servers, no thread runs unmapped code, the DLL is unloaded with its
  server unless it was injected again, and the server talks to a process that lives and
  whose pipe leads to it. A call whose pipe leads to the running server has the server
  at the other end unless that has disconnected it. Three loads give a double injection
  and a fresh one after it. `UnloadedUnlessAgain` names the exception: after a double
  injection the DLL stays, and no later call can start a server.
* Every call ends, except one that the server has and neither answers nor drops
  (`Unanswered`): `FlushFileBuffers` and `ReadFile` (`py/channel.py:57`) have no time
  limit. `NamedPipe`, `QtServer` and `WpfServer` say when a server answers.
* Fairness: the steps of a call, except its wait for the reply; the target may take as
  long as it likes.

### LinuxInjector

A request that may fail on its own is a step, and consecutive ones with one outcome
(the words of a read or a write) are one step. Memory and general registers are
abstracted to whose content they hold. The floating-point and vector registers are
outside the model: `py/cfuncs.py:114` does not save them, and `dlopen` may change them,
so nothing here says that the target gets them back. A target stopped inside a system
call goes through that call again before it runs the stub (`resuming`).

`PTRACE_ATTACH` sends a SIGSTOP, and the `waitpid` after it takes any stop for that one.
A signal may come first; the SIGSTOP is then still to come when the injector lets
go, and stops the target (`sigstop`). A `waitpid` that a signal interrupts raises: in
`attach` before the `try` block, and during the stub with the target running, so that the
`finally` block fails at its first request and skips the detach. Both leave the target
traced until the injector's process ends (`"cut off"`). `dlopen` maps the library and
then runs its constructor, and a signal may stop the target in between: a second
injection then finds the library mapped and may succeed without its constructor (`torn`).

* `LinuxInjector.cfg`: two injectors, two signals, one interrupted wait, a stack that may
  not be mapped, a target that may be killed. A target that is not traced has its own
  code, stack and general registers, and runs unless a SIGSTOP was overtaken; a finished
  injector has let go of it unless it was cut off; the constructor runs at most once,
  and has run after a successful injection unless an earlier one was torn; injections
  end, with a result, an exception, or cut off. Two signals allow one in `attach` and
  one in `dlopen`, and two injectors one that finds what the first has left.
* Fairness: the injectors, the stub and the event the target waits for. Without
  the last the injection into an idle application waits, as the code does.

### HookRecorder

`InjectorManager` and `PipeManager`, in the process that installs the hooks. The
hook thread opens the pipe, installs both hooks and sleeps on a condition variable;
threads of the application run the hook procedure, one step per lock, lookup, test,
write, close and reset; `SetApprovedList` inserts message by message beside them; the
recorder reads or dies. At the end of the process every other thread is dead where
it was, with the mutexes it held; at the end of the library they live on.

* `HookRecorder.cfg`: two threads, two hook calls, one of two messages on the list,
  room for one message in the pipe. The status "success" means hooked, for any
  wakeup; a message that was on the list before its hook was called is written when
  the hook has returned, unless the pipe failed or the lookup raced with an insertion;
  a failed handle is closed once and not used again, though the next thread waits
  for the lock at that moment; every hook returns, and the destructor gets to its end,
  unless the recorder stops reading.
  Two threads contend for the lock; a third would only wait too. One place in
  the pipe makes the second write wait.
* `HookReturns` and `ProcessEnds` except a recorder that lives and stops reading for good
  with the pipe full (`PipeFull`): `WriteFile` (`winmsg_listener/dllmain.cpp:69`) has no
  time limit and runs under `m_send_mutex`, so every other hook waits behind it.
* `ProcessEnds` also excepts the join in a library that is freed with its hook thread
  alive: the destructor holds `m_hook_mutex`, which the thread needs to leave its
  wait. At the end of a process the thread is dead and `join` returns; if it died
  with the mutex, Windows ends the process. A second `Initialize()`, and a thread that
  ended before the destructor without being joined, end in `std::terminate`.
* Fairness: the hook thread, the hook procedures and the destructor, but not the
  recorder, which nothing in the code makes read; strong for the lock of
  `stop_infinite_wait`, which a thread that wakes up again and again takes and gives back
  in between.

Deadlock is not checked where a bounded model stops by itself: in all runs but
that of `WpfServer`, requests, connections, instances, hook calls or injections are
numbered and run out.

## Proofs

`tlapm` checks every step; nothing is assumed but the named assumptions on the
constants: bounds are natural numbers, `GItemBase`, `Chunks`, `Attempts` and
`Capacity` are positive, `Nobody` is nobody, the controls of the WPF worker are
finitely many, its visuals, windows, holders and editable ones among them (no window is
a holder), no element of `QtActions` is of two kinds, and an application that has
Quick windows has loaded Qt Quick. Sets of addresses, elements,
clients, connections, descriptors, processes and controls are arbitrary otherwise.

* `DiscoveryProofs`, first part: the table. `ObjectIdsStable` is not inductive: it does
  not exclude a state in which the next instance has the serial number of an old one,
  or `m_nextId` is in use. `StoreInv` adds that serial numbers in use are below `born`
  and distinct, IDs in use below `m_nextId`, and that whatever a replied ID or an
  address was bound to is what `m_id2obj` still tracks unless that instance is dead.
  `LinkInv` adds, as long as the application has not disconnected an object, that
  the two hashes are inverse of each other and every registered object is
  connected. `ReachInv` bounds the two ranges of IDs. They give `TypeOK`,
  `ObjectIdsStable`, `LiveObjectsResolve`, `AutoDropped`, `ObjectIdsReachObjects`.
  Every step of the application and of a handler is a step of the table or a stutter
  (`ImplementsObjectStore`), so the same holds for clients that walk:
  `IdsOfClientsAreStable`, `IdsOfClientsResolve`.
* `DiscoveryProofs`, second part: trees and handlers. Two handlers search one tree in
  opposite directions: `parentOf` is a chain of casts on the element, the children are
  the union of loops on the parent. That they agree depends on what trees can exist.
  `TreeInv` says it: what is linked is alive; a widget or window is owned by what it
  is under, if anything; the only other owner of a window is a Quick item; the item
  inside a Quick window is owned by it, has no parent item and no second holder; a
  Quick window has that item except in the middle of its construction (`half`). It needs
  that no class is a widget and a window or a Quick item (lemmas on the constant
  hierarchy). One lemma for each loop of `handleElementsChildren` shows
  that what it lists fits under the element (`Fitting`), one for each case of
  `parentOf` that some loop finds it. Hence `ParentListsIt`, with the two exceptions
  it names, in every tree an application can make (`ParentAlwaysListsIt`).
  `HandlerInv` follows a handler through its loops: what is in the reply was seen,
  and the roots come to the windows after the widgets, with the window of each widget
  already marked as seen; so no element is named twice, nor a widget with its
  window (`AlwaysNamedOnce`).
* `DiscoveryProofs`, third part: a walk. `WalkReaches` is about its end; `WalkInv` says
  what holds all the time: of the elements that have not changed since the walk began
  (`Calm`), the roots, and what is listed by one whose children the client has asked
  for, are *coming*: told, in the reply, or still in a loop of the handler. It needs that
  an ID leads back to its element (`LinkInv`, and `ItemHashes` for the items), that what
  a handler passes over was named in this reply or is inside such an element
  (`SeenNamed`), that a new ID is in no client's hands (`Numbered`), and that what
  lists an element has it in one of its loops (`ListsIt`, the converse of `ParentListsIt`).
  That rests on one more invariant of the tree, `Kin`: everything is under its own
  kind. The application touches a set of addresses and spares the rest (`Spares`):
  a step makes no new calm element, root or parent of one. What a walk must reach is
  the least set that holds the calm roots and what its members list; at the end
  of a walk the visited elements are such a set, so no induction along the chain of
  parents is needed (`WalkAlwaysReaches`).
* `PipeServerProofs`, requests. The inductive invariant has six parts: types (which
  need that `left` is positive when `send` is reached), connections that were not made
  yet are blank (`Unmade`), the accept queue holds distinct connections of clients
  or of `stop()` that nobody serves (`Queued`), the connection being served is past
  the queue and was handled exactly if `run()` is past the handler (`Served`), the
  pieces a client has and those still to come add up to the reply (`Accounts`), and
  a client's connection is its own (`Clients`). `AnsweredOnce` follows from the
  accounts: a whole reply means `Chunks` pieces were sent, which means the handler
  has run. The same invariant shows that every step is a step of `Rpc` or a
  stutter (`Implementation`).
* `PipeServerProofs`, descriptors. `NothingLeft` is about the end of `run()`, and is
  decided by every interleaving with `stop()` before. `FdInv` says that an open
  listener or connection is the one its member names (`Named`), and for each position
  of the two threads what that means: between check and close the local copy is that
  descriptor too, and between close and reset none of its kind is open, so no reset
  loses one (`RunClient`, `RunServer`, `StopClient`, `StopServer`). `FailedOnlyAtEnd`
  needs that, as long as nothing ends, both descriptors are the ones `run()` uses
  (`Open`) and a client that waits is queued, served or answered (`Attended`).
* `PipeServerProofs`, `QtServer`. Every step of the composition is a step of
  `PipeServer` or a stutter (`ServerInServer`), and the assumption that `start`
  and `stop` are used properly is discharged: all of the above holds for the server in
  its surroundings. `QtInv` counts what is queued for the GUI thread: one start event,
  before any stop (`StartsOnce`), and one request, there exactly while its thread is
  in the handler (`Requested`). It gives `ThreadOwned`, `OneRequestAtATime` and
  `StoppedOnce`.
* `PipeServerProofs`, waiting. `NobodyElseHangs`: where `run()` cannot go on
  (`Blocked`), is not in the handler, and the client it serves owes it nothing
  (`Owes`), no client has a connection the server keeps, and a `stop()` in `join`
  finds the thread done, unless it joins unheard, having found no descriptor for the
  connection that wakes an `accept()`. It needs an owner for each connection that is
  open at its far end, a client that still works on it (`OwnInv`), and for the race of
  `stop()` with `accept()` (`WakeInv`): a stop that has come to its own connect is
  seen at the top of the loop or has closed the listener, and an `accept()` under way
  finds the connection it left in the queue, if it had a descriptor to make one.
  `OnlyTheseWaits` adds the GUI thread: where it cannot go on either
  (`GuiBlocked`), all is done but for an unheard join, or the pipe thread waits for a
  request that its GUI thread does not take or finish: that thread joins it in `stop()`,
  its event loop is over, or it is in a dialog nobody has closed. The first is the circle
  the run `QtServerCleanStop` finds; the theorem says that there are no others.
* `QtActionsProofs`. `ReadsOwnWrites` speaks of a text that nobody may have
  changed yet when the client is told it is set. `Counted` says where it is then: in
  the widget, or in the call that is first in the queue. That there is no other
  place rests on `Queue` (one call at most, and behind it the request, which the pipe
  thread waits for) and `Dialogs` (one request at most is held back by a dialog, and
  never a read). `CommandsInOrder` is part of the same invariant; `PutOffSafely`
  needs that what waits in the queue is about something alive or was taken back
  (`PostedAlive`), and that the timers of edit fields, buttons and views are bound to
  them (`TimersBound`). `AlwaysComesNearer` follows a request that waits: each event
  that is taken shortens the queue before it, nothing else touches it, every kind of
  element has a handler for it (`AlwaysHandled`), and a click, a text or a read is not
  held back by a dialog.
* `NamedPipeProofs`. `OwnReplies` needs that request and reply are in step
  (`InStep`): while the pipe is connected, what the server handles or has written
  and nobody has begun to read is the call its client is in. That is inductive with
  `Sides` (which states of the loop go with which states of the instance), `Buffers`
  (a client that may write finds the pipe empty) and `Owned` (a client that is ready
  has no call, and a call has one client). With `Fresh` and `Order` (what is asked is
  not executed yet, what is written is) every step is a step of `Rpc` or a stutter
  (`Implementation`), whichever server is behind the pipe and however long replies are.
  `OnlyCutRepliesHang` is about server and client that both wait (`ServerBlocked`,
  `ClientBlocked`): a client whose request was read is owed a reply or a broken handle
  (`Attended`), and a reply outlives its call only when it was cut (`LeftOver`), so
  they wait for one another only in two `FlushFileBuffers` after a cut reply.
* `WpfServerProofs`. `IdsResolve` needs that the IDs given out are at most the number
  of named controls, so that a new one hits no old one, and that `KnownControls` has
  exactly those (`Tables`). For the refinement of `UiCalls`, `Phases` says that a
  delegate runs only for a request that passed its checks, that no reply is there
  before its end, and that the application's code runs inside a setter only for
  `SetProperty`; a focused element counts as named from the instant it was read,
  and `FocusedStays` shows that it gets that very ID later.
* `InjectionProofs`. `OneServer` needs that a thread exists only for an injection
  whose `LoadLibrary` was done, and that the reference count covers the threads:
  `Servers` consists of `Fresh`, `OneServer`, `CodeMapped`, `Counted`. For
  `HolderConnected`, `Held` says that the holder's pipe leads to the serving thread, and
  that a living process whose pipe leads there is the holder or was cut off, which needs
  that a pipe never leads to a server that is still to start (`Opened`).
  `NeverAtALoss` says that a call that waits has a remote thread to wait for, that one
  that connects has an attempt left, and that one waiting for its reply waits for a server
  that serves; `StepsRunOut` that each step of a call makes `Ahead` smaller and only the
  next call makes it larger.
* `LinuxInjectorProofs`. Most is said of a target that lives. `Owner`: an injector
  is between attach and detach, or cut off, exactly if it is the tracer, so nobody else
  writes. `RunsItself` is not inductive: for the stack, the code and the registers
  each, `StackInv`, `CodeInv` and `RegsInv` add that what was read is the
  application's, that nothing is overwritten before it was read, and that it is
  back before the next restore. `Still` says when the target stands: an untraced one only
  for a SIGSTOP left behind (`Untraced`), one that is still to come only after a signal
  (`Overtaken`), and a target that runs at the start of the `finally` block only after an
  interrupted wait (`StillFor`). They make up `SafeInv`, which gives `RunsItself` and
  `LetsGo`. `LoadedOnce` follows the library (`LibInv`): outside a `dlopen` it is not
  mapped, its constructor has run, or a `dlopen` was torn, and the same holds of whoever
  comes to `verify`; `DoneRan` keeps it for an injector that is done when the target has
  gone. `StubInv` (what the registers, the stop signal and the result say in
  `continue`, `wait` and `check`) gives `ResultAlwaysIn` and `NeverWaitsInVain`; with the
  variants of `StepsRunOut`, one for an injector and one for the stub, that is
  `InjectionEnds` but for fairness.
* `HookRecorderProofs`. Lemmas say which steps change which variables; types are
  proved group by group. `HooksStay` needs that nobody but the destructor sets
  `m_hook_stop_thread` (`HookedInv`). `HandleClosedOnce` needs that one thread is between
  lock and unlock, and that a closed handle passes for a good one only while that
  thread is about to clear the flags (`PipeInv`). `OwedIsRecorded` follows an owed call
  from lock to write: its message stays on the list, and whatever clears the flag
  of the pipe has closed the handle (`OwedInv`). Who waits for whom: `SendInv` makes the
  holder of `m_send_mutex` the thread that is inside, `MutexInv` ties `m_hook_mutex` to the
  places of the hook thread and the destructor. So a hook procedure waits for one that
  moves, or for a recorder that lives and has something to read (`HooksAlwaysMove`); apart
  from that recorder, `join()` in a library that is freed is the one place where
  anybody hangs (`HangsInJoinOnly`).

Model-checked only:

* the liveness properties: fairness and ENABLED are beyond the prover. What they rest on
  apart from fairness is proved as far as it is about states and steps: who may be left
  waiting, and for whom (`PipeServer`, `QtServer`, `NamedPipe`, `HookRecorder`,
  `LinuxInjector`, `Injection`), and what each step brings down (`LinuxInjector`,
  `Injection`, `QtActions`). There "waits" is spelt out as a predicate (`Blocked`,
  `HookBlocked`, ...), for the prover does not know where an action is enabled;
* `WpfServer.Replied` has no such theorem: a request passes through a fixed sequence of
  steps of two threads, and what may hold it, a modal dialog, is in the property.

## Not modelled

* Rows and cells of item models (so a `QModelIndex` that goes stale is only a hazard);
  the choice of a CLR; `handleDesktopInfo`, which reads the screens.
* Unloading a library under running threads, and other threads of a target that
  execute the code the stub overwrites.
* `stop()` of the Windows server (it closes a handle that may be in a synchronous
  `ReadFile`), several threads inside one `ConnectionManager`,
  reuse of a pid, and a Python process killed in the middle of an injection.
* Text: JSON, names, rectangles, messages, the texts of an element's summary.
* Floating-point and vector registers of a Linux target (`py/cfuncs.py:114` does not save
  them), elements of WPF control templates, getters of WPF properties with effects.
* `sysinfo.py`, logging, packaging, the binaries under `libs/`, the Qt 6 copy.

## Plan

Done, in this order: `ObjectStore`, `Rpc` and `PipeServer`, `QtServer`, `NamedPipe`,
`LinuxInjector`, `Injection`, `UiCalls` and `WpfServer`, `QtActions`, `HookRecorder`,
`ElementSummary` and `Discovery`, and the proofs about each of them.

Next:

1. Item models: rows that come and go between `ClickCell`'s reply and its event,
   and handlers that use an index after running application code.
2. A composition of `Injection` with `NamedPipe` that carries a call from
   `call_action` to its reply, and the choice of a CLR in the bootstrap.
3. Proofs: the same for requests of the WPF worker, and which steps of `Injection` keep
   the DLL in place.
