# CommsChampion Tools, verified in TLA+

CommsChampion Tools (`cc_tools_qt`) is a desktop tool to watch, send and record
the messages of a binary protocol. A *socket* plug-in moves bytes, *filter*
plug-ins transform them, a *protocol* plug-in turns them into messages, and the
application `cc_view` shows the messages, keeps them, and sends messages the user
composed, with delays and repetitions.

This directory holds TLA+ models of the parts of the tool that have behaviour
worth checking, the TLC configurations that check them on small instances, and
TLAPS proofs of the theorems that hold for every instance.

## 1. The system

### How it runs

The tool has one thread and an event loop. No handler is ever preempted, so the
hard behaviours are not data races; they come from three sources:

* **Callbacks in the middle of a handler.** `ToolsMsgMgrImpl` calls the protocol,
  the filters, the socket and the application inside its loops. A protocol that is
  told of a received message may ask for an answer to be sent, at once, inside the
  handler that is still receiving.
* **Event loops inside a handler.** Any plug-in may report an error. The report
  ends in `QMessageBox::critical` (`MainWindowWidget.cpp:174`), which runs an event
  loop of its own before it returns: timers fire and data arrive while the handler
  that reported the error is suspended half-way. The user cannot click anything
  but the box.
* **State kept twice.** The message store and the list on the screen; the row of
  the widget, the index of the tool bar and the message `GuiAppMgr` believes to be
  selected; the send queue, its timer and the state of the send buttons.

### Inventory

| Component | State | Operations | Must be true |
|---|---|---|---|
| Paced sender `ToolsMsgSendMgrImpl` | protocol, delta queue of messages, single-shot timer | start, stop, timer pass | every message goes out when and as often as asked; a waiting queue always has its timer; no assertion fails |
| Message manager `ToolsMsgMgrImpl` | socket, protocol, filters, all messages, next number, receive flag | start, stop, clear, receive, send, reply, filter data, delete one / some / all, add | numbers identify messages; nothing reported is lost; deletions hit what they were asked for; data pass every filter once and in order; status is told to everyone |
| Receive area of `GuiAppMgr`, list widget, tool bar | list mode, filter, shown rows and their count, selection, pane, throttle timer | message added, click, delete, clear, load, toggles, filter dialog | list, tool bar, pane and store agree |
| Send area of `GuiAppMgr`, list widget, tool bar | send list and its count, selection, send state | add, edit, move, delete, clear, load, duplicate, start, stop | counts and selection agree; sending and editing exclude each other |
| Applying plug-ins: `PluginConfigDialog`, `ToolsPluginMgrImpl`, `applyNewPlugins` | available, selected, loaded and applied plug-ins, configuration widgets | search, add, remove, move, load and save a configuration, apply, cancel, unload | one socket and one protocol; widgets belong to the selected plug-ins; nothing that runs is unloaded |
| `ToolsSocket`, `ToolsFilter` | running, connected | start, stop, connect, disconnect, reports | no reports before start or after stop; status told to everyone |
| Echo, TCP, UDP, SSL, serial sockets | pending data, listeners, clients, connection pairs, peers | connect, disconnect, send, library signals | the status is that of the device; data are carried in full, once and in order; pairs and sockets are gone when they should be |
| Plug-in settings | host, ports, serial device, in socket, widget and file | edit, save, load, override by another plug-in | saved settings come back; what is shown is what is used |
| `ToolsMsgFileMgr`, `ToolsConfigMgr` | the file, the list in it | save, load, record | a failed or interrupted save loses nothing; a list comes back as it was |
| `ToolsFrameBase`, `ToolsProtocol`, `ToolsMsgFactory` | pending input, garbage; message table | read, write, clone, update, create | bytes are conserved; what is shown for a message is what it is |
| `MessageUpdateDialog`, `MessagesFilterDialog` | what the user has entered | edit, search, accept; show and hide types | what was entered is what is used, and comes back |
| Display of a message: `ProtocolsStackWidget`, `MsgDetailsWidget`, `RightPaneWidget` | tree, selection, pane | display, select, edit fields, edit extra information | what is shown and edited is the selected message |
| Field widgets | a widget per field, with boxes that show it in several ways | refresh, edit, select, add and remove members | the boxes agree with each other and with the field |
| Protocol definitions (raw data, demo), documentation, build | none | | |

### How the components interact

```
 socket --sigDataReceivedReport--> ToolsMsgMgrImpl --messageReceivedReport--> protocol
   ^                                  |   ^    ^                                |
   +------------- sendData -----------+   |    +--- sigSendMessageReport -------+
                                          |
 ToolsMsgSendMgrImpl --send callback------+---- added / error callbacks --> GuiAppMgr
   ^       ^                                                                  |  |
 QTimer    +-------- sendMessages, stop ------- send area <-------------------+  |
                                                receive area <-------------------+
                                                (list widget, tool bar, pane)
```

## 2. Modules

Four specifications are checked as wholes: the paced sender, the message manager
with the receive area on top, and three *composites* of parts that share the
program and not their state.

| Module | What it is |
|---|---|
| `SendSchedule` | what the paced sender promises: an agenda of transmissions, each with the time it still waits |
| `MsgSendMgr` | the paced sender, one loop iteration per step; `Schedule` maps it to `SendSchedule` |
| `MsgMgr` | the message manager with its stack of nested handlers |
| `RecvArea` | the receive area, composed with `MsgMgr` (it EXTENDS it: `Arrives` is a step of both) |
| **`Transport`** | **composite of the sockets and of the chain of filters** |
| `ToolsSocket` | the base class of all sockets: running and connected flags, guards of the public operations, reports |
| `TcpServerSocket`, `TcpProxySocket`, `ClientSocket` (TCP and SSL), `UdpGenericSocket`, `UdpProxySocket`, `SerialSocket`, `EchoSocket` | the socket plug-ins |
| `FilterChain` | how `ToolsMsgMgrImpl` runs socket and filters: start, stop, data up and down, status |
| **`UserInterface`** | **composite of the parts of the main window** |
| `SendArea` | the send list in `GuiAppMgr`, tool bar and list widget |
| `PluginDialog` | the plug-ins dialog, the plug-in manager and `applyNewPlugins` |
| `UpdateDialog`, `FilterDialog` | the dialogs that compose a message and hide types of messages |
| `MsgDisplay` | the tree and pane that show and edit a message |
| **`DataParts`** | **composite of the parts that keep and convert data** |
| `Settings` | how keys of another plug-in override a setting |
| `SocketConfig`, `SerialConfig` | settings of the socket plug-ins, their widgets and files |
| `FrameRead` | bytes to messages and back |
| `MsgFileMgr`, `FileSave` | what is in a file of messages; how any file is replaced |
| `FieldWidgets`, `TextFields`, `MemberFields` | widgets of numeric fields, of texts and raw data, and of fields with members |
| `Lists` | what several of them do with lists: what is left of a list at some positions, the bisection of `std::lower_bound()` and `std::upper_bound()` |
| `MsgSendMgr_proofs`, `RecvArea_proofs`, `FilterChain_proofs`, `Transport_proofs`, `PluginDialog_proofs`, `UserInterface_proofs`, `DataMessages_proofs`, `DataParts_proofs` | theorems and their proofs |
| `MC...` | instances for TLC |

A composite has a variable `subject`, chosen by Init: one part runs and the others
wait. That is how the program works and not only a way to save states: the
tool has one socket plug-in at a time, its dialogs are modal, and the data parts
do not call each other. What does call each other is in one
specification: a socket with its base class, the three holders of a
selection, a dialog with its widgets, `RecvArea` with `MsgMgr`.

Operators named `Wrong...` are deliberate mistakes (a reset that is missing, a
time that is not subtracted). Nothing refers to them; they are there to be put in
the place of the definition they stand next to, to see that the properties
notice.

### The paced sender

`queue` is `m_msgsToSend`, a *delta queue*: the delay of an entry counts from the
entry before it; the front entry's delay moves into the timer when the timer is
armed. `pc` says where in `start()` or `sendPendingAndWait()` the running handler
is, and `idle` that an event loop runs. The steps follow the source: `Load`
(clone and append one message), `Splice` (move the due prefix out), `Drop` or
`Search`, `Pass`, `PutBack` (one message of the batch: not repeated, or put back
by `std::find_if` and `insert`), `Arm` (start the timer, then call the callback),
`Deliver` (the callback hands one message on, and an error box may open), `Return`
(the callback is done; completion when the queue is empty). `TimerFires`,
`CloseDialog`, `Start` and `Stop` come from an event loop. `frames` is the stack of
callbacks suspended by boxes.

The cast `static_cast<int>(delay)` is modelled by what it does (`ToInt`), with
`TimerLimit` in the place of 2^31.

`due` and `gap` are history variables: the time to each transmission, counted
from the last timeout. The code has no such state; it is what the delta
encoding stands for, and `QueueKeepsTime` relates the two. Time is logical: the
timer fires exactly when it was asked to, and handlers take no time. That a real
timer is late, and that lateness adds up, is outside the model.

### The message manager

`handlers` is the stack of running `socketDataReceived()` and `sendMsgs()` calls;
`loop` says that an event loop runs on top of it. `Reply` pushes a `sendMsgs()`
call on a handler that is telling the protocol of a message; `OpenBox` and
`CloseBox` start and end a nested event loop. `TellReceived`, `ReportReceived` and
`StoreReceived` are three points of one loop: the message gets its number and the
protocol is told; the application is told; after the last message the list is
spliced into the store. `sendMsgs()` stores before it reports (`StoreSent`).
`deleteMsgs()` is the walk of both lists in step (`DeleteMsgs`), with the shortcut of
`GuiAppMgr::deleteMessages()` for lists of equal length (`DeleteList`).

Filters keep no message state: what they do to the data is covered by letting a
piece of data contain any messages (`Chunks`), and by storing a sent message
whether or not anything was handed to the socket, as the code does.

`reported` is a history variable: what the application was told of and has not
deleted. In `MsgMgr` alone, the application may delete any message, or any list
it could be showing (`AppLists`); `RecvArea` narrows this down to what the widget
does.

### The receive area

`view` is a record of what `GuiAppMgr`, the list widget and the tool bar hold. The
handlers are operators on it (`Click`, `RecvClicked`, `Refresh`, `MsgAdded`, `ClearList`,
...), composed the way the slots call each other, because Qt delivers those
signals synchronously. `mode` and `hidden` are the toggles and the filter dialog.
Of the send list one selected message (`SendItem`) is left, enough for the
selection to move between the two lists.

A click on a row makes it current, which the widget takes for a click, and then
reports the click itself within its threshold of 250 ms, which is ignored; the
model has the one click that counts.

`nested` records that a handler has run inside another one: until then the list on
the screen shows exactly the stored messages the user does not hide
(`ListShowsStore`); afterwards the order may differ, which is the first finding
below.

### Sockets and chain

`ToolsSocket` has the flags of the base class and operators that each socket
module builds its actions from: `Started`, `Stopped`, `Connected`, `Disconnected`,
`DataReported`. `told` is the status last reported to the listeners, and `stray`
remembers that data were reported while the socket was shown disconnected. The
device of the operating system is external: it may refuse to open, connect later
or never, lose a connection, and hold data not read yet.

* `TcpServerSocket`: listener, accepted clients, what each was sent (`got`). Closing
  the listener does not close the clients, as in the code.
* `TcpProxySocket`: `pair` is what became of the connection each client has to the
  remote host, `ready` the clients whose `readyRead` waits to be handled, `carried` what
  each remote end was written.
* `ClientSocket` with `Ssl` TRUE or FALSE: the two differ in what a connection
  attempt that gives up leaves behind; of SSL that may be a negotiation (`link = "shake"`)
  that ends when nobody waits for it. `ErrorOccurs` opens the error box of
  `socketErrorOccurred()`; while it is open (`box`) the connection may go and data may come, and
  the state is looked at when it is closed (`ErrorShown`).
* `UdpGenericSocket`: peer and time to live; a failing `bind` is reported and the
  connection is nevertheless taken for made. A loss is reported and leaves the device
  open (`dead`), as `socketDisconnected()` does.
* `UdpProxySocket`: deleting a socket emits `disconnected`, whose slot runs inside
  the deletion; `listen` is null, bound or the client it is connected to.
* `EchoSocket`: `loops` is the stack of rounds of the zero timer, each suspended in an
  error box of the one inside.
* `FilterChain`: `calls` is the stack of walks through the chain (data up or down,
  status), each at some filter; a filter may send data of its own from any of
  them, and with `Dialogs` any plug-in called may open a box.

### The main window

A slot that runs inside the call that emits its signal is an operator on a record,
applied where the code emits: `SendArea` composes a click on the tool bar, the move
of the row, the click of the list on the row it passes and the selection of that
row exactly as Qt does. `ok` is FALSE once an assertion has failed; `NoAssertionFails`
says that it never is.

`PluginDialog` has the lists and buttons of the dialog, the libraries the plug-in
manager has loaded, and the early returns of `applyNewPlugins`. Lists of plug-ins are
sequences; those of one type are selected from them as the code does (`OfType`). A plug-in
of `Broken` has a library that cannot be loaded: selecting it shows nothing, and a file that
names it ends the program (`aborted`), when it is loaded in the dialog or at the start. The arrow
keys change the current row as a click does, without a click being reported (`KeyAvailable`,
`KeySelected`): the buttons stay what they were (`stale`). `UpdateDialog`
models a spin box by minimum and value, since setting the one may change
the other and calls the slot. `FilterDialog` has the sorted list and
the binary search in it, halving by halving (`Bisect`), so that it also returns
something when the list is not in order, as the code does. `MsgDisplay` posts the display of an edited message
(`queued`), and everything may come before the posted call: clicks, edits of another
message, messages that arrive. `Postponed` then displays what it was posted for and changes
neither the owner's message nor whether that may be edited; `stray` says that what it
has displayed is not what is selected, and `forgotten` are the messages that were edited in such
a display. `Arrive` brings a message or *garbage*, bytes with no transport part, whose tree has
fewer items. `chosen` is FALSE once an item without a message was selected.

### Data

`FrameRead` reads any stream of good and bad bytes in any chunks, from several clients
and from a dialog; `frame` is what `m_inData` and `m_garbage` keep between the calls.
`MsgFileMgr` abstracts a message to what the file tells apart (id, form,
direction, time, pace, data, extra information). Bytes that are no message have the id "0" in
the list and in the file, and loading makes a message of them only when the protocol has one of that
id. Init chooses a list of received messages
(`Arrived`) or of composed ones (`Composed`), and actions save it, load it with
this protocol or another, or record it message by message. `FileSave` has one step per call of the
library, each of which may fail, a disk that fills, and an end of the program
between any two. `SocketConfig` keeps settings in socket, widget and file. The
three field modules keep a field and the boxes that show it, and run the slots
of boxes inside the calls that set them; a widget of a text is not there until `Show`, whose
refresh already has the slots connected and may cut the text.

## 3. What is checked

| Run | Configuration | States | What it shows |
|---|---|---|---|
| `paced_sending` | `MCMsgSendMgr.cfg` | 4 068 | `AssertionsHold`, `QueueKeepsTime`, `TimerGuardsQueue`, and the refinement `KeepsSchedule`, with error boxes up to two deep |
| `paced_sending_live` | `MCMsgSendMgrLive.cfg` | 2 939 | `NoStarvation`, `FiniteSendingEnds` |
| `message_manager` | `MCMsgMgr.cfg` | 4 987 | `NumbersIdentify`, `ReportedAreKept`, `DeletesOnlyListed` |
| `receive_area` | `MCRecvArea.cfg` | 731 544 | `SelectionIsOne`, `ShownAreStored`, `SelectionPinsPane`, and `ListShowsStore` until handlers nest |
| `transport` | `MCTransport.cfg` | 33 217 | `StatusIsDevice`, `StreamsArrive`, `CarriesEverything`, `TtlAsAsked`, `TalksToTheFirst`, `EchoesInOrder`, `PathIsChain`, `ChainAgrees`, and `EverythingComesBack` under fairness |
| `user_interface` | `MCUserInterface.cfg` | 779 704 | `NoAssertionFails`, `SendAreaAgrees`, `PluginsAgree`, `AcceptedComesBack`, `HiddenIsFound`, `ShowsMessage`, `StepsKeep` |
| `data` | `MCDataParts.cfg` | 294 410 | `SettingsAreKept`, `BytesBecomeMessages`, `ListsComeBack`, `FilesSurvive`, `WidgetsShowFields`, `NoAssertionFails`, `StepsKeep` |
| `clear_after_reply` | `MCRecvAreaClear.cfg` | violated | `ClearedIsGone` |
| `udp_proxy_null` | `MCUdpProxyNull.cfg` | violated | `HandlersKeepSockets` |
| `connect_asserts` | `MCConnectAsserts.cfg` | violated | `ConnectFindsClosed` |
| `display_lost_info` | `MCMsgDisplay.cfg` | violated | `SelectedHasMessage` |
| `variants_in_lists` | `MCMemberFields.cfg` | violated | `MembersCanBeSelected` |

A property of a composite is a conjunction with one part per subject; the parts
are defined, each with its comment, at the end of the modules they speak of.

### The five properties the code violates

* `ClearedIsGone`. The clear button promises to *"Delete All Displayed Messages"*
  (`RecvAreaToolBar.cpp:96`). Of a piece of data with two
  messages, the first is reported; the protocol answers the second inside
  `messageReceivedReport()`, and the answer is stored and reported; then the second is
  reported. The application's list is first, answer, second; the store is answer, first,
  second, because `socketDataReceived()` splices its messages in after its loop
  (`ToolsMsgMgrImpl.cpp:414`).
  `deleteMsgs()` walks both lists once and in step. If the list also hides a message,
  so that the shortcut for equal lengths is not taken, the walk misses
  displayed messages: they stay stored, and the next refresh brings them back.
* `HandlersKeepSockets`. `remoteSocketDisconnected()` of the UDP proxy asserts
  `m_remoteSocket` (`UdpProxySocket.cpp:299`), blocks the signals of that socket where
  it means the listen socket (line 303), and destroys the listen socket. If a client is
  connected to it, its `disconnected` signal runs `listenSocketDisconnected()`
  inside, which resets `m_remoteSocket` and uses the listen socket that is null.
* `ConnectFindsClosed`. Whoever may click *Connect socket* finds a socket that is not connected:
  `SslClientSocket.cpp:109` asserts so with `Already_connected`, a constant that is false,
  `UdpGenericSocket.cpp:169` with `!m_socket.isOpen()`. When `waitForEncrypted(3000)` gives up
  (`SslClientSocket.cpp:154`), the socket stays connected in the middle of its negotiation and is
  shown disconnected; the UDP socket after a loss is shown disconnected and stays open.
* `SelectedHasMessage`. `ProtocolsStackWidget.cpp:194` asserts that a selected item has
  a message. A message from a file whose extra information the user has emptied and
  whose fields are then edited loses its extra information message; the item stays.
* `MembersCanBeSelected`. `ToolsVariantField.cpp:68` asserts `m_createMemberCb`. The widget
  of a list works on a clone, `ToolsField::clone()` clones the members with
  `clone()` (`ToolsField.cpp:116`), and the callback is copied by
  `ToolsVariantField::actClone()` only (`:92`): a variant that is an element of a list
  cannot change its member.

### Exceptions

Where the code does otherwise than a property would say, the model does as the code, and
the property excepts the case by name.

| Property | Case | Code |
|---|---|---|
| `ListShowsStore` | a handler has run inside another one: the order may differ | `ToolsMsgMgrImpl.cpp:414` |
| `StatusIsDevice` | the SSL client ends its negotiation late and delivers while shown disconnected | `SslClientSocket.cpp:154` |
| | connections that TCP server and proxy have accepted outlive a disconnection, and their data are reported, while a socket is *expected to disconnect* and *close the low level I/O socket* (`page_socket_plugin.dox:56`); of the two the property speaks of the listening end | `TcpServerSocket.cpp:113` |
| | the UDP device stays open after a loss | `UdpGenericSocket.cpp:398` |
| `ChainAgrees` | a box runs inside a call: another walk overtakes the one that is suspended | `ToolsMsgMgrImpl.cpp:341` |
| `NoAssertionFails` (window) | a file names a library that cannot be loaded: the program ends | `ToolsPluginMgrImpl.cpp:203` |
| | a key has changed the current row, and a move button that is still enabled has no place to move to | `PluginConfigDialog.cpp:369` |
| `PluginsAgree` | a list was loaded while an available plug-in was marked: a second socket or protocol can be added | `PluginConfigDialog.cpp:703` |
| `StepsKeep` (window) | two protocols are selected: the last ones are compared to say whether the protocol changes, upon which the send list is emptied unasked, and the first one is used | `ToolsPluginMgrImpl.cpp:257`, `GuiAppMgr.cpp:577` |
| `ShowsMessage` | a click came before a posted display: one message is shown and edited, another one is selected, updated and told to be editable | `RightPaneWidget.cpp:72` |
| | garbage is displayed a second time: its items are given the parts of other items; without extra information an assertion fails | `ProtocolsStackWidget.cpp:96` |
| `SettingsAreKept` | the private key of the SSL client comes back as its certificate | `SslClientSocketPlugin.cpp:161` |
| | the passphrase is not saved; a baud rate of 0 is not taken | `SslClientSocketPlugin.cpp:59`, `SerialSocketPlugin.cpp:87` |
| | the widget of the SSL client is not told what other plug-ins have asked for | `SslClientSocket.cpp:231`, `SslClientSocketConfigWidget.cpp:129` |
| | a request for the local port of the generic UDP socket sets the port it sends to, over the key of that port | `UdpGenericSocket.cpp:367` |
| `ListsComeBack` | bytes that were no message are saved and lost, or come back as the message of the id 0 | `ToolsMsgFileMgr.cpp:128` |
| | a received list whose times descend has no pace | `ToolsMsgFileMgr.cpp:425` |
| `StepsKeep` (data) | a string that is shown loses what its box cannot hold, though nobody edited it | `StringFieldWidget.cpp:40` |
| `NoAssertionFails` (data) | a list at the limit of its length prefix takes one more element; special values of a 32 bit number with an offset; a variant in a list | `ArrayListFieldWidget.cpp:166` |

### Bounds, and why they are enough

* **Send lists** (`MCMsgSendMgr`): all lists of two messages with delays 0..2, with
  and without a period, counts 0 (for ever), 1 and 2, and six lists of three
  messages with equal due times, exact multiples and counts without period.
  Insertion at the front, between two entries, behind equal ones and at the end all
  happen. Every delay is below `TimerLimit`.
* `MaxFrames = 2`: one box inside the callback, and another pass inside the box. A
  message that repeats for ever can open boxes without limit while nobody closes
  them; a deeper stack repeats the same situation.
* `MaxMsgs`, `MaxChunk`, `MaxDepth` of the message manager: messages numbered in a run,
  messages of one piece of data, nested handlers. Four messages let a reply come between
  two messages of one piece and a deletion leave some out; three let a hidden, a
  displayed and a selected one meet in the receive area. Numbers never
  wrap (the source asserts this).
* Two names in the receive area, one of them garbage, one that may be filtered out.
  Toggles are restricted to sent messages and the filter to keep the instance small.
* **Transport**: two clients, so that one may come or go while another is served, and
  two pieces of data of each kind, so that an order exists to be lost; the TCP
  proxy has one piece per client and direction, the UDP proxy three datagrams (before, at
  and after the making of the remote socket). Two filters have a first, a last
  and a neighbour; three nested calls put a filter's own data inside a
  walk inside a report.
* **User interface**: three rows (a first, a middle and a last) and three changes of
  the send list; two sockets, three filters, of which one has a library that cannot be
  loaded and is named by one of the files, and two protocols; a received message, one of
  garbage, a loaded one, a copy and a composed one, with three edits; four types of messages, of which two match a search; delays of 1 to 3
  in two units.
* **Data**: ports 0 to 2; four bytes in chunks of up to two with a frame of two and
  a garbage limit of two instead of 512; three messages with times up to 3, where
  `DelayLimit` stands for 2^32; two protocols of which the second lacks a message of
  the first and has other forms of one that both have, some of whose bytes fit one form
  and some both; four saves and four names of temporary files; numbers
  of which some fit the type and not the bytes (`MaxSer` 3, `MaxType` 4); texts of two,
  lists of three with members up to 2; two edits after each other, as every edit
  ends with all boxes refreshed.

`CHECK_DEADLOCK FALSE` is given where a behaviour may stop: the histories and
edits of the composites and of three of the violated runs are bounded, and a bound
that is reached, a program that has ended or an assertion that has failed leaves
nothing to do. The other runs are checked for deadlock, and have none.

### Fairness

* `FairSpec` of the paced sender: weak fairness of `Handler` (the thread
  finishes the handler it is in) and of `TimerFires` (the event loop delivers a
  timer that expired). The liveness run has no error boxes, since a box nobody closes
  holds up its handler.
* `Fairness` of the echo socket, which is a conjunct of `Transport`'s `Spec`: weak
  fairness of `Timeout` (the zero timer is delivered), of `Echo` and `Done` (the loop goes
  on), of `Reported` (a report returns), and of `CloseBox`: an echo inside a box
  does not wait, but the round underneath it goes on only when the box is closed. It
  is the only place where the user is assumed to do something.

All are what Qt provides while the process runs.

## 4. What is proved

TLAPS proves, for every value of the constants:

| Theorem | Module | Statement |
|---|---|---|
| `TypeCorrect` | `MsgSendMgr_proofs` | `Spec => []TypeOK` |
| `AssertionsNeverFail` | | `Spec => []AssertionsHold` |
| `TimeIsKept` | | `Spec => []QueueKeepsTime` |
| `WakeupIsKept` | | `DelaysFit => (Spec => []TimerGuardsQueue)` |
| `ScheduleIsKept` | | `Spec => KeepsSchedule` |
| `TypeCorrect` | `RecvArea_proofs` | `Spec => []TypeOK` of the message manager |
| `NumbersAreUnique` | | `Spec => []NumbersIdentify` |
| `NothingReportedIsLost` | | `Spec => []ReportedAreKept` |
| `DeletionsAreAsked` | | `Spec => DeletesOnlyListed` |
| `AreaTypeCorrect` | | `AreaSpec => []AreaTypeOK`, of manager and receive area together |
| `SelectionAgrees`, `RowsCanBeDeleted` | | `AreaSpec => []SelectionIsOne`, `AreaSpec => []ShownAreStored` |
| `RowsAreTheStore` | | `AreaSpec => []ListShowsStore` |
| `SelectionIsPinned` | | `AreaSpec => SelectionPinsPane` |
| `ThroughTheChain` | `FilterChain_proofs` | `Spec => []PathIsChain` |
| `AgreesWithoutBoxes` | | order of the data and status of the chain, without error boxes |
| `EchoInOrder`, `NothingForgotten` | `Transport_proofs` | `EchoesInOrder`, `WaitingIsServed` of the echo socket alone |
| `SocketsFollow`, `NothingUncounted` | | `SocketsFollowStatus`, `CarriesEverything` of the UDP proxy alone |
| `TypesKept`, `StatusFollowsDevice` | | `Spec => []TypeOK`, `Spec => []StatusIsDevice` |
| `StreamsKept`, `TtlKept`, `ChainInAgreement` | | `StreamsArrive`, `TtlAsAsked`, `ChainAgrees` of the composite |
| `EchoReturns`, `ChainIsPassed`, `ProxyCarries`, `FirstIsKept` | | `EchoesInOrder`, `PathIsChain`, `CarriesEverything`, `TalksToTheFirst` of the composite |
| `PluginDialogAgrees` | `PluginDialog_proofs` | `Spec => []PluginsAgree` |
| `SendListAgrees` | `UserInterface_proofs` | `Spec => []SendAreaAgrees` |
| `DialogKeepsMessage` | | `Spec => []AcceptedComesBack` |
| `HiddenTypesAreFound` | | `Spec => []HiddenIsFound` |
| `DisplayFollowsMessage` | | `Spec => []ShowsMessage` |
| `AssertionsHold` | | `Spec => []NoAssertionFails` of the main window |
| `StepsForgetNothing` | | `Spec => StepsKeep` of the main window |
| `BytesAreRead` | `DataMessages_proofs` | `Spec => []BytesBecomeMessages` |
| `ListsReturn` | | `Spec => []ListsComeBack` |
| `FilesAreSafe` | `DataParts_proofs` | `Spec => []FilesSurvive` |
| `NothingOverwritten` | | the part of `StepsKeep` that speaks of files |
| `SettingsComeBack` | | `Spec => []SettingsAreKept` |
| `WidgetsAreRight` | | `Spec => []WidgetsShowFields` |
| `NoWidgetAsserts` | | `Spec => []NoAssertionFails` of the data parts |
| `StepsAreKept` | | `Spec => StepsKeep` of the data parts |

Every invariant and every safety action property that a passing run checks is proved;
what is left to TLC is liveness and the properties the code violates. `TypeCorrect` is
the name of a theorem in two modules.

The composites are proved about part by part: a part's invariant has the form
`subject = ... =>`, the steps of the other parts keep it because they do not have that
subject, and a theorem on a conjunction of all parts puts them together.

### The paced sender

The assumptions are `SendListsAssumption` (lists of well-formed entries, each
message once: the widget hands over clones of distinct list items) and
`BoundsAssumption`. `WakeupIsKept` needs `DelaysFit`: the code casts the delay to
`int`, and a longer one would leave the queue without a timer.

**The inductive invariant** is

    IInv == TypeOK /\ Distinct /\ QueueKeepsTime /\ Phases /\ Searching

None of the properties is inductive by itself. `Distinct` (an identity is in one
place only) is needed because `due` is indexed by message: putting one back must not
change the due time of another. `Phases` says for each `pc` which variables are
at rest and whether time has passed (`gap = 0` during a pass). `Searching` is the
loop invariant of `std::find_if`: what is left of the new delay plus the due time of
the entry before the iterator is the period of the message. When the search ends
this is what makes the inserted delay right and the shortened delay of the next
entry positive, and from there `QueueKeepsTime` and the assertion `0 < delay` follow.
`WakeupIsKept` strengthens it with the relation of timer and gap.

**The refinement** maps an entry to the agenda item with its due time. `Splice`,
`Search`, `Pass` and `Deliver` stutter: they change the encoding and not
what it stands for. `Load` is `Plan` or `Close`, `Drop` and `PutBack` are `Send`,
`TimerFires` is `Advance`, and `Stop`, or `Return` with an empty queue, is `Cancel` or a stutter.

### The message manager

**The inductive invariant** is

    IInv == TypeOK /\ Hands /\ NumbersIdentify /\ ReportedAreKept

`Hands` is what the nesting of handlers needs: the messages in the hands of different
activations are disjoint, none is stored yet, a handler that sends has none, and the
one the protocol is being told of was not reported. Without it, splicing a list into the
store, or reporting its last message, could repeat one. The other facts of a step
follow from the lemmas on the stack (`Called`, `Returned`, `Replaced`), and from
`OneNew`: a number is new because all others are below `m_nextMsgNum`.

`DeletionsAreAsked` holds for lists of any length, and needs no induction
over the walk of `deleteMsgs()`: each message it takes out has a number of the list
(`Walk`), what is listed was reported and is stored, and numbers identify messages. A
list as long as the store, without repetition and part of it, has the same elements
(`SameLength`), so the shortcut is right. That the rest keeps its order follows
from how positions of a sequence are selected (`Ranks`, `Positions`): they
are numbered in their order without a gap. That *all* the listed messages go is
not so: `ClearedIsGone` is violated.

### The receive area

`RecvArea_proofs` first proves the theorems on the manager above and then keeps its
invariant in the composition, since a step of `RecvArea` is a step of `MsgMgr` or leaves it alone.
**The inductive invariant** is

    AreaInv ==
      /\ IInv                                     (* of the message manager *)
      /\ mode \subseteq Modes /\ hidden \in Filters \cup {{}} /\ nested \in BOOLEAN
      /\ Sound(view)
      /\ ToSet(view.shown) \subseteq ToSet(stored) \cup ToSet(reported)
      /\ InOrder

`Sound` holds of the view after every single call, even where the calls of one
slot are half done, and has the agreement of row, tool bar, clicked message and pane.
`ListShowsStore` is not inductive: while a handler
runs the store is behind the list. `InOrder` says what the list is then: until a
handler has run inside another one, what was reported is the store followed by what
the running handler has reported and not yet stored (`Known`), and the rows are those
of it that mode and filter let through, in that order. A refresh clears the list and adds
the stored messages one by one; that it ends with exactly those is
an induction on the messages added. The library states induction with an operator
as parameter, which the provers cannot instantiate; the proofs take the least
number for which the claim fails instead, from the order of the natural numbers.

### The chain of filters

`PathIsChain` speaks of finished writes. The invariant `OnItsWay` speaks of every call on
the stack: what a call has still below it, added to the path it has taken, is the
part of the chain below its sender. A nested call starts with a path of its own and
returns without touching the one it has interrupted, so the induction is per call.
`FiltersAreCounted` is the only assumption on the number of filters.

`AgreesWithoutBoxes` is about a chain without error boxes. Then nothing comes in between
the steps of a call (`Plain`: at most one call, and a filter's own data inside it), the piece on its
way up is newer than any the protocol has (`NewestComes`), and the listeners that a
report has passed know the status (`ToldSoFar`). Inside a box another walk can overtake the
one that is suspended; `ChainAgrees` says nothing of that.

### The sockets

*Echo.* `EchoesInOrder` and `WaitingIsServed` are inductive together with the type
invariant: echoed pieces followed by the pending ones are the stream, and a pending
piece has an armed timer or a round on the stack that will find it. *UDP proxy.* The
invariant `Agreement` ties the null pointers to the status of the base class and the
listen socket's peer to the existence of the remote one. `Bounds` and
`ClientsAreNames` (a state of the listen socket is no client) are assumed. Both sockets
are proved about as specifications of their own first, inside `Transport_proofs`.

*The composite.* `Transport_proofs` instantiates `FilterChain_proofs` with the
substitutions `Transport` uses and proves, action by action, that a step of the chain is
a step of that instance; `[Next]_vars` then gives the part's next-state relation when it
is the subject, and says nothing about it otherwise.
The TCP sockets, both clients, the UDP socket and the serial port have their invariants proved
there. What says most: `Streams` of the TCP server (what a client got is what was sent
from the piece on that was the next when it was accepted, and the list of sockets names each
accepted client once, so that no piece is written twice); `Counts` of the TCP proxy (of
every pair, what was forwarded plus what waits to be read is what came, and what waits has a signal
under way); `ClientRuns` (the connection of the TCP client is up exactly while it is shown
so, but for the time its loss is on display in an error box); `UdpRuns` (a device that is open
and was not given up means a connected socket; a first sender, once known, is its peer). `TransportAssumption` collects what is needed of the constants.

### Frame and messages

*Frame* (`FrameRuns`). `BytesAreRead` is for any bytes, cut into any chunks, from any
clients. The loop of `readDataImpl()` is a recursive function of the rounds it makes
(`Rounds`); each round takes a message, takes one byte of noise, or stops (`Round`). Two
facts go from round to round. `Whole`: the raw bytes of the messages found, the
noise kept and the bytes not read yet are, in this order, the bytes that came.
`AllFound`: the messages found are as many as there are headers followed by their payload
before the place the loop is at, and that place does not divide one. Both hold between the
calls too (`FrameHolds`), since the loop ends with less than a message (`StoppedIsShort`). A final
call, which takes what is left for noise, may divide a message whose rest comes later:
`AllFound` is claimed until then (`flushed`). `NamesLastSource` is inductive with them: the
byte that completes a message is in the chunk that is being read.

*Files* (`MsgFilesRuns`). The file has all there is to know of a message
(`ListSound`, of received messages or composed ones, `Received` and `Composed`; `FileSound`); loading is a function of file and protocol (`LoadedSound`), and
the proof is about what that function returns. Which messages are left, and in which
order, follows from lemmas on the selection of some elements of a list; which form each gets from a case on the index
in the file (`Form`, with the least form that decodes the data). The delays of a received
list that is loaded to be sent are computed in a loop that remembers the time of the
message before. `Replayed` says what the loop does when the times ascend: each message waits for the
difference to the one before, which the type of a delay has; and the delays add up (`Passes`)
to the time since the first message. An open recording is the text of as many messages
as were added (`Body`), and a closed one has the end behind it (`TextSound`).

`FrameAssumption`: the limit of noise is not zero. `MsgFilesAssumption`: the forms of a
message are numbered from one, and there is a time a message can have, which is a number a delay can be.

### Files and settings

*Files.* `DataParts_proofs` strengthens the properties with `SaveProgress`: which of the
steps of a save have been done, what is under the temporary name and what remains of the old
file. `NothingOverwritten` also needs that the search for a temporary name ends at one that is
not taken, for which the least of the free numbers is picked; `DataPartsAssumption`
asks for at least one temporary name.

*Settings.* `SettingsSound` is inductive: socket, widget and saved configuration have the
settings of the plug-in (`PluginFacts` goes through the seven of them), what the file has after a
save is what was saved, and values of the serial port are ones its boxes know or damage
(`FileIsKnown`), because only then is what was saved also valid when it is loaded.
`LastKeyWins` says that of the keys another plug-in may ask by the last of the list
overrides the others; `BoundedTwice`, that a box which writes back what it shows does not
change it a second time. The private key of the SSL client that
comes back is its certificate (`Back`); what its widget was not told of is `untold`, which is
empty in every other plug-in. For the name of the serial device `SerialRuns` has what
`refreshInternal()` leaves: the line has the name always, the list when it is visible.
`DataPartsAssumption` excludes that zero is the only port.

### The widgets of fields

The parts of a widget set each other: refreshing sets a box, the box calls its slot, the
slot changes the field and refreshes again, inside the first refresh. The models have this
as a recursive function on the states of the widget (`refresh`). Before anything can be said of
its values one has to prove that there is such a function: TLA+ takes one that satisfies
the equation, if there is one. `CallsEnd` shows that the calls end: a number widget
calls itself at most twice, a text widget three times (`TextCallsEnd`). `Depends(a, n)` says that
what the refreshing of `a` returns depends on no other call than that of `n`, `Alone` that it
depends on none. The function is then what a few rounds of the equation give, starting from
any other (`RefreshExists`, `RefreshIs`).

*Numbers* (`NumberSound`). `RefreshResult` is the lemma on every kind of widget: after a
refresh the parts agree with the field, and the field is what it was, unless the box had
to report another value (`Still` says when not). `Exempt` is the 32 bit number with an
offset, the one kind whose special values the code takes for displayed ones, as
`NoAssertionFails` says. Every slot is then one call of that lemma followed by a report.

*Texts* (`TextSound`). A text that is neat (it has no character its box drops, is not longer
than the field, and of raw data has whole bytes) is read back from the box as it was shown
(`NeatIsReadBack`), and what is read from a box is neat (`ReadIsNeat`), so the third call at
the latest finds nothing to change. A text that is not shown yet need not be neat (`Unseen`); what showing
it leaves is what its box can hold (`Held`), and `ShowingKeepsStep` says that nothing else shown
later changes it. That the box drops characters is a recursive function
over the text; what it returns is proved from the least position for which the claim would
fail (`WithoutReturns`).

*Members* (`MemberSound`). `Fits` is needed besides the properties: a list that is shown can be
written. The length of a list is a recursive sum; that a shorter list, or one with a smaller
element, needs no more room is `LengthOfRemoved` and `LengthGrows`. `AddSound` shows where
`full` is needed: nothing asks whether there is room for another element.

`DataPartsAssumption` says that bounds are numbers. `ValuesAssumption` says that listed and
special values can be written, that the type has room for the greatest offset, and that the
value one above an enum's list can be written. The code takes that one for the first item of
the list when it can be, and another one otherwise (`EnumValueFieldWidget.cpp:167-200`); an enum
that lists the greatest value its bytes can have is not in the model.

### The main window

The plug-ins dialog has a module of its own, `PluginDialog_proofs`, which begins with the
lemmas about lists that `UserInterface_proofs` extends it for; the latter has the other four
parts and the theorems about all five.

*Plug-ins dialog* (`PluginsRuns`). `Well` is what an open dialog is after every slot: the
selected lists of each type have plug-ins of that type, none twice (`Picked`); a marked
available plug-in is on offer (`Marks`); there is a configuration widget for each selected plug-in
that has one and for no other (`Configs`); no plug-in of `Broken` is selected; and each button that is enabled has a row to act on
(`Rows`, `Applicable`), which is why the assertions behind it hold, unless a key has made
it `stale`: then there is a row, and a move may have no place to go. Inside a slot that is not so:
rows are deselected (`Unmarked`) and the marked plug-in may be gone (`MarkOfOne`) until
the tool bar is refreshed, and the lemmas follow the calls in their order. `Ones` adds that one
socket and one protocol at most are selected. `Kept` says of what was stored or applied that
it is sorted by type (`ByType`), as loading it again must show the same, and
`PluginsSound` ties the applied list to the loaded libraries and to what runs, and the end of
the program (`aborted`) to a file with a library that cannot be loaded. After a
configuration was loaded while an available plug-in was marked (`loadedOver`) the marked one can be
added to those of the configuration: there may be two sockets, and `PluginsAgree` excludes that case.

*Filter dialog* (`FilterRuns`). `Parted`: visible and hidden types are disjoint lists, each in
order without repetition, and together they are the types of the protocol and those that were hidden
before. `Picks`: what is selected is displayed, and in one list only. That
`std::lower_bound()` finds the place of a type is an induction on the places left
(`Stage`): the places on the left of the range are of types that go before, those on its
right are not. It needs that the list is in order, which is inductive because what is
moved is inserted at the place the bisection ends at.

*Lists.* Elements of a list at some positions (`AtPositions`) are selected by counting the positions
before each. `Picking` and the lemmas on it say what the library's filter says and cannot be
proved to: nothing else is selected, nothing twice, and in the same order (`Rising`).

*Send area* (`SendRuns`). `Listed`: the rows are different messages of the loaded
protocol, and list, manager and tool bar count them. `Chosen`: either a row of the send list
is selected, and tool bar, list and manager mean that row and its message, or a
message of the receive list is, or nothing. Different messages are needed because a
click is compared with the selected message, and so deselects one that equals it. Each slot is a chain of calls of
which each changes a few fields; the lemmas say of a call what it does and what it leaves alone
(`AreaLike`), and the slots follow. The state between the calls of a move, where row and
index differ, does not satisfy `Chosen`; the lemma on a moved item (`ItemMoves`) follows it
through the clicks it causes. *Message dialog* (`EditorRuns`). `Dialog` gives for each spin box its minimum and
value from the check boxes and the number remembered (`m_prevDelay` and the others), and
says that the pane has the type selected in the list. That raising a minimum may raise the
value, and thereby call the slot, is part of the lemmas. *Display* (`DisplayRuns`). `Stored` says that messages are sound and that what derives from the fields agrees with them, but
for those edited in a stray display (`forgotten`). `Drawn` says that tree and pane are
those of a message as it is, or a display that makes the pane anew is posted for it; `Edited`
that what may be edited was not sent yet, and, unless the display is `stray`, is the message of the
owner and the selected one; `Posted` that displays are posted for messages that were not sent yet.
Nothing is assumed of how many displays are posted and of what comes before them.

`RefreshAssumption` says that refreshing a message that was refreshed changes nothing: its
fields are computed from the others. `EditorAssumption` asks for a message type to
choose from. `FilterAssumption`: the types of a protocol are finitely many numbers.
`PluginsAssumption`: a plug-in has one type. `ListsAssumption`: the configuration files
that are there at the start are such as the dialog writes, with one socket and one protocol
at most; their libraries may be missing now. Nothing is assumed of the number of rows, types, plug-ins and changes.

### Model-checked only

* The liveness properties (`NoStarvation`, `FiniteSendingEnds`, `EverythingComesBack`):
  fairness and ENABLED are beyond the prover.
* `ClearedIsGone` and the other four properties the code violates.

## 5. What is not modelled

* What messages and fields look like in bytes: the definitions of the raw data and demo
  protocols are data and mostly generated; `FrameRead` reads a small frame of its own.
* Comments of messages, icons, layout, wording, logging.
* The dialogs of file names and of raw hexadecimal data, and the boxes that show
  an error, but as event loops inside a handler. Clicks during a box: it is modal.
* Certificates and keys of the SSL client are names: reading and checking them is the library's.
* Property accessors and the tables of the message factory, but where frame and
  files use them.
* The library and operating system under the sockets: their signals may come in any
  order the documentation of the library allows.
* Time: timers fire when they were asked to, and handlers take no time.

Hazards of the code that no property covers; in each the source is clear, and the models do as
it does where they reach it:

* The toggle *"Show Message Errors and Garbage Data"* (`RecvAreaToolBar.cpp:131`) has no
  effect: garbage is told by an empty `idAsString()` (`GuiAppMgr.cpp:899`), and the id string of a
  `ToolsInvalidMessage` is "0" (`ToolsInvalidMessage.h:85`, `ToolsMessage.cpp:131`). `RecvArea` lists
  garbage in every mode.
* TCP server and proxy go on reading from the connections they have accepted after a
  disconnection (`TcpServerSocket.cpp:113`).
* A delay of more than 2^31-1 ms turns negative in `static_cast<int>` (`ToolsMsgSendMgrImpl.cpp:148`) and
  starts no timer: the cast is in the model, and `WakeupIsKept` assumes that delays fit.
* `applyNewPlugins()` clears the send list and not the paced sender, which goes on sending
  messages of the unloaded protocol (`GuiAppMgr.cpp:577`). Nothing in the repository says what
  should happen.
* The private key of the SSL client is read from the variable of its certificate
  (`SslClientSocketPlugin.cpp:161`): a comparison of two lines, and an exception of `RestoresSaved`.
* The throttled pane may show a message that was deleted meanwhile (`GuiAppMgr.cpp:792`); the
  TCP proxy keeps a client whose remote end refused (`TcpProxySocket.cpp:256`); a
  list whose length prefix is at its limit takes one more element and fails
  an assertion (`ArrayListFieldWidget.cpp:166`; in the model such a list is `full`
  and excluded from `NoAssertionFails`); an accept error of the TCP proxy is wired to a
  slot that asserts another sender (`TcpProxySocket.cpp:92`).
* A display that overtakes the selection (`stray`) may end in a call on a message that is not selected;
  the assertion of `sendUpdateMessage()` that one is selected (`GuiAppMgr.cpp:489`) is a guard of
  `EditField`.

`PROJECT.json` lists every component with its status, and the hazards of the code
with the properties that cover them.

## 6. Plan

1. Paced sender, schedule, proofs: done.
2. Message manager and receive area: done.
3. Base class of the sockets, all sockets, chain of filters, their composition and its
   proofs: done.
4. Send area, plug-ins, dialogs, display of a message: done.
5. Settings, frame, files, field widgets: done.
6. Proofs of the receive area on top of those of the message manager, of the streams of the
   TCP sockets, of send area, message dialog and display, of the settings, of the widgets
   of fields: done.
7. Proofs of the plug-ins dialog and the filter dialog, of the frame and of the files of
   messages: done.
8. Left: a composition of `SendArea` with `MsgSendMgr`, so that what the paced sender does while
   the send list changes can be stated; members of an enum that lists the greatest value its
   bytes can have.
