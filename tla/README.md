# TLA+ specifications of device_board_bearpi

This directory specifies and verifies the programs that
`openharmony/device_board_bearpi` puts on two boards:

* **BearPi-HM_Nano** (`bearpi_hm_nano`, LiteOS-M): about thirty small programs
  in C, of which `app/BUILD.gn` links one. Those that talk to the cloud share one
  structure: a few tasks, a message queue, callbacks of the Wi-Fi and MQTT
  libraries.
* **BearPi-HM_Micro** (`bearpi_hm_micro`, LiteOS-A): a launcher, a settings
  application and a screensaver in C++, a display HAL, communication samples.

Modules are plain TLA+; TLC checks small instances, TLAPS proves theorems for
all values of the constants. `PROJECT.json` lists components, runs, mutants,
theorems, hazards, findings, and for every definition the lines it translates.

## 1. The system

### Components, their state and their operations

| component | state | operations | hard parts | what makes it correct |
|---|---|---|---|---|
| Agriculture, smoke, light and GPS applications (D11, D7, D8, D12) `iot_cloud_oc_sample.c` | message queue of heap blocks, `g_app_cb` (connected, actuators), JSON tree of a command | `msg_rcv_callback` (MQTT thread), `SensorTaskEntry`, `CloudMainTaskEntry` with `deal_cmd_msg`, `deal_report_msg` | three threads, full queue, timeouts, library lock, malloc failures, undefined `strcmp(NULL)`, readings without a fix | blocks owned once; commands answered once, in order; reported status agrees with the answers; the callback returns |
| GPS driver `E53_ST1.c` | 100-byte window on the receiver's sentences, `gpsmsg` | `E53ST1ReadData` | sentences cut by the window | fields of one sentence |
| Manhole cover (D9) | base X, Y, Z, `g_coverStatus`, queue | `SensorTaskEntry`, `CloudMainTaskEntry` | status read when sent, not when queued; a base of zeros | a report says what the newest reading says; readings in order |
| Infrared (D10) | event flag, `g_infraredStatus`, buzzer | `BeepAlarm` (interrupt), `CloudMainTaskEntry` | interrupts during an alarm share one flag; lost reports | every intrusion sounds; each alarm has a cause; the platform agrees with the buzzer |
| Cloud example (D6) | queue of pointers into the MQTT client's read buffer, registration | `MsgRcvCallback`, sensor task, cloud task | one read buffer, no waiting in Put | the command obeyed is the one queued; nothing left behind |
| OC MQTT layers of D6 `oc_mqtt.c`, `oc_mqtt_profile_package.c` | JSON trees, topic and text | one call per kind of message | any allocation may fail in nested functions | everything given back, once; the caller is told |
| Joining a hotspot `wifi_connect.c` (ten identical copies), D2 | `g_staScanSuccess`, `g_ssid_count`, `g_ConnectSuccess`, `g_lwip_netif` | `WifiConnect`, `WaitScanResult`, `WaitConnectResult`, two handlers on the Wi-Fi service's thread | polling with timeouts against late events, no lock | entries used were read; success means a link; loops end |
| Network examples (D1, D3-D5) | sockets, one peer address | one loop each | addresses that are overwritten, peers that stay silent | answers go to the peer they answer |
| Kernel examples (A1-A6) | one kernel object | two or three threads | A4, A5: threads started before the object exists | exclusion, nothing lost to a receiver |
| Sensor examples (C1-C5), E53 drivers | registers, the caller's variables | init, read | a transfer or checksum that fails half-way | actuators follow the newest values |
| NFC example (B5) `NT3H.c` | page buffer, the tag's pages | `storeText`, `storeUrihttp` | page borders, a transfer that fails | the tag holds the records |
| B1-B4, B6, Z1-Z2 | a pin, a peripheral, a file | sequential | - | not modelled |
| Wi-Fi page (Micro settings) `wpa_work.c`, `setting_wifi_ability_slice.cpp` | list of SSIDs, `g_scanAvailable`, `g_monitorConn`, two mutexes, threads, `g_wifiStatus`, `runStatus` | `OnStart`, `OnStop`, `Callback`, taps; `WpaScanThread`, `MonitorTask`, `WpaClientStart`, `ExitWpa`, `ExitWpaScan` | four threads, cancellation, mutexes that are destroyed | list never read half written; no mutex left locked; what is tapped is what is shown |
| Password page, other settings pages, screensaver | stack of pages, `g_inputPassword`, switches | `OnStart`, `OnActive`, keys, switches, `Terminate` | globals that outlive a visit; being covered half-way | joins what is shown; switches show the system |
| Launcher | pages of icons, `row_col_`, the long-press view | fill, callback of the bundle manager, swipe, press, remove | two threads without a lock; names that begin alike | one icon per app and cell |
| Launcher's clock | the date on show | weekday of a date | January and February, leap years | the calendar's weekday |
| Display HAL: graphic memory `display_layer.c` | shared-memory segments and their keys, a manager and a mutex per process | `AllocMem`, `FreeMem`, `Mmap`, `Unmap` | search for a free key, error paths around the mutex, several processes | a handle names its segment; no segment shared or left behind |
| Display HAL: layers `display_gralloc.c` | layer, frame buffer, function table | initialise, create, close, flush, get buffer | closing and opening again, each failure | what is open and mapped is what the layer says |
| Samples, start-up, build files, vendored libraries | - | - | - | not modelled |

### How they interact

On the Nano board an application calls `WifiConnect` once, then connects to the
platform through the OC MQTT library, which runs its own thread and calls the
application back. Tasks share a message queue and plain globals. The Wi-Fi
service calls handlers on its own thread and shares plain globals with the task
that polls them. `HotspotJoin` states what the applications rely on, and `WifiUp`
of the application modules is that promise's success. On the Micro board the
settings page starts wpa_supplicant in a thread of the same process, talks to it
over control connections, and is told of scans through a monitor thread; page,
scan thread and monitor share one list, one flag and one connection. The Wi-Fi
page passes an SSID to the password page, the screensaver covers any of them.
The window manager and its clients hand graphic buffers to each other: one
process allocates a segment of shared memory and sends the handle, the other maps
the segment of the key it finds in the handle. Each process links its own copy of
the display HAL.

## 2. Modules

| module | models |
|---|---|
| `CommandService` | abstract: what a cloud application promises the platform about commands |
| `CloudApp` | D11, D7, D8, D12; refinement of `CommandService` |
| `MCCloudApp` | commands for TLC, symmetry of the heap blocks |
| `CloudAppProofs` | theorems about `CloudApp`, and its refinement of `CommandService` |
| `AlarmApp`, `AlarmAppProofs` | D10, and theorems about it |
| `HotspotJoin` | abstract: what `WifiConnect` promises its caller |
| `WifiSta`, `MCWifiSta` | `wifi_connect.c` and D2; refinement of `HotspotJoin`; scans for TLC |
| `WifiStaProofs` | theorems about `WifiSta`, and its refinement of `HotspotJoin` |
| `CoverApp` | D9 |
| `OcSample`, `OcProfile` | D6: its tasks; a call of its OC layer |
| `GpsPosition` | the driver of D12 |
| `SensorBoards`, `KernelExamples`, `NetExamples`, `NfcTag` | C1-C5; A1-A6; D1, D3-D5; B5 |
| `MCNanoBoard` | the board with one of the seven modules above or `CoverApp`, as `BUILD.gn` chooses |
| `NanoProofs`, `OcProofs` | theorems about the modules of the Nano board; about `OcProfile`, and `MCNanoBoard` |
| `WpaSetting`, `MCWpaSetting`, `WpaSettingProofs` | the Wi-Fi page; scan results for TLC; theorems |
| `Gralloc`, `DisplayLayer` | the display HAL |
| `Launcher`, `TimeWeather`, `SettingPages` | launcher, its clock, settings pages with password page and screensaver |
| `MCMicroBoard` | the five modules above, one followed in each behaviour |
| `GrallocProofs`, `MicroProofs` | theorems about `Gralloc`; about the four others, and `MCMicroBoard` |

`MCNanoBoard` and `MCMicroBoard` put programs side by side that share no state. A
behaviour follows one of them and leaves the others as they began, so the number
of states is the sum of theirs and not the product, and one run asks each of
them its questions.

Operators that stand directly before a definition and have its parameters
(`PutSucceedsInFront` before `PutSucceeds`, ...) are *mutants*: plausible bugs
put in place of the definition to see that a property notices them. They are not
used by any specification.

### CloudApp

State against code: `app` is the application the board was built with;
`heap[b]` is the `app_msg_t` in heap block `b` (`NULL`: free), `queue` and
`handle` are `g_app_cb.app_msg`, `connected` and `on` the other fields of
`g_app_cb`; `cloudPc`/`cloudMsg`, `sensorPc`/`sensorMsg`, `enginePc`/`engineMsg`
are the program counter and the `app_msg` of the three threads; `tree` is
`obj_root`. `session`, `answers` and `reports` are the platform's view: whether
commands can arrive, and what was sent to it. `leaked`, `lost`, `delivered` and
`samples` count trees, blocks, commands and readings.

| action | code |
|---|---|
| `Receive`, `CallbackPut` | `msg_rcv_callback` up to, and from, its Put |
| `SensorInit`, `SensorRead`, `SensorPut`, `SensorSleep` | `SensorTaskEntry` |
| `WifiUp`, `CreateQueue`, `Connect`, `Get`, `Release` | `CloudMainTaskEntry` |
| `ParseCommand`, `RejectCommand`, `ExecuteCommand`, `RespondToCommand`, `Fault` | `deal_cmd_msg`, `deal_light_cmd`, `deal_motor_cmd`, `oc_cmdresp` |
| `Report` | `deal_report_msg` |
| `Subscribe`, `CanPublish`, `Store`, `Free` | external: MQTT library, heap |

The threads interleave at calls of the kernel and of the library; in between
they touch only their own block, except for the actuators, which only the cloud
task uses. A command is reduced to what `deal_cmd_msg` tells apart: the name it
has (or that it has none, or is no JSON) and the value found for the actuator. A
comparison with a null string is undefined: the model lets it stop the board or
find a difference. `malloc` and `cJSON_Parse` may fail at any time. `EngineLock`
says whether the library holds its lock while it runs the callback. The four
applications differ in their actuators, in whether the tree is deleted after a
command that was obeyed (D11 only), and in the reading without both coordinates
that D12 neither queues nor frees (`lost`).

### WifiSta

`file` says which of the two programs runs, `pc` is the place in `WifiConnect`,
the four globals keep their names, `info` is what `GetScanInfoList` wrote,
`timer` the countdown of the two wait functions, one step a second. The Wi-Fi
service is the environment: every `Scan` is reported in the end (`pending`), with
any list; the link goes up and down after a `ConnectTo`; the interface may be
found or not, and has an address (`lease`) that comes and goes (`LeaseChanged`).
`StartDhcp` asks for one; `DhcpBound` is the poll, every 100 ticks, that sees it
later, when the link may be gone again. `punctual`, chosen once, says whether
scans are reported before `WaitScanResult` gives up: the code silently relies on
it, and the property that needs it says so. `tried` records the entries the loop
examined. `KeepsPromise` maps all of it to `HotspotJoin`, whose caller is
"searching", then "joined" once the interface is known, and "online" with an
address; the loop that waits for an address of an interface that was not found is
"stuck", like the idling after the last hotspot: `WifiConnect` never returns.

### WpaSetting

`ui` is the place of the ability's thread; every page has a scan thread `Scan(p)`
and may get a monitor `Monitor(p)` of its own, at `scanPc[p]` and `monitorPc[p]`,
which take `g_monitorConn` into a local variable (`conn`) and go on with it.
`owner` and `destroyed` are the mutexes, `cancelled` the pending
`pthread_cancel`s, which take effect at the next call that is a cancellation
point. What a destroyed mutex does is undefined: `survives`, chosen once, says
whether it locks as before or refuses, which the code does not look at. `shown[p]`
are the rows of page `p`, to which `AddWifi` appends, `tapped` the last tap.
Creating a thread, connecting, attaching and `wpa_ctrl_recv` may fail. Pages are
opened and left at any time, as in the code; `hasty` records that one was left
before the scan threads had ended, or opened before the threads cancelled earlier
were gone. The code has nothing that prevents it, and what goes wrong then is left
to the hazards: the properties say what they claim without it.

### AlarmApp

`pc` is the place in `CloudMainTaskEntry`; `flag` is the bit `FLAGS_MSK1` of the
event flags object, `beep` the buzzer, `heard` what the platform was last told.
`Wake` is `osEventFlagsWait` returning, which clears the bit; `BeginAlarm` and
`EndAlarm` are the two halves of the loop, before and after the five seconds;
`BeepAlarm` is the interrupt, possible between any two of them. `intrusions` and
`covered` count the interrupts, and those taken before the task last woke. A
report may be lost (`lost`): the code ignores the library's result.

### CoverApp

`base` is X, Y, Z of `SensorTaskEntry`, `readings` all accelerations read so
far, and a message in the queue is the number of its reading. `SensorRead` is
one round of the loop up to the Put, with the comparison against the base
(`Classify`, `Far`); `DealReport` is `deal_report_msg`, which sends
`g_coverStatus` as it is then. `reports` records with each report how many
readings had been taken. The blocks of the heap are owned as in `CloudApp` and
are not modelled again.

### OcSample and OcProfile

`OcSample` has D6's own tasks. A message in the queue is a block whose number
names the command it was made for; what the cloud task parses is `readbuf`, the
last command that arrived, because the block holds a pointer to the client's
buffer. `obeyed` records both. Put and Get do not wait, and the queue exists
before the tasks. `Push` is the client's thread: it copies the text into its
buffer and calls the callback.

`OcProfile` is one call of `oc_mqtt.c` at a time. Before anything is made, a call
checks what it needs: the device, the optional texts, and a first service with
properties where services are asked for (`HasProperties`). A function of
`oc_mqtt_profile_package.c` that builds a tree is a frame with the node it will
return and what it still has to attach; one step makes one node, or fails to, and
`GiveUp` is the function's error path. `nodes` is the row of all cJSON nodes ever
made, each with the number of the node it was attached to (0: a root, or not
attached yet), and `deleted` are the nodes that were freed. So deleting a tree
deletes what is attached to it, however deep, and touching a deleted node is seen
(`misused`).

### GpsPosition

A window is read over what the buffer held, and its six fields are those of the
sentence that lies in it, as far as it lies in it; `full` says whether the
receiver always delivers a hundred bytes. A field is the number of its sentence,
`Mixed` if the end of one sentence met the rest of an older one.
`NMEA_BDS_GPRMC_Analysis` takes the fields the code looks up, each by its comma.

### SensorBoards

A driver's call is a row of transfers (`transfers`); each is done or fails, and
what fails ends the call where the code returns early, or leaves a local
variable as it was where the code does not look. A value is the round it was
measured in. `task` is the place in the example's loop, `basis` the values its
actuators were last switched by, `bell` C5's interrupt and event flag. C4's driver
initialises the MPU6050 again after it read its number.

### KernelExamples

`toCreate` is what the example's entry has still to create, in the code's order,
and each creation may fail; `place` and `delay` are the threads (or timers),
`content` the kernel object's count, owner or length; A5's count stops at
`SEM_MAX_COUNT`. A tick passes when no thread has anything left to do.

### NetExamples

`inbox` are datagrams (or connections) that wait, `peer` is the address variable
of the program, `held` its buffer; `arrived`, `handled` and `sent` are what the
network saw. Receiving, sending, accepting and connecting may fail wherever the
code looks at the result or not.

### NfcTag

The tag is an array of bytes, a byte being what it stands for (the start byte,
the length, byte `i` of record `r`, the end byte). `Place` computes page and used
bytes from the length that was read back, `firstRecord` and `HeadFits`,
`HeadDivided`, `HeadBehindBuffer` put the head, `WriteFirstPage` and
`WriteNextPage` are `writeUserPayload`, with `addedPayload` in its one byte. Any
transfer may fail (`MaxFaults`), and the tag keeps what an earlier run left on it:
`OldLengths` are the lengths of all records that it may claim at the start. The
rows of records (`Records`) are those that fit in the one byte that holds their
length. The example's two records do; the code does not check it.

### Gralloc

A thread runs through `AllocMem`, `FreeMem`, `Mmap` or `Unmap`, one step per
system call: `Lock` takes the manager's mutex of its process, `AllocShm`
(`NewSegment`, `KeyTaken`, `NoMemory`, `AttachFails`, `Fill`, `ClearFails`),
`FreeShm`, `MmapShm`, `MmapAttach`, `UnmapShm` are the functions called under
it, `Leave` unlocks and returns. `made[i]` is the key of segment i, `removed` the
segments given to `IPC_RMID`; identifiers of segments are not used again.
`buffer[b]` is a handle, with the segment that was made for it in `own`; `maps`
is what a process attached for one. `MmapAttach` writes the segment it found into
the handle (`display_layer.c:277`), which after a key was used again may be
another buffer's. `proper`, chosen once, says whether clients ask only for formats
and sizes the HAL supports: `AllocMem` checks them before it locks and on failure
goes to the clean-up, which unlocks; for an unsupported size it returns success
and a handle with nothing in it. A client frees a buffer only through the process
that allocated it.

### DisplayLayer

Every call holds the manager's mutex from beginning to end and is one step.
`table` is the function table with its count, `layer` the one `LayerPrivate`,
`kept` the files, mappings and blocks that exist with their sizes, `painter` the
client. Opening, mapping and allocating fail in disjuncts of their own;
`MapFails` sets the painter to "unmapped", because the code compares with `NULL`.

### Launcher, TimeWeather, SettingPages

`Launcher`: `adders` are the two threads inside `AddApp`, which look at one page
after the other, choose a cell, show the icon there (`SetUpApp`), enter it in the
list (`PushBack`) and mark the cell (`MarkCell`) in separate steps; `RemoveApp`
clears the mark and `UnlistApp` takes the icon from the list. `BeginWith` gives
the names that begin with a name, since the code compares as many bytes as the
sought name has. `press` is the long-press view, `hangs` the page it hangs in.
`mixed` records that an installation was handled before the pages were filled, or
that an icon was removed before its cell was marked; without a lock, the code
may then leave two icons of an app or in a cell, or an empty cell that is marked.

`TimeWeather`: `GetWeekdayByYearday` over dates, against the calendar counted day
by day.

`SettingPages`: `stack` are the pages upon each other. A page that comes to the
top has its `OnActive` called, whether a page above it ended or the screensaver
went. `entry` are the globals of the password page and its label, `toggle` what
the switches show, beside `saver` and `granted`, what they switch. Only the
permissions that `QueryPermission` told of have a switch (`listed`).

## 3. Runs

| run | question | bounds | distinct states |
|---|---|---|---|
| `cloud_safety` | blocks, order, status and the service in every interleaving, commands of every form; agriculture, light and GPS | 4 blocks, queue of 2, 2 commands, 2 readings | 580,000 |
| `cloud_live` | answers and the callback's return with the library's lock, JSON trees; all four applications | 3 blocks, queue of 1, 2 commands, 1 reading | 80,000 |
| `wifi_join` | joining a hotspot, both programs; the promise of `HotspotJoin` | timeout of 3 seconds, 3 scans, 7 lists of up to 3 hotspots | 19,000 |
| `wifi_last` | **violated**: success seen in the last second | as `wifi_join` | |
| `wpa_pages` | the first page however it is left; two pages as long as no thread is overtaken | 2 pages, 2 events, 2 lists | 112,000 |
| `wpa_tap` | **violated**: the row tapped is the network joined | 1 page, 2 events | |
| `wpa_again` | **violated**: the second page has a wpa_supplicant | 2 pages | |
| `alarm` | intrusions before, during and after an alarm, lost reports | 4 intrusions | 400 |
| `nano_board` | the eight modules of `MCNanoBoard` | D9: queue of 2, 3 readings, 5 positions; D6: 3 blocks, queue of 1, 2 commands, 1 reading, 9 calls; 3 windows; 3 rounds; 20 ticks; 3 datagrams; rows of up to 3 records, 34 pages, tags that claim nothing, 13 or 250 bytes, 1 fault | 210,000 |
| `oc_buffer` | **violated**: the command obeyed is the one queued | as `nano_board` | |
| `gps_latitude` | **violated**: the latitude is taken | as `nano_board` | |
| `micro_board` | the five modules of `MCMicroBoard` | 2 threads in one process, 1 in the other, 2 buffers, 3 keys, 5 calls (3 of clients with unsupported requests); 7 calls of the layer; 3 bundles, 3 pages of 1 cell, 2 installations, 3 touches; 59 dates; 1 network, 1 digit, passwords of 2, 1 permission, 4 pages upon each other | 232,000 |

What they show, property by property:

* `HeapOwnership`: each message in the heap belongs to one thread or stands once
  in the queue, across Puts that fail or time out, except the readings D12
  forgets; those belong to nobody.
* `ReportsTrue`: no reading overtakes another or is reported twice, and the
  actuators in a report are what the answers sent before it say.
* `FreedWhenAnsweredOrFull`: the block of a command that was copied is freed by the
  callback only while the queue is full or could not be created, and by the cloud
  task only after the command was answered, or if it names none of the
  application's actuators. (The callback also drops a command for which `malloc` fails; it
  never has a block, and the property does not speak of it.)
* `ImplementsService`: every behaviour is one of `CommandService`, so no command
  is answered twice or out of order, though `deal_cmd_msg` goes on after it
  rejected a command; none is answered with the success code unless its actuator
  is then as it asks; and each that names an actuator is answered before the next
  is taken. Actions map to its steps: `Receive` to `Deliver`, a failing
  `CallbackPut` to `Refuse`, `Get` of a command to `Take`, `ExecuteCommand` to
  `Switch`, the responses to `Answer`, `Release` to `Finish`, the rest to nothing.
* `TreesReleased`: within the product profile D11 deletes every parsed tree once,
  and the other three lose exactly the trees of the commands they obeyed. Outside
  the profile the model reaches a second deletion; see the hazards.
* `CommandsAnswered`: callback and cloud task wait for each other (room against
  lock), and the Put's timeout resolves it; a queued command is answered.
* `ExaminesWholeList`: with a punctual service the loop over the hotspots uses
  entries that were read, and gives up only after all of them.
* `KeepsPromise`: late reports or not, `WifiConnect` returns success only with a
  hotspot joined, its interface found, and an address it has and got while there
  was a link. The link itself may be lost by then: the poll comes after the lease.
* `SuccessMeansLink`: with one hotspot of the name and the handler of
  `wifi_connect.c`, a join reports success only while the link is up.
* `LoopsEnd`: the scan loop ends once a scan finds something, and a round over
  the list always, late reports included.
* `ListNotTorn`: as long as no second page is opened, the UI thread does not read
  the list of SSIDs while the monitor rewrites it, however the page is left.
* `NoOrphanedLock`: as long as no page was left or opened before the threads of
  earlier ones were through (`hasty`), no thread that is cancelled dies with a
  mutex, wherever in the handling of an event it is.
* `MonitorServesThePages`: under the same condition, one monitor at most reads the
  connection, and it is closed once no page is open.
* `UiReturns`: for the first page, or under that condition, `OnStart`, `Callback` and
  `OnStop` return, though monitor and UI thread take each other's mutexes.
* `NothingForgotten`, `EachAlarmHasCause`, `IntrusionSounds`: the one flag is
  enough; an intrusion during an alarm causes one more, and no alarm comes from
  nothing, provided the event flags object could be made.
* `PlatformAgrees`: what the platform was told agrees with the buzzer unless
  that report was lost; nothing corrects a lost one.
* `StatusIsNewest`: a report carries the status of the newest reading, whatever
  reading it carries, where the reference is the first reading that was not
  zero on all axes; and readings are reported in their order.
* `FailedCallCleansUp`: wherever an allocation fails, a call of D6's OC layer
  leaks nothing. If it fails anywhere but in `make_kvs` or `make_service`, the caller
  is told that there is no memory and no deleted node is touched; a failure in those
  two is hidden from their callers, and nothing but the absence of leaks is claimed.
* `RoundCleansUp`: D6 forgets no block but those of commands that found no room,
  and leaves no tree behind.
* `HemisphereOfItsLongitude`: as long as windows are full, a longitude never
  stands beside the hemisphere of another sentence, although each field is kept
  from an older window when the new one is cut before it.
* `SwitchedByNewest`: actuators follow values of this round, or for the SHT30 the
  newest with a good checksum; the accelerometer's three are of one round.
* `ObjectsServe`: of the threads that found A4's mutex made, none enters the section
  while another is in it (those that came before run unlocked, and are excluded),
  a thread that ran before the mutex was made does not take it from its owner,
  flags and messages are lost only before the receiver exists, and threads that
  came before the semaphore stay apart by two turns at most.
* `AnswersItsPeer`: the echo server answers each datagram once, to its sender; the
  UDP client goes over to whoever wrote last; the TCP server serves its first
  client only; the MQTT client publishes nothing after its first failure.
* `RecordsReadable`: for texts of 240 bytes at most (`TextsCounted`), the tag holds
  all records byte by byte if no transfer failed, however they divide over pages
  and whatever was there before; a record goes astray exactly when the one before
  it ends with the last byte of a page; and a failure is reported only for a
  transfer that failed. `addedPayload` counts in steps of a page behind the first
  one and wraps for longer texts: a text of 248 bytes is damaged.
* `HandlesNameTheirSegments`: as long as every request is supported, a handle's key
  is that of the segment it names, and while the segment made for a buffer is
  there, whoever maps the buffer has mapped that one, although keys are used again.
  Without `proper` TLC finds a handle with the key of another segment.
* `EachSegmentHasOneOwner`: as long as every request is supported, no failure leaves
  a segment that nobody can free. Two buffers do come to name one segment: an Unmap
  removes the segment of the first, the second is made with its key, and a Mmap of
  the first finds it. The property says that no two share a segment otherwise.
* `AllocReturns`: the search for a key ends and the mutex is handed on.
* `LayerIsAccounted`: what is open, mapped and allocated is what the layer says,
  whichever call failed, and no Flush leaves its memory.
* `DesktopAgrees`: unless `mixed`, an app has one icon, a cell one app, and
  `row_col_` marks exactly the cells with an icon, but for the icon that is being
  entered or removed. Always, the long-press view hangs where the press was.
* `WeekdayOfGivenYear`: the weekday is the calendar's for the year it is given.
* `SwitchesShowTheSystem`: the display's switch, and those of the permissions that
  were listed, agree with what they switch, except after a call that failed.
* `JoinsWithShown`: a network is joined with the password that was on show and
  with every key pressed since the page last became active, whatever covered it
  in between.

Why the bounds are enough: two commands and two readings are the least that can
be swapped, and with a queue of two (one) both fit (the second does not); four
blocks are one more than the queue and a thread can hold, so that the heap runs
out in some behaviours and not in others. Three seconds of timeout have a first, a
middle and a last one; three scans leave one late while another is read. Two
pages are the least for what one leaves behind, two events the least for the
monitor to rewrite a list the page is about to read. `wpa_pages` does not follow
states in which a second page is open and a thread was overtaken (`Claimed`):
from then on nothing but the types is claimed, and a call of the UI thread that
had begun before has returned. Four intrusions allow two
during one alarm and one after it. Three readings are a base, one that waits and
one that changes the status under it. Two commands and a queue of one are the
least for a read buffer to be overwritten under a queued command. The nine calls
have every kind of message, with and without optional parts, and services of up to two
properties, so that each function of the package fails with something attached
and with nothing. Three windows leave two older sentences in the buffer. Twenty
ticks of half a second are more than the longest period of an example. The rows
of records put the end of a text on, before and behind a page's border, and divide
heads at each of their bytes; an earlier run's 250 bytes put the next record where
the row's own end is not, and 34 pages hold any record that can follow. With three
keys the key wraps while both buffers are alive, and five calls let a buffer be
allocated, mapped and unmapped, which removes its segment, another process use the
key again, and a late Mmap find the other's segment. Clients with unsupported
requests, of whom only types and `AllocReturns` are claimed, are followed for three
calls (`FewUnsupported`). Seven calls create, use and close a layer and create it
again. Three pages of one cell, and two names of which one begins with the other,
let an app move to another page; three touches open the long-press view, uninstall
with it and leave one more. The dates have years before, after and on
leap years and centuries. TLC stops where a bound is reached, hence
`CHECK_DEADLOCK FALSE` in the configurations (the board also really stops: a task
that ends, a fault, "No wifi as expected").

### Fairness

`CloudApp`: the kernel runs ready tasks in the end and a waiting Put ends by room
or by its timeout (weak fairness of the two Puts); the library's lock is handed to
a waiting task, so the cloud task is not passed over for ever (strong fairness,
since `CanPublish` comes and goes). Nothing is assumed of Wi-Fi, platform or
sensor. `WifiSta`: the task and its sleeps go on, every scan is reported. The
link need never come up. `WpaSetting`: each thread runs on while it is not
waiting; the periodic task calls `Callback`; the user need not do anything.
`AlarmApp`: the cloud task is run when it is ready (weak fairness). `Gralloc`: a
thread inside the HAL goes on (weak), and the mutex is handed to a waiting thread
in the end (strong fairness of `Lock`); clients need not call. The other modules
have no liveness property and assume no fairness.

### Where the code does not do what it says

* `wifi_last`: `WaitConnectResult` logs success and returns the timeout when the
  flag is seen in the last second (`wifi_connect.c:220-232`).
* `wpa_tap`: rows keep a pointer into a buffer that the next scan rewrites
  (`setting_wifi_ability_slice.cpp:192`).
* `wpa_again`: `runStatus` is never reset (`wpa_work.c:519`).
* `oc_buffer`: D6 queues a pointer into the MQTT client's one read buffer, so that
  the cloud task may obey a later command in place of the queued one, and obey it
  again (`D6_iot_cloud_oc/iot_cloud_oc_sample.c:131`); its README says the data is
  queued.
* `gps_latitude`: the latitude is looked for behind the second comma, where the
  status stands (`E53_ST1.c:197`); it stays 0, and D12 never queues a reading.

## 4. Proofs

Every invariant and every action property of the passing runs is proved with
TLAPS for every value of the constants, and so are both refinements. TLC checked
each inductive invariant on a small instance before it was proved. The modules
of proofs follow one layout: the parts of the inductive invariant, each a
definition with a name; lemmas about sequences, sets or trees; one lemma or step
for each action; and the theorems, which combine these with `PTL`.

The assumptions on the constants are named in the modules that declare them
(`CloudAssumption`, `WifiAssumption`, ...) and say what kind of value each one
is: bounds are numbers, queues have room for one message, "no value" is not a
value. Some say more, and these are the ones to look at:

* `GrallocAssumption`: there are more keys than buffers. The code has 10000 keys
  (`SHM_MAX_KEY`). A buffer of the model is one request, never asked for twice, so
  what is proved covers a behaviour with as many requests as there are keys.
* `KernelAssumption`: a second is an even number of ticks, as the examples' half
  seconds are not rounded.
* `LauncherAssumption`: a name begins with itself.
* `OcAssumption`: a call's lists hold what the functions' types allow.
* `NfcAssumption`: the records fit in the byte with their length, and the tag has at
  least 34 pages, on which any one record that follows an old one fits (it has 56).
* `DatesAssumption`: dates from 1970 to 2100.

### CloudAppProofs

`CloudTypeCorrect` and `CloudHeapOwnership` follow from `IInv`.
`HeapOwnership` alone is not inductive: that a failing Put frees the caller's
block, and only that, needs to know that a thread has a block exactly when its
program counter says so (`Places`), what kind of message it holds, and that a
queue with something in it was made (`QueueOK`). A block in `lost` is in the heap
and nowhere else, so that no allocation returns it.

`CloudFreesWhenAnsweredOrFull`, `CloudReportsTrue` and `CloudTreesReleased` need `SInv` as well. Its `OrderInv`
follows a number from the block in which a thread holds the message, through the
queue, to the report: what is about to be put is newer than all of its type
(`NewestLast`), the queue is in order (`InOrder`), what the cloud task holds is
older than all that waits (`OldestFirst`), and only older ones were answered or
reported. `StatusInv` says what `on` owes to the answers while the effect of a
command is there and its answer is not, `AnsweredInv` that a command is let go only
when it was answered or names no actuator, and `TreeInv` counts trees.
`CloudFreesWhenAnsweredOrFull` needs besides that the library cannot call back
before the queue was created, or failed to be.

`CloudImplementsService` proves `Spec => ImplementsService` from `IInv` and `SInv`: for each action one lemma shows that it maps to a step of
`CommandService` or changes nothing the service shows.

### AlarmAppProofs

`AlarmTypeCorrect`, `AlarmForgetsNothing`, `AlarmPlatformAgrees` and
`AlarmHasCause` follow from `AInv`, which adds two parts. `FlagIsNews` says that
the flag is set exactly when an intrusion came after the task last woke:
`NothingForgotten` speaks of the waiting task only, and cannot see an interrupt
that comes while the alarm sounds. `AlarmIsOn` ties buzzer and status to the place
in the loop, which `PlatformAgrees` needs at the report before the loop.

### WifiStaProofs

`WifiTypeCorrect`, `WifiExaminesWholeList`, `WifiSuccessMeansLink` and the
refinement `WifiKeepsPromise`, for every timeout and lists of any length. `TInv`
holds for any service: a wait that polls has a second left, and the interface is
known only after a join. `PInv` holds if the service is punctual: outside the wait no scan is
pending, so that the list, its count and the flag are of one scan. `FlagOfThisJoin`
says that before the first join the flag is 0 and that with one hotspot of the
name it never outlives the link.

### WpaSettingProofs

`WpaTypeCorrect`, `WpaListNotTorn`, `WpaNoOrphanedLock` and `WpaMonitorServes`, for
any number of pages, events and networks, each under the condition its property
names: `WpaListNotTorn` speaks of the first page only, the last two of pages that
were not left or opened hastily. The invariant has a part that holds however pages
are left (`PageInv`; `HolderInv`: who can hold which mutex, and that one that does
not work is never held; `FirstPage`) and a part for `hasty = 0` (`ScanInv`, `ConnInv`,
`LockInv`), which orders the end of the threads, the closing of the connection and
the destruction of the mutexes. That
`CheckSsid` leaves no hidden name in a list of any length (`CheckSsidType`) is the
claim about a loop: the least index at which it went wrong would have one before
it.

### GrallocProofs

`GrallocTypeCorrect`, `GrallocHandlesNameSegments` and `GrallocSegmentsOwned`, for
any processes, threads, buffers and keys, the last two for supported requests.
`SegmentInv` says for which buffer each segment was made (`own`), including the
thread between `shmget` and the handle: no two buffers share that one. The keys need
the mutex (`MutexInv`): the key a thread made its segment with is still its process's
when the handle gets it (`KeyKept`), handles carry the key of the segment they name
and of their own (`Named`), and while the own one is there, what `shmget` finds by
the key, what is mapped and what the handle names is that segment (`FoundInv`). So
a handle that names another buffer's segment has lost its own. That no key ever passes the limit, not even by the increment after a
failing `memset_s`, which is not wrapped, is an argument by counting (`CountInv`): each key below a process's next one was made a segment
with, no more segments are made than buffers were asked for, and there are more
keys than buffers.

### OcProofs

`OcTypeCorrect` and `OcCleansUp`, for calls with lists of any length, whichever
allocation fails. A call is a stack of functions, each with the tree it builds.
The tree of a function is younger than those of its callers (`OcOrder`), what will
be attached to still exists (`OcAlive`), each node that exists is some function's
root or attached to a node that exists (`OcRooted`), trees are deleted as a whole
(`OcWhole`), and a failure is on its way to the caller (`OcTold`). After a failure
in `make_kvs` or `make_service`, which their callers cannot see, a deleted node may
be touched and a tree may be deleted in part only (`Hole`). A tree is the least set
with its root and all that is attached; that it has no node older than its root,
and all of its nodes as long as the root exists, is shown by its least node.

### NanoProofs

* `CoverTypeCorrect`, `CoverReportsNewest`: the base is the first reading that is
  not the origin (`BaseIsFirst`), the status is what the newest reading says
  against it, and reading numbers increase from the reports over the cloud task and
  the queue to the sensor task.
* `NetTypeCorrect`, `NetAnswers`: what each of the four programs holds of its peer
  at each place (`EchoInOrder`, `ClientWaits`, `OneClient`, `NumberedWhileOpen`).
* `GpsTypeCorrect`, `GpsPairs`: with full windows the buffer holds nothing but the
  newest sentence, up to where the window cut it (`OneSentence`), and the pair is
  kept between the two halves of a call (`PairKept`).
* `BoardTypeCorrect`, `BoardSwitches`: what a call still has to transfer decides
  which of its values are new (`CallsRead`); what stands in for a value whose
  checksum was wrong is the newest that passed, and the values of an accelerometer
  are handed over together (`StandsIn`).
* `SampleTypeCorrect`, `SampleCleansUp`: each block is in one place (`HeapInv`), and
  a tree exists only while its command is handled (`TreeInv`).
* `KernelTypeCorrect`, `KernelServes`: A4's mutex belongs to a thread in the section,
  and who is in there without it came before it was made (`SectionOwned`), of whom the
  theorem claims nothing; A5's
  invariant follows the threads through the first turn, when some may have missed
  the semaphore's creation, and then in step (`FirstRound`, `LaterRounds`, `InStep`).
* `NfcTypeCorrect`, `NfcReadable`: the tag is right up to a place that moves with
  the writing (`RightTo`: each byte before it is the byte of the record that covers
  it), first in the page buffer (`Seen`), then on the tag; `NfcReadable` is proved for
  texts of 240 bytes at most, and for any contents an earlier run left. For the
  types, with transfers that fail, longer texts and a length byte that may be old,
  a weaker fact is needed (`OnTag`): a length of one byte leads to one of the first
  18 pages, and the loop asks for the page it comes to. The totals
  of the records (`Totals`) are a function over the row; that they are numbers and
  increase is shown by descent (`NoDescent`).

### MicroProofs

* `SettingTypeCorrect`, `SettingSwitchesShow`, `SettingJoinsWithShown`: the password
  page is on top or not there at all (`PasswordOnTop`), its label and
  `g_inputPassword` are what was typed (`EntryInv`), and the switches of a page agree
  with the system from its opening on, except for those whose call failed
  (`SwitchInv`).
* `LayerTypeCorrect`, `LayerAccounts`: a layer in use has its file, mapping and
  block, a closed one has none (`InUse`, `ClosedLayer`), at every failing call, for
  every size of panel and page.
* `LauncherTypeCorrect`, `LauncherAgrees`: the UI thread adds while it fills the
  pages, the callback afterwards (`OneAdds`), and so what a thread inside `AddApp`
  has found out, step by step and without a lock, stays true until it uses it
  (`AddersInv`); what is still to fill is not on the pages (`TodoInv`); and an icon
  whose mark was cleared stays in the list until the same thread removes it
  (`RemovalInv`).
* `TimeTypeCorrect`, `WeekdayCorrect`: the calendar is counted year by year and
  month by month, and the formula's quotients count the leap years: the least year
  for which they did not would have one before it.

### The boards

`OcProofs` and `MicroProofs` end with the modules the runs check. `NanoBoardRunsEach`
proves that a behaviour of `MCNanoBoard` is one of each program's own specification
(`NanoSpec => CoverSpec /\ OcSampleSpec /\ ...`), and `MicroBoardRunsEach` the same of
the components of `MCMicroBoard`; the theorems about each carry over, and
`NanoTypeCorrect` and `MicroTypeCorrect` state the conjunctions of the type
invariants.

### Only model-checked

TLAPS does not prove what must happen in the end under fairness: `CommandsAnswered`,
`LoopsEnd`, `UiReturns`, `IntrusionSounds` and `AllocReturns` are checked by TLC only.
The five violated properties are disproved by TLC's counterexamples.

## 5. Plan

The modelling is done as far as section 6 says, and every safety property of the
runs has its theorem. What is left to do is to say more:

1. `OcSample` as a refinement of `CommandService`, with the deviation that
   `oc_buffer` shows stated exactly: which command can be obeyed in place of which.
2. An abstract specification of a shared buffer (allocate, map, free) that `Gralloc`
   implements for supported requests.
3. Action properties of the layer and the launcher: which calls may give a block
   or a cell back.

## 6. Not modelled

Vendored libraries are seen through external actions only. Memory layout (the
10-byte queue elements of D11), conversions of measured values, checksums,
drawing and layout are left out. B1-B4, B6, Z1 and Z2 are straight-line code, as
are the wrappers of the hardware interface, the wpa_supplicant samples and the
board's start-up: there is nothing in them that a sequence of two calls could
break. `SendCtrlCommand` is one step, so that the static connection it shares
between threads (`wpa_work.c:72`) is not covered. In `WifiSta` the service's errors after
`EnableWifi` (`Scan`, `GetScanInfoList`) are those of an empty list. In
`WpaSetting` events other than a scan change nothing, `g_Connect` is left out, and
`pthread_mutex_init` succeeds. In `Gralloc` the HAL is initialised already (its
initialisation has the form of the layer's), physical memory and the caches are
left out, and `LockGrallocMgr` succeeds. In `DisplayLayer` the client creates the
layer once at a time and asks for one block at a time. In `Launcher` the steps of the
two threads within `List` itself, which has no lock either, are left out. In `SensorBoards` a failing
transfer leaves what it was to read unchanged or -1. In `NfcTag` a page is written
whole or not at all. The application modules leave out LEDs and the text of
reports.
