# A TLA+ model of WebDriverAgent

WebDriverAgent is an HTTP server that runs inside an XCTest bundle on an iOS
device and answers WebDriver commands about the applications on it. This
directory holds TLA+ modules of its stateful parts, the TLC configurations that
check them on small instances, and proofs, checked by TLAPS, that hold for every
instance. All source paths below are relative to `src/WebDriverAgentLib/`.

## 1. The system

The process has one main thread. Every command handler, every timer and every
block of the main dispatch queue runs there; the queue is serial and not
re-entrant, so two handlers never interleave. What does interleave with them:

* the applications on the device, which are other processes: they crash, come to
  the front, show alerts and change their screen at any moment;
* the delegate queue of the TCP socket, and the serial background queue of the
  screenshots broadcaster;
* replies of XCTest daemons, which arrive on threads of their own;
* blocks and timers of the main thread itself, between two requests.

| component | state | operations | talks to |
|---|---|---|---|
| Sessions (`Routing/FBSession.m`, `Commands/FBSessionCommands.m`) | the active session, its applications, its default alert action | create, look up, describe, launch/activate/terminate an application, delete, shut down | every command, the monitor, the element cache |
| Alerts monitor (`Utilities/FBAlertsMonitor.m`) | whether it monitors, the watched application, a weak delegate, a chain of ticks | enable, disable, tick | its session, `FBAlert` |
| Routes and answers (`Routing/FBRoute.m`, `FBWebServer.m`, `FBResponsePayload.m`, `FBExceptionHandler.m`) | none of their own | find the session, run the handler, turn exceptions into answers | sessions: an answer names the active session and *creates* one if there is none |
| Screenshots broadcaster (`Routing/FBTCPSocket.m`, `Utilities/FBMjpegServer.m`) | two lists of clients, the screen size, two queues | accept, disconnect, capture, write, stop | XCTest's screenshot daemon, the web server |
| Element cache (`Routing/FBElementCache.m`, `FBElementUtils.m`) | an LRU list of ids | store, fetch | find commands, every command on an element |
| Find commands (`Commands/FBFindElementCommands.m`, `Categories/XCUIElement+FBFind.m`, `FBClassChain.m`, `Utilities/FBXPath.m`, `FBClassChainQueryParser.m`) | none | search by id, predicate, class chain, XPath | element cache |
| Applications (`FBApplication.m`) | registry pid -> application, a KVO observer per launched application, quiescence flag | launch, terminate, active application | sessions |
| Custom commands (`Commands/FBCustomCommands.m`) | screen-cast timer, web socket, last image | start and stop a cast, drag and mirror, find a switch of the Settings | the device |
| Spinner and lock (`Utilities/FBRunLoopSpinner.m`, `Categories/XCUIDevice+FBHelpers.m`) | a deadline, the last lock notification | spin until a condition, lock, unlock | nearly everything |
| Action synthesizers (`Utilities/FB{Base,Appium,W3C}ActionsSynthesizer.m`) | none (pure) | turn action lists into timed event paths | XCTest |
| Scrolling, visibility, typing, rotation (`Categories/`) | attribute and visibility caches per snapshot | loops over gestures | XCTest |
| Runner (`src/WebDriverAgentRunner/UITestingUITests.m`, `Utilities/FBFailureProofTestCase.m`) | failure flag | the never-ending test, deadlock detection | web server |
| Object detection, Inspector page, vendored frameworks | - | - | not part of the protocol |

`PROJECT.json` lists every component with its status, and under `hazards` what is
hard to test in this code, at the line where it bites, with the property that
watches it or the reason none does yet.

### What makes each component correct

* *Sessions*: identifiers are issued once, a dead one stays dead; each answer names
  a session that is active; a removed session stops acting.
* *Monitor*: its tick chain lasts as long as it is enabled, no longer; it closes the
  alerts of the application it watches.
* *Broadcaster*: both lists agree with the connections; a client gets its header,
  then frames, in order; nothing depends on what the other clients do.
* *Element cache*: an id a client has just been given can be used.
* *Applications*: no observer is removed that is not there; the process set last is the one
  that is wrapped; a launched process is found by its pid; a relaunch waits as its session
  was asked to.
* *Spinner and lock*: a request ends within its time and never answers YES for what was never
  true; what the server believes of the lock settles on the truth; only a wait that has no limit
  by design keeps the main thread.
* *Screen cast*: one timer and one socket; the peer has the image new ones are compared with;
  a change that stays on the screen is sent.
* *Synthesizers*: a finger's events follow each other in time; cancelling drops what
  the dialect says; a finger comes down where it was left and is lifted when the list
  has taken its time; what is wrong with a list is an error and not an exception.

## 2. Modules

| module | what it is |
|---|---|
| `SessionRegistry` | abstract: identifiers are issued, become current, stop being current |
| `FBSession` | sessions, alerts monitor, requests and the device; implements `SessionRegistry` |
| `FrameStream` | abstract: clients are admitted, introduced to one stream of frames, shown them in order |
| `FBMjpegServer` | the broadcaster's three threads; implements `FrameStream` |
| `RecentEntries` | abstract: a list of entries, most recent first, that forgets the last one |
| `FBElementCache` | the cache, find commands and the changing screen; implements `RecentEntries` |
| `FBApplication` | application objects, their processes, observers and proxies, the pid registry |
| `FBLockState` | the lock notification, `fb_isLocked`, lock and unlock with the spinner |
| `FBScreenCast` | extends `FBLockState`: screen casts and mirror requests on the same main thread |
| `FBOrientation` | points and offsets turned with the interface |
| `FBTouchActions` | a touch request, from its lists of items to the event record |
| `MC*` | instances and symmetry for TLC |
| `*Proofs` | theorems about the module they extend |

### FBSession

One variable per field that matters: `active` is `_activeSession`; `tested`, `apps`
and `alertAction` are a session's fields, indexed by session number; `hasMonitor`
is `alertsMonitor != nil`; `monitoring`, `monApp` and `tick` belong to the monitor the
session created, which outlives it. `state` and `alert` are the device's.

A request is one action when nothing can happen inside it, and is split where the
handler waits for XCTest: `POST /session` is `CreateSession` (launch), `InstallSession`
(the session replaces the active one) and `InformSession` (the answer asks for the
active application, and raises if it has crashed meanwhile). Every handler ends in
`Respond`, which models `FBResponseWithStatus` and so `[FBSession activeSession]`: when
there is no session it makes an empty one. An exception is an answer with another
status, as `FBExceptionHandler` and `handleException:` make it.

The monitor's chain is one value per monitor. `timer`: a `dispatch_after` runs.
`queued`: `scheduleNextTick` has dispatched its block in the current pass over the main
queue. `ready`: the block is in the queue and runs after what is before it. The
difference between the last two matters: a request can be served between the dispatch
and the block, and that request may delete the session. `RunLoopPass` ends a pass:
it drains the autorelease pool, so that sessions nothing refers to (`zombies`) are freed
and the monitor's weak delegate becomes nil, and it makes queued blocks ready.

`TestedApplication(s)` is nil for every session: that is the code
(`FBSession.m:31` is assigned nowhere), and it makes `Superseded` always empty.

### FBMjpegServer

`callbacks` is the socket's serial delegate queue, `blocks` the background queue and
`mainPc` the main thread, which stands in `dispatch_semaphore_wait` while it is
`waiting`. `didClientConnect` is two actions, because its dispatch of the header and its
update of `activeClients` are seen by other threads in between; it holds the lock on the
socket's list during both, so `StopClients` waits for it. `Reply` may come after the
wait ended, and is then lost, as the code's block variable is. `screenRect` is only
whether the size is known. `stream[c]` records what was written to c: the header, the
last frame, and the last frame that came before the header.

`FrameStream` knows no thread, list or queue. Its `admitted` is mapped to `Admitted`, the
clients whose connect callback has run; `now` to the number of the last screenshot asked
for, and `admittedAt` to `joined`. `DidAcceptNewSocket` is `Admit`, `StopClients` is `Part`
of all listed clients at once, and what a block writes is `Introduce` or `Show`; the rest
stutters, and so does a screenshot asked for at the bound `MaxFrames`.

### FBElementCache

The LRU list of YYMemoryCache is kept as each id's `place` in it; `Promoted(u)` is the
list after u is used. `since[u]` is a history variable, the ids used after the last use
of u, which is what "least recently used" means without a list. The screen changes
between any two steps. `WdUID` reads the id when the element is stored, not when it was
matched, as `storeElement:` does; an element that is gone by then has the zero id.
`CacheMatch` is one turn of the loop in `FBResponseWithCachedElements`.
`Entries` reads the places and the map of elements as one list, the state of `RecentEntries`:
a fetch is its `Get`, a store its `Replace` or `Add`, a new session's cache its `Clear`. The
refinement says how the list changes; that every fetch does promote (a stutter would refine
`RecentEntries` too) is what `KeptWhileRecent` is for.

YYMemoryCache also empties itself on memory warnings; that is library behaviour nothing
in this repository refers to, and it is left out.

### FBTouchActions

Nothing is concurrent here: one request is converted at a time. What a test hardly
reaches is the long list: items are converted in three passes (`preprocess`, `chain`,
`paths`), and each relies on what an earlier pass computed for *other* items. `pc` names
the pass. `left` and `skip` are the backward pass over the list that cancels items and
keeps the rest in `kept`; `items` and `durationOffset` are the chain's fields; `index`
is the item whose `addToEventPath:` runs next, and `paths` what was drawn, the last
path being `currentEventPath`. `record` holds the fingers that are done. Each
`addToEventPath:` is an action, except that the two dialects' pauses and lifts, which
have the same code, share one; `Duration`, `IsPlaced` and `HasStaleElement` hold what
the classes of the items differ in.

An item is a record of what its class reads: whether a duration (or count) is given,
where it is placed and whether a pressure is. `origin` says what the element id stands
for: one on the screen, one that is hidden or gone, or one that is not cached, which in
the Appium dialect stays a string. The client's dictionaries with values of wrong
classes are not modelled. Times are milliseconds throughout; the pressure of an Appium
press, which the code gives in milliseconds where seconds are meant, is a thousand
times its number. XCTest's event paths are sequences of events, as the code builds them.

`TestedPoint` is what `FBMathUtilsTests.m` expects of `FBInvertPointForApplication`.

### FBApplication

`bundleID`, `waits` and `observing` are an object's properties, `current` and `proxied` what
its `XCUIApplicationImpl` holds, `observers` how often it is registered there, `registry`
is `FBPidToApplicationMapping`. `apps`, `tested` and `asked` belong to the active session and
`config` is `FBConfiguration.shouldWaitForQuiescence`. `blocks` are the observers' blocks in
the main queue: a notification only queues one, and it runs when the current request is over.
`launch` is two actions, because XCTest starts the process in between and the device goes on:
`CreateSession` or `LaunchApplication` registers the observer, `EndLaunch` or `FailLaunch` is
what `[super launch]` did and what the caller makes of it. `assigned` and `failed` are history:
the process XCTest set last, and whether a `POST /session` has failed since the session began.

What is assumed of XCTest: one `XCUIApplicationImpl` per object; it sets `currentProcess` when
it launches or activates the application and at no other time; a failed launch leaves process
id 0, under which no look-up finds anything. The system may give a pid again as soon as its
process is gone. Several registrations of one object queue one block here, since the second does
what the first did. The objects look-ups make are one value, `LookedUp`: nothing tells them
apart. An activation of such an object by `POST /deactivateApp` is left out.

### FBLockState and FBScreenCast

`device` is the lock state of the device, `belief` is `fb_isLocked`. A notification's handler is
two actions, `ReadState` and `WriteBelief`: the queue is concurrent, so two of them may overlap;
`reading` counts, for each value, the handlers between the two. The system may merge
notifications (`ReadState` takes any number of them). `RequestLock` answers at once or presses a
button; `CoolOff` are the two seconds `fb_unlockScreen:` lets the run loop run; `Look` and
`EndPass` are the loop of `spinUntilTrue:error:`, with `elapsed` against `Timeout`. `witnessed` is
history.

`FBScreenCast` adds what shares the main thread: `kTimer`, `kSRWebSocket` (`socket` of the cast
numbered `casts`) and `kLastImageData`. A timer that is invalidated is no longer in `scheduled`.
`Fire` takes its time off the spinner's. It is sure to be possible where the code runs the run loop
itself: between requests, in the cool-off, in the spinner and in the waits for XCTest
(`RunLoopPasses`). The loops of a mirror request and of `setPreference` sleep, tap and query; XCTest may let
the run loop pass in those, and a timer may fire then (`RunLoopMayPass`), but nothing rests on it.
`shown` and `missed` are history: what the peer has, and whether `kLastImageData` holds an image no
open socket of this cast could take.

The other requests that hold the main thread are here too. `"event"` is the wait of
`drag2` (`FBElementCommands.m:405-414`) and of `spinUntilCompletion`: the request has asked XCTest for an
event (`PostEvent`) and the run loop passes until the handler is called (`HandlerCalled`, a step of XCTest's, which
need not come). `after` is what follows: the answer, the loops of `handleScreenMirror`, which drags
first, or, for `handleRestartScreenMirror`, the mirror request with a drag of its own. `"mirror"` is a
turn of the two loops that look for the buttons, with `tries` left unless the request asked to `wait`; `"switch"`
is the search of `setPreference`, which sleeps until it finds what it looks for
(`FBCustomCommands.m:652`). A turn of a wait without limit changes nothing and is a stutter. An alert
that makes a request answer at once is a request that does not begin.

`Remaining` counts the steps a request still needs, the call of the handler and the finding of a switch
included: `RequestRunsDown` says that nothing else adds to it. How long such a call takes is not
bounded by anything, which is why `RequestsAreAnswered` leaves `WaitsWithoutLimit` as the one way
for the server to stop answering. The model has no time scale: a rate, and the pauses of the
loops, are left out.

## 3. Runs

| run | instance | states | shows |
|---|---|---|---|
| `session_safety` | 2 applications, 2 sessions | about 1,000,000 | types, `AnswerNamesActiveSession`, `MonitorsFollowSessions`, `LateAlertAtMostOnce`, `EnabledMonitorTicks`, `DisabledMonitorRunsDown`, refinement of `SessionRegistry` |
| `session_liveness` | 1 application, 2 sessions | 33,000 | `KilledMonitorStops`, `WatchedAlertIsClosed` |
| `session_replaced` | 2 applications, 2 sessions | violation | a replaced session's application is not killed |
| `mjpeg` | 2 clients, 2 frames, 3 blocks | 102,000 | types, `ListsFollowConnections`, `OnlyOlderFramesOvertakeHeader`, `HeaderIsSentOnce`, `FramesInOrder`, refinement of `FrameStream`, `HeaderReachesClient`, `FramesReachClient` |
| `mjpeg_starved` | 1 client | violation | a client that never gets a frame |
| `cache_lru` | 4 elements and the zero id, cache of 3 | 103,000 | types, `KeptWhileRecent`, `AnswerAndParentAreUsable`, refinement of `RecentEntries` |
| `cache_ids` | 3 elements, cache of 2 | violation | two elements of one answer share an id |
| `touch_lists` | 2 fingers, 4 items, 9 kinds per dialect, upright and rotated | 549,000 | types, `EventsInOrder`, `KeptIsWhatSurvives`, `ComesDownWhereItWasLeft`, `LiftedInTime`, `RaisesOnlyFor` |
| `touch_points` | 1 finger, 1 item, 5 orientations | violation | landscape points are turned the other way than the unit test has it |
| `applications` | 2 bundles, 2 pids, 2 processes, 2 objects, 2 registrations | 1,397,000 | types, `TerminateNeverRaises`, `LatestProcessWins`, `LaunchedIsFoundByPid`, `RelaunchWaitsAsSessionAsked` |
| `applications_waiting` | the same | violation | a relaunch that shall wait does not |
| `device` | 2 casts, 2 images, 2 notifications, 2 passes, 2 tries | 662,000 | types, `SettledBeliefIsTrue`, `YesIsWitnessed`, `OnlyTheLatestCastRuns`, `PeerHasLastImage`, `RequestRunsDown`, `RequestsAreAnswered`, `ChangeIsShown` |

Bounds. Two sessions are enough for a session to be replaced, and for the monitor
of a dead one to tick beside the living one's; two applications for a session to be
replaced by one for *another* application and for the watched application to differ
from the tested one. `MaxSessions` disables what would create one more, answers
included, and the action `DeleteSession` needs room for the empty session its answer
creates. Two frames let one be captured before a client joins and one
after; `MaxBlocks` stops the capture when so many blocks wait. Two clients are what
the lists need: one comes while the other leaves. The cache holds three, so that an
answer can be smaller than it, as large, and (with the zero id and re-stored ids)
evict; `MaxMatches` is the longest answer. `LateCap` is one more than the counter `late`
may reach. Four items (`MaxItems`, shared by the fingers of a request) are enough for a
touch, a lift, a pause after it and one more item, and for a run of three cancels
behind an item; two fingers (`MaxFingers`) for a chain to begin after another was
finished. Two processes are a launch and a relaunch, or a process under a pid that was given
before; two objects a session and the one that replaces it; two registrations a launch without
waiting after another. Two notifications (`MaxPosts`) are two handlers that overlap; a timeout of
two passes has a look in the middle; two casts are one started over another; `Tries` is 4
in the code and only counts. What the bounds leave open, the proofs close: they hold for all of them.

Deadlock is checked everywhere but in the broadcaster, which may end with nobody
connected and the main loop over, and in the applications, where the bounds on processes and
objects end a behaviour. After a shutdown the session model still has the
device's steps.

Each passing property has a mutant in `PROJECT.json`: a `Fault` operator, defined just
before the operation it breaks, under which the run finds the property violated.

### Fairness

* `WF` of a handler's own steps: the main thread goes on.
* `SF` of `RunLoopPass`, `ScheduleNextTick`, `RunTick`, `RefreshScreenRect` and
  `StreamScreenshot`: they are disabled while a handler (or a capture) holds the main
  thread and enabled between two, again and again. The main queue is first-in first-out
  and timers fire between blocks, so none of them is passed over for ever, however many
  requests come.
* `WF` of the delegate and the background queue: serial queues with threads of their own.
* `WF` of a lock request's next step, of `EventEnds` and of `MirrorTry`: the main thread goes on, whatever
  fires in a pass. `SF` of `Fire` where the run loop passes for certain (`RunLoopPasses`): it serves a
  timer that is due in every pass, and screenshots do not fail for ever.
* Three more outcomes are assumed to occur if tried for ever: a tap on a standing alert's
  button closes it (`RunTick(s, TRUE)`), XCTest answers a screenshot with data in time
  (`Reply("data")`), and an image can be converted (`WriteChunk(TRUE)`). Without them the
  device refuses for ever and no server could do better.
* Nothing is assumed of clients or the device, nor that the system application ever
  reports its frame: that is what `mjpeg_starved` is about. Nor is it assumed that XCTest calls
  a handler, that the mirror's buttons come or that a switch is found (`HandlerCalled`,
  `MirrorTry(TRUE)` and `FindSwitch` have no fairness).

## 4. What disagrees

* **A replaced session's application is not killed** (`session_replaced`). The comparison in
  `FBSession.m:76` is between two properties nothing assigns. `FBSession.h:63`: "Kills
  application associated with that session and removes session". Its monitor is not disabled either:
  `isMonitoring` stays YES.
* **A client that is never streamed** (`mjpeg_starved`). An empty frame at
  `FBMjpegServer.m:153` leaves the size unknown, and only the next connection asks again.
  `FBMjpegServer.h:18`: screenshots go "to all connected clients".
* **One id for two elements** (`cache_ids`). `XCUIElement+FBWebDriverAttributes.m:35` gives an
  element that is gone an empty snapshot. `FBElement.h:38`: "Element's unique identifier".
* **Landscape is turned the wrong way** (`touch_points`). `FBMathUtils.m:51-54` against
  `FBMathUtilsTests.m:109-110`, which expects the two landscapes' points exchanged. Offsets
  (`FBMathUtils.m:66-69`) still turn as the test would have points turn, so in landscape a move
  relative to the pointer and the same move in the viewport go opposite ways.
* **Waiting that cannot be turned on** (`applications_waiting`). `FBApplication.m:83-86` registers
  an observer and nothing but `terminate` removes it, so a later launch that shall wait is still
  wrapped in a proxy that never does (`FBApplicationProcessProxy.m:37`). `FBApplication.h:27`: "It
  allows to turn on/off waiting for application quiescence".

Seen while modelling and shown by no run: a long press without a duration lasts 600 ms
(`FBAppiumActionsSynthesizer.m:41`), where `XCUIApplication+FBTouchAction.h:43` says 500; an Appium wait that ends a
list, or follows a release, opens a touch of its own (`FBAppiumActionsSynthesizer.m:281`), where
`XCUIApplication+FBTouchAction.h:27` has it "modify the duration of the preceeding action" (`LiftedInTime` speaks of
neither kind of list); the spinner looks last one interval before its deadline and
answers NO for what came true since (`FBRunLoopSpinner.m:75`); a new cast sends nothing until the
screen changes, because `kLastImageData` survives a restart (`FBCustomCommands.m:303-313`); a rate
above one a second becomes an interval of 0 (`FBCustomCommands.m:313`); a failed `POST /session` leaves
its waiting setting to the session that goes on (`FBSessionCommands.m:73`), and
`RelaunchWaitsAsSessionAsked` stops at it, because nothing in the repository says what should hold then.

## 5. Proofs

`FBSessionProofs`: the inductive invariant is `IInv`. Type correctness carries the frame.
`AnswerNamesActiveSession` is inductive. `MonitorsFollowSessions` needs
`ActiveIsNoZombie`: freeing the zombies must not take the active session's monitor.
`LateAlertAtMostOnce` needs `LateChanceSpent`: once a monitor has acted late, its next
block, if it is ready at all, finds no delegate, since a block becomes ready only in a
`RunLoopPass`, and that is when the dead session is freed. The refinement of
`SessionRegistry` maps `active` to its current identifier and `1 .. created` to the
issued ones; every step is an issue, a retirement or a stutter. The tick chains need no more than types:
`ChainKinds` lists what a step may do to one monitor and its chain, `TickLays` what a tick does, and
`EnabledMonitorTicks` and `DisabledMonitorRunsDown` follow.

`FBMjpegProofs`: the invariant is `StreamInv`. Frames are in order because the blocks in the
queue are (`QueueInOrder`), their numbers are not above `captures` and nothing written is
above anything waiting (`NothingFromTheFuture`, `FramesAheadOfHeader`); a client that is
listed and has no header yet has it waiting in the queue (`HeaderIsComing`), so that only
blocks in front of it can overtake it. The lists follow `ListsInv`: each connection is announced once
and then its end once (`CallbacksInOrder`), a client is listed from the one callback to the other
(`ListedInBetween`), and the server's copy differs from the socket's list only while a client
joins (`ActiveFollow`). The step that takes work is `StopClients`, which queues the ends in any order. For
the refinement of `FrameStream` both are taken together (`PromiseInv`) with two facts about the queue: a
header waits only for a client whose callback has run (`HeadersOfAdmitted`), and a frame has the number
of a screenshot that was asked for (`FramesAreNumbered`). `AdmittedStep` says when the mapped set of
admitted clients grows, `FrameIsShown` that what a block writes is one `Show`; `PromiseIsKept` puts the steps
together. `HeaderIsSentOnce` is `PromiseInv`, which gives an open client *some* header, and
`OneHeader`, which is inductive beside it and says that it never gets two.

`FBElementCacheProofs`: the invariant is `CacheInv`. A cached id's history is the set of ids
in front of it, as many as its place says (`PlacesFollowHistory`); places are taken once;
an id that was used and is not cached has at least `CacheSize` ids in its history
(`EvictedAreOld`); the history of an answered id lies within the answer (`AnswerInv`). The
step that matters is that using u moves exactly the ids in front of it.

The refinement of `RecentEntries` needs that the places are `1 .. n` without a gap (`NoPlaceIsSkipped`), so that
`Entries` is a list at all; then `UseMovesEntry` gives the list after a use, `FetchIsGet` and `StoreIsPut`
make it the abstract step, and the four kinds of entry (moved to the front, moved back by one, left
alone, forgotten) are its four cases.

`FBTouchProofs`: the invariant is `TouchInv`. An item's offset and duration add up to the offset
of the next one, the last one's to the chain's (`Chain`), and nothing drawn is later than
the moment at which the next item begins (`Drawn`). Every item draws nothing, one event on
the current path, or new paths, all between its own beginning and end (`AddingEmits`;
`DrawKeepsOrder` and `OpenKeepsOrder` for the two ways to draw), which gives `EventsInOrder` for lists of any length.
`RaisesOnlyFor` rests on `Drawn` too: after the first item there is a path.

`FBTouchPathProofs`: two extensions of `TouchInv`. `Follows` is about places: an item without a position
is where the previous one is (`Inherits`), and the current path leaves the finger where the last
item is (`IsAtLastItem`), so a path opened next begins there. `Timely` is about times: what the last
item drew ends with a lift at its beginning or its end (`Ended`), and the clock of the chain
starts at 0. That the clock is `TimeOf`, a recursive function, is shown by its solving the same
recursion; two solutions on `0 .. n` are equal, since they cannot differ at a least argument
(`SumIsUnique`, with the library's `WFMin`, which needs no operator parameter).
Two theorems are about `FBOrientation` alone: `PointsFillTheScreen` (turned viewport points are the screen, one to
one) and `OffsetsTurnAgainstPoints` (in landscape a pointer move and the same viewport move cancel out), which is
the general form of the disagreement `touch_points` finds.

`FBTouchListProofs`: the invariant is `Passed`, about the part of the list the backward pass has seen: the
flag says whether the cancels met last come to one that still counts, and `kept` lists the survivors
behind `left`, each at the place that counting gives it. A step adds one to the run of cancels or
ends it (`RunGrows`), and a survivor put in front moves every other one place on (`SurvivorIsCollected`).

`FBApplicationProofs`: `LaunchedIsFoundByPid` is inductive, since a launch gets a pid no running process has. `RelaunchWaits`
rests on `SettingInv`: until a `POST /session` fails, `config` is what the session (or the one being
created) asked for. The observers need `ObserverInv`, of the objects the session holds or a
request works on (`Held`): one that observes has a registration, its last queued block, if any, is
for the process assigned last, and with no block queued that process is the proxy. It holds of
those objects only: one that was terminated and dropped keeps its flag with nothing behind it.

`FBScreenCastProofs`: `SettledInv` follows the last handler: while none overlap, the value it has read is the
device's state unless a notification is pending. `WitnessInv`: while a request waits, a belief, or a
handler's reading, equal to its goal was seen. `CastInv` adds to the two properties that
a socket which is still connecting has taken no image: one that is remembered was missed. `RequestRunsDown`
is about `Remaining`, the number of steps a request still needs: at most `2 * Timeout + 4` or
`2 * Tries + 4`, and zero only when it is answered (`RemainingCounts`). Each of its own steps lowers it
(`OwnStepsCount`, with `EventEndCounts` and `MirrorTryCounts` for the longest two), so does the call of
a handler (`CallCounts`), and a step of anything else never raises it (`OthersPutNothingOff`);
`RunsDownStep` puts them together. Waits without limit are no exception: they do not raise it either, and
the theorem does not say that they end.

The assumptions are those named in the modules (`SessionAssumption`, `MjpegAssumption`,
`CacheAssumption`, `TouchAssumption`, `ApplicationAssumption`, `LockAssumption`, `CastAssumption`): sets of identifiers apart from nil, bounds at least 1.

Only model-checked: the six liveness properties, since fairness and `ENABLED` are beyond TLAPS here. What is
safety in them is proved:

| liveness, model-checked | safety half, proved | what only fairness adds |
|---|---|---|
| `KilledMonitorStops` | `DisabledMonitorRunsDown`: at most three steps are left, and nothing adds one | they are taken |
| `WatchedAlertIsClosed` | `EnabledMonitorTicks`: there is always a next tick | it comes, and a tap succeeds at last |
| `HeaderReachesClient` | `HeaderIsSentOnce`: the header is written, queued, or its callback is | the queues are served |
| `FramesReachClient` | `ListsFollowConnections`, `ImplementsFrameStream`: an open client is on the list frames are written to | timer, screenshot and conversion succeed at last |
| `RequestsAreAnswered` | `RequestRunsDown`: a bounded number of steps, which nothing puts off | those of the main thread are taken; XCTest's may not be, and that is all that can be stuck |
| `ChangeIsShown` | `OnlyTheLatestCastRuns`, `PeerHasLastImage`: an open socket has its timer, and what it was sent is known | the timer fires |

## 6. What could come next

Done: sessions and monitor, broadcaster, element cache, touch actions, applications, the lock with the
spinner, and the cast, with their proofs; refinements of `SessionRegistry`, `FrameStream` and `RecentEntries`. Left, and each of it small: the composition of sessions
with the element cache (a new session starts with an empty one), orientation maps and route
patterns as pure functions.

## 7. Not modelled

* Object detection, vendored frameworks and private headers: no protocol of this program.
* The Inspector page polls the server from a browser and draws what comes. Two refreshes may overlap
  and the older answer may be drawn last; nothing in the page or its documents says otherwise.
* XPath and class chains, beyond their being some query: libxml2 and a parser of characters.
* Scrolling, visibility, typing, picker wheels: loops whose every decision is about what the tested
  application shows next. A model would be one of that application. The caches of attributes
  and visibility are keyed by addresses, which the allocator may give again.
* When XCTest calls a handler that a drag, `spinUntilCompletion` or typing waits for: the wait is in `FBScreenCast`,
  the call may come at any time or never.
* Ports, the loop that keeps the test alive, the failure-proof test case: no state between requests, or flags
  set by XCTest's failures only.
* Formatting and logging; how XCTest finds elements or synthesizes touches.

What the code takes from outside (GCDAsyncSocket, SRWebSocket, YYMemoryCache, the dispatch queues, the
notification centre, XCTest) is modelled from how the code uses it and marked external in `PROJECT.json`.
