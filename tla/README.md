# Halo CE OpenSauce: the networking services, modelled

TLA+ models, TLC checks and TLAPS proofs of the parts of OpenSauce that run
concurrently: the HTTP server of the dedicated server with its ban lists, the map
download service that runs under it, and on the other side the HTTP client with the
version check and the map download that use it. The code is in
`src/OpenSauce/Halo1/Halo1_CE/Networking/`; file names below are relative to it
unless a path is given.

## 1. The system

OpenSauce is a set of extensions to Halo: Custom Edition, loaded into the game's
process. Nearly all of it runs on the game thread, called by hooks in the engine:
drawing, user interface, scripting, object and AI extensions, settings, tables of
engine addresses. Around it are editing tools (CheApe, BlamLib, OpenSauceIDE), an
installer and a small PHP map server. What has state that several threads share, and
that can go wrong in ways a test would not show, is the networking code:

| Component | Files | State | Operations | Interacts with |
|---|---|---|---|---|
| Ban manager | `HTTP/BanManager.cpp` | two linked lists of bans, a recursive mutex, three settings, the ban list file | IPBanned, AddConnection, AddPermanentBan, RemovePermanentBan, UpdateConnectionBans, SetConnectionBan, SaveBanList, LoadBanList | called by the HTTP workers and by the game thread |
| HTTP server | `HTTP/HTTPServer.cpp` | the mongoose context, `serve_files`, the services | ServerCallback, start, stop, Update, Dispose, script functions | mongoose calls it on worker threads; calls the ban manager and the services |
| Map download server | `HTTP/MapDownloadServer.cpp` | `system_active`, `requests_in_progress`, definition lists with a mutex each, elements with a mutex and a lock count each | ServerCallback, StartMapServer, StopMapServer, ReloadMapPartDefinitions, FindMap, Lock/Unlock | called by HTTP workers and by the game thread |
| HTTP client | `HTTP/HTTPClient.cpp` | eight request slots, a mutex | HTTPRequestGet, Abort, Think, Query*, completion and progress callbacks | GameSpy's ghttp; used by the downloaders |
| Downloaders | `HTTP/c_file_downloader.cpp`, `HTTP/c_xml_downloader.cpp` | slot index, status, attempts, time-out, the XML document | Start, Update, Stop, callbacks | use the HTTP client, which calls them back |
| Map download client | `HTTP/MapDownloadClient.cpp` | the stages of the game thread and of the download thread, server and part lists with their iterators, three downloaders, the flags `stop_download` and `in_progress` | Update, DownloadMap, AddMapForDownload, Dispose, callbacks | game thread and download thread; downloaders |
| Version check | `VersionCheck*.cpp`, `VersionCheck.hpp` | three XML downloaders, versions, the list of servers and the date of the last check in the settings | TestForUpdate, InitializeForNewMap, CheckForUpdates, Update, UpdateVersion | game thread; XML downloaders |
| Game network hooks | `Networking.cpp`, `Server.cpp`, `MessageDeltas.cpp` | almost none of their own | hooks | the engine |

What is hard about each, and what makes it correct:

* **Ban manager and HTTP server.** Any number of workers and the game thread touch the
  lists. `IPBanned` searches under the mutex but reads the answer after it released it;
  check (`IPBanned`) and count (`AddConnection`) are two critical sections; the limit is
  tested outside the second one and used inside; the settings change at any time; an
  address can be in both lists; the mutex is recursive and one path forgets a release.
  Correct means: one element per address, a limit that cannot be passed by much, a
  permanent ban that is enforced, nobody refused for another's ban, a ban that ends, a
  server that stops.
* **Map download server.** There is no lock around the service. A counter of requests
  keeps `StopMapServer` from unloading under a request, and mutexes with time-outs and
  lock counts protect lists and elements; all the counters are plain integers updated by
  several threads. Correct means: the counter counts, nothing is unloaded under a
  counted request, nothing deleted is used, requests and stops end.
* **HTTP client and downloaders.** Two threads share the slots. A slot is given back by
  its owner only; queries are unlocked; a time-out does not abort the request, which may
  still answer; a slot keeps the identifier of its request after the end of it, when the
  library may have given it to another request; one path of `HTTPRequestGet` keeps the
  mutex. Correct means: no slot has two users, an answer goes to the one who asked and
  only while he waits, slots are not lost.
* **Map download client.** Two threads exchange stages and flags in plain variables; the
  download can be cancelled at any moment, and the next one begins with what the last one
  left. Correct means: the game reconnects only with the map installed, no server and no
  part is left out, stopping returns, a download ends, nothing is left over.
* **Version check.** Checks are started, cancelled and started over by map loads while
  downloads end in any order. Correct means: between two checks nothing is held, a
  dedicated server loses no slots, and at the end of a check the newest version and the
  newest list of servers of its sources are adopted.

Every component, those that are not modelled included, is listed with its reason in
`PROJECT.json` under `components`, and what is hard to test in this code under
`hazards`, each at its line and with the properties that cover it.

## 2. The modules

| Module | What it is |
|---|---|
| `BanManager` | the shared data of the ban manager and one action per operation |
| `HTTPServer` | the threads: workers inside `ServerCallback`, the game thread, mongoose; EXTENDS `BanManager` |
| `HTTPServerVerdict` | history variables and the safety properties of the two |
| `HTTPServerProgress` | the liveness properties of the two |
| `BanTable` | abstract: what the ban manager promises the admin, address by address |
| `HTTPServer_proofs` | theorems about the lists: types, unique elements, flags and counts; about the mutex, the progress of requests and the end of bans |
| `HTTPServerVerdict_proofs` | theorems about admissions and refusals; EXTENDS `HTTPServer_proofs` |
| `BanTable_proofs` | the refinement of `BanTable`; EXTENDS `HTTPServerVerdict_proofs` |
| `MCHTTPServer` | the instance TLC checks (symmetry) |
| `MapDownloadServer` | the map download service: workers and game thread |
| `MapDownloadVerdict` | history variables, safety and liveness properties; INSTANCEs `DownloadGate` |
| `DownloadGate` | abstract: what requests and stops of the service promise each other |
| `MapDownload_proofs` | theorems about the map download service, the refinement of `DownloadGate` |
| `MapDownloadProgress_proofs` | theorems about its mutexes, lock counts, deadlock and the progress of requests; EXTENDS `MapDownload_proofs` |
| `MCMapDownload` | the instance TLC checks (symmetry) |
| `RequestSlots` | abstract: what the HTTP client promises its users |
| `HTTPClient` | the request slots, their mutex, GHTTP; INSTANCEs `RequestSlots` |
| `FileDownloader` | the file and XML downloaders; EXTENDS `HTTPClient` |
| `VersionCheck` | the version check, run by the game thread; EXTENDS `FileDownloader` |
| `HTTPClientThreads` | composition: the game thread and the download thread over the client; EXTENDS `VersionCheck` |
| `HTTPClientThreads_proofs` | theorems about slots, indexes, the promise and the mutex |
| `VersionCheck_proofs` | theorems about the version check; EXTENDS `HTTPClientThreads_proofs` |
| `MCHTTPClient` | the instance TLC checks (symmetry, documents) |
| `MapJob` | abstract: what the player is promised about a map download |
| `MapDownloadClient` | the map download: game thread and download thread; INSTANCEs `MapJob` |
| `MapDownloadClient_proofs` | theorems about the map download and its progress |

### BanManager and HTTPServer

*Data.* The heap of list elements is the function `node`; the two lists are the sets
`connect_ban_list` and `permanent_ban_list` of nodes. The order of a list would show only
in which of several elements with one address a search meets first, and in what an index
names; both are nondeterministic. Deleting an element frees its node, which may be used
again at once. The file of the permanent bans is what `LoadBanList` would make of it.

*Atomicity.* A critical section is one action. Outside of the mutex the code reads
single words only: the flag of the element found (`ReadBan`), the limit
(`TestLimit`); each is an action of its own. Reading the flag of an element that has been
deleted may give anything (`ReadVerdict`).

*The mutex.* `mutex_owner` and `mutex_count` describe it between actions: `Guarded` is a
section that releases what it acquires, `GuardedAndKept` one that releases once less.
`AddPermanentBan` is the second kind when the address is in no list, because the inner
`IPBanned` returns early; the count grows up to `MaxHold`.

*Threads.* `pc[w]` says where worker `w` is in `ServerCallback`: `NewRequest`,
`SearchBans`, `ReadBan`, `TestLimit`, `CountConnection`, `RouteRequest`, `ServeFile`. The
game thread's actions are whole calls: `Update`, `SetBan`, `BanIP`, `UnbanIP`,
`BanlistFile`, `SetRoot`, `StartServer`, `StartService`, `StopService`, `StopServer`,
`Dispose`; only `mg_stop` is split, into the call (`context = "stopping"`) and its return
(`StopReturns`), since it waits for the workers. A step that waits for the mutex is
disabled while another thread owns it.

*External.* mongoose: a worker has one request at a time, serves a file when the callback
returns null and files are served, and `mg_stop` returns when the workers are idle.

*The promise.* `BanTable` is what the admin should be able to rely on: a table with, for
each address, a count of connections, whether a connection ban is active, and how many
permanent bans it has, and a file of saved bans. A connection raises the count of its own
address only; time lowers counts and ends bans; commands make and remove permanent bans.
It says nothing of elements, lists, workers, mutex or time-outs. The refinement mapping is
in `HTTPServerVerdict`: the row of an address is the element that is found for it. The
comment of `BanTable` names the four places where the code promises less than one would
like: a ban of a barred address is not recorded, saving may fail and loading
may turn addresses into others, one address may get several permanent bans from the file,
and a count of zero with an active ban, which a change of the limit leaves behind, is not
looked at again.

### MapDownloadServer

Everything here interleaves finely, because nothing is locked around it: an increment or
decrement of a counter is a read step and a write step, the list and the elements are
locked and released in steps of their own, and `UnloadMapPartDefinitions` and
`LoadMapPartDefinitions` are loops of steps of the game thread (`pc[Game]`). Searching and
locking (`Search`) is the same code for workers and for the game thread. A wait with a
time-out either gets the mutex or, while another thread holds it, gives up. A thread that
uses a pointer to something deleted ends the behaviour (`Fault`); what the program does
from there is undefined. One list stands for the lists per first letter; elements of
different lists never meet except when all lists are unloaded.

Counters count modulo `Wrap`, which stands for 2^32.

`DownloadGate` is the protocol between requests and stops without the counter: a request is
admitted while the gate is open, goes inside, leaves; a stop closes the gate, waits until
nobody is inside, clears. The counter is how the code knows that nobody is inside, and the
refinement is what shows that it is enough. The gate keeps the gap of the code, a request
that was admitted and goes in during the clearing, and promises nothing once an update of
the counter has been lost.

### HTTPClient, FileDownloader, VersionCheck and HTTPClientThreads

*Layers.* `HTTPClient` has the slots and one operator per function (`Get`,
`HTTPRequestAbort`, `RequestProgress`, `RequestComplete`); `FileDownloader` adds, per
downloader, the index of its slot, its status and its document; `VersionCheck` adds the
game thread's loops over its sources; `HTTPClientThreads` puts the download thread beside
it and has `Next`. The operators of the lower layers are the steps of a thread `t`.

*Data.* A request of GHTTP is its identifier: `connection[i]` is the slot the request `i`
reports to, if there is one. An identifier whose request has ended may be given to a new
one, and the slot of the old one still holds it; `CancelledSlot(s)` is the slot whose
request an abort of `s` cancels, which need not be `s`. Of the progress only what
`QueryDownloadState` is compared with is kept. A document is a publication
number, which stands for the version and for the version of the list of servers, and how
much of that list it has (`Lists`): no version of it, a version and no server, servers
without a url that can be used, or urls. A source takes what it needs step by step and keeps
what it took when the rest turns out to be missing (`ProcessVersionDocument`). `Parsed` adds
to the document that is there, as TinyXml does.

*Atomicity.* A critical section is one step, and so is a callback, which runs inside it.
`HTTPRequestGet` releases the mutex before it resets a slot that GHTTP has refused; taking
and resetting it is one step here (`GetRefused`): nobody else knows the index in between.
The loops of the version check are steps per source, because each source may have to wait
for the mutex. Thinking for a slot is a step of its own, and thinking for all slots is
several; what GHTTP brings is a free choice.

*Quirks that are in the model.* `ClientUpdate` thinks for slots in use that are not
thought for by hand, but with the identifier that the slot kept, so it may bring the end of
a request of the download thread on the game thread (`HTTPClient.cpp:228-232`). A failed
download of a source counts as succeeded (`VersionCheck.hpp:230`), so what an incomplete
document left may be adopted at a later check: its version, and the version of its list,
which is stored before a server is looked for (`VersionCheck.hpp:195`). The list in the
settings is then emptied, or, since a source adds the urls of each document to those it has,
filled with the first url of an earlier list. When it is empty the next check asks the
built-in server. The status after a parse error is
overwritten (`c_xml_downloader.cpp:84`). The client checks at every load of the menu, though
its comment says once per day (`VersionCheckClient.cpp:31`), because `checked_today` is set
only by `TestForUpdate`; the dedicated server never clears it. A check that is started over
a running one overwrites the indexes (`c_file_downloader.cpp:69`), whose slots are lost. Of
a newer list of servers only the first entry is copied (`VersionCheck.cpp:387`).

*External.* GHTTP, the calendar (`NextDay`), the documents that servers publish, and that a
mutex whose owner ends is free again (`ThreadEnds`).

### MapDownloadClient

*State and actions.* The variables are the members of `g_map_download_globals`, lists by
their length and iterators by their position. `Update` of the game thread is one action, up
to the wait of `StopDownloadThread`; what follows the wait is another
(`CleanupMapDownload`, with the reset). `Dispose` is split the same way. A thread that runs
`DownloadMap` goes through `ThreadBegins`, and in each pass `TestStopFlag`, the pass itself
(`DownloadPass`, `ExtractionPass` and `UpdateStage_ArchiveExtraction`, or `LastPass`) and
`LoopTest`. There may be several such threads at a time: one that is left over, and the one
of the next download.

*The downloads.* Each of the three downloaders is a record of its status, its request and
its attempts; what a download brings at an update is a free choice among the answers the
callbacks can make of it (`Answers`), within the attempts of `Retry`. A list may have any
length within the bounds and a definition any number of parts, and every file operation may
fail. An archive is combined only if every part has its file.

*Atomicity.* A pass of the thread holds `g_globals_access_mutex`, and the game thread
touches what a pass touches only while it updates the display (which is not modelled) or
after its wait. `stop_download`, `in_progress` and the stages are read and written without
it: the thread's test of the flag, its pass and its test at the end of the loop are
separate steps.

*TimelySpec.* `StopDownloadThread` waits for a flag that the thread sets at its first
instruction and clears a pass before its last. `Spec` lets a thread be arbitrarily late, and
`map_client_stop` shows what comes of it. `TimelySpec` assumes that a thread that was
created has begun before it is stopped, and that one that has ended its last pass is gone
when the next one begins; everything else about the download is checked and proved under
this assumption, which is `Timely`.

## 3. The runs

### Passing

**http_server** (`MCHTTPServer`): two workers, two clients, two nodes, limit 2.
Half a million states up to symmetry.

* `TypeOK`: with it that a count of connections never goes below zero and that a ban list
  has allocated elements only.
* `AdmissionsBounded`: an address passes its limit by at most one request per worker, the
  ones that were past `IPBanned` when the ban began; unless `IPBanned` answered for a
  deleted element (`stale`). `LimitNearlyKept` proves it for limits that change.
* `ConnectElementsUnique`: one element per address in the connection list.
* `PermanentBanEnforced`: a client in the permanent list from the check of its request
  to its admission is not admitted, unless the element found was deleted before its flag
  was read.
* `BanMatchesCount`: with a limit set once, a ban is active exactly while the count has
  reached the limit, though one thread sets the flag and another clears it.
* `RefusedOnlyIfBanned` (an action property): a client is refused only if an element for
  its own address was active at some moment since the search, with the same exception.
* `TableKept`: the refinement of `BanTable`. Whatever two workers and the game thread do
  to lists and elements, each step is a step of the table or changes nothing in it.

**http_server_live** (`HTTPServerProgress`): two workers, limits 0 and 2 set at any time,
files served. As long as the game thread does not keep the mutex, every request is
answered (`RequestsAnswered`) and `mg_stop` returns (`StopCompletes`); a connection ban
ends by itself once the admin leaves the permanent bans alone (`BanExpires`).

**map_server** (`MCMapDownload`): two workers, two maps, one element of the heap, start,
stop and reload at any time, counted up to the first lost update or fault.

* `RequestsCounted`: `requests_in_progress` is the number of requests that have been
  counted and not uncounted, on every path, as long as no update of it was lost.
* `StopWaitsForCounted`: during the unload of a stop only a request that was between its
  test of `system_active` and its count can be in progress.
* `SearchesLiveElements`: a search, which holds the mutex of the list, touches only
  allocated elements, even during a reload.
* `FaultsExplained`: nothing deleted is ever used without one of three causes: a lost
  update, a reload, or a request the stop did not wait for.
* `AnswersRequestedMap`: the element that a request has found is not deleted while it uses
  it, and has the name it asked for. Only with one of the causes of `FaultsExplained` may
  its pointer be to something deleted.
* `GateKept`: the refinement of `DownloadGate`.

**map_server_live** (`MapDownloadVerdict`): `StopMapServer` returns and requests end,
although the game thread waits for lock counts with the list's mutex held.

**http_client** (`MCHTTPClient`): two sources and the part downloader over three slots and
two identifiers, client and dedicated server, three map loads, documents of two
versions: one with urls, and a newer one with a version of the list and no server. 1.2
million states up to symmetry.

* `LiveRequestsHeld`: a request that runs reports to a slot that is in use and holds its
  identifier, so it can be cancelled, and its callback never meets a slot that has been
  reset or given to another.
* `IndexesExclusive`: no two downloaders hold the same slot.
* `PromiseKept`: the refinement of `RequestSlots`. A slot is handed out when nobody has it,
  its request is answered at most once, to whom it was taken for, and never after it was
  given back. The promise has one weak place, which the code needs: giving back a slot
  whose request has ended may cancel another user's request (`GiveBackAndCancel`).
* `MutexLeakNeedsLostSlots`: the path of `HTTPRequestGet` that keeps the mutex is taken
  only after slots have been lost by a check that was started over a running one.
* `NothingHeldBetweenChecks`: when no check runs, no source holds a slot or waits.
* `NewestAdopted` (an action property): at the end of a check no source that succeeded has
  a version newer than the one offered, or a list newer than that of the settings.
* `DedicatedKeepsSlots`: a dedicated server never loses a slot, however often it loads a
  map and whatever times out, and so never keeps the mutex.

**map_client** (`MapDownloadClient`): two threads, up to three servers and two parts, two
attempts each; 230 000 states.

* `ArchiveComplete`: the archive is combined only when every part has been saved.
* `AllServersAsked`: a download fails for want of a definition only at the last server.
* `NothingLeft`: while the game waits for the next download there is no request, part,
  iterator position or flag of the last one.
* `JobKept`: the refinement of `MapJob`. The game reconnects only with the map installed,
  once for each time it was asked for.
* `StopReturns` and `DownloadEnds` (liveness): the wait of `StopDownloadThread` ends; a
  download that runs ends.

### Violations: where the code does not do what it says

Each has its finding in `PROJECT.json`.

* **ban_mutex_leak**: `IPBanned` returns at `BanManager.cpp:393` without releasing the
  mutex. Banning an IPv4 address that is in no list leaves it with the game thread; the
  workers then wait for it for ever, and stopping the server hangs the game.
* **banned_served_file**: "if the ip is banned serve it no data" (`HTTPServer.cpp:213`),
  but the callback returns the same null as for everybody else when files are served, and
  mongoose serves the file.
* **map_server_stop**: "wait until any remaining requests are complete"
  (`MapDownloadServer.cpp:1142`), but a request is counted some time after its test of
  `system_active`, and one in between is not waited for.
* **map_server_reload**: a reload "without requiring the server to be stopped"
  (`MapDownloadServer.cpp:1259`) deletes an element that a request has found and not yet
  locked.
* **version_stale**: "Updates the available os version from the data that has been
  downloaded" (`VersionCheck.cpp:348`), but the answer of a second check is parsed behind
  the first one's document (`c_xml_downloader.cpp:75`), and its version is never seen.
* **map_client_stop**: `StopDownloadThread` "waits for the map download thread to finish"
  (`MapDownloadClient.cpp:2147`), but it does not wait for one that has not begun, and
  returns before one that has ended its last pass is gone.

### Bounds, and why they are enough

* `MaxTime` (2 or 3): elapsed times saturate. They are only compared with the cooldown and
  forget times, neither of which is above it, so saturation changes no comparison.
* `MaxTotal` (4 or 3): the count of connections saturates. With limit 2 and two workers
  it reaches at most 2 - 1 + 2 = 3 (`AdmissionsBounded`) without a stale answer, so nothing
  the property forbids is hidden by saturation at 4.
* `MaxPermanent` (1): elements of the permanent list; one for each address would add
  states in which more clients are simply refused.
* Two nodes in `http_server`: a connection element of each client, or both elements of a
  client that is in both lists, and a deleted node is used again at once, for another
  client too. When no node is left what needs one waits. With a third node, for all
  these elements at a time, the properties hold as well (1.1 million states), but the run is
  three times as long.
* `MaxHold` (1): how often the mutex was left acquired. A second time differs from the
  first in nothing another thread can see.
* `Limits = {2}` in `http_server`: below it are admissions without a ban and above it the
  overshoot of the second worker. `http_server_live` lets the limit change, also to 0,
  where `AddConnection` does nothing, and the proofs cover any limits.
* Two workers: every hazard here needs two requests, or a request and the game thread.
* `Wrap` (4): above the number of workers plus one, so that a correct counter never wraps
  and a wrong one does.
* One element and two maps in `map_server`: the element is deleted, and its memory is
  allocated again for another map. A pointer to the old one is then `Dangling`, not a
  pointer to the new one, and using it ends the behaviour.
* `Undisturbed` in `map_server.cfg` and `map_server_live.cfg` is a state constraint: the
  states after a lost update or a fault are checked but not continued. All that the
  properties promise is about executions before that; `map_server_reload` looks at what
  comes with it.
* Three slots for three downloaders in `http_client`: the code has eight slots for six
  downloaders (three sources, master list, definition, part); what matters is that there
  are enough, which is `SlotsAssumption`, and that lost ones can use them up. Two
  identifiers for three slots, so that identifiers are used again while slots still keep
  them. The master list and definition downloaders would be more users like the part's.
* `MaxLoads` (3): one map load to start a check, one to cancel it or start it over, one for
  the next. `MaxVersion` (2): an old and a new publication, of which the new one is the
  incomplete document: what it leaves is adopted after a failed download. Documents with
  no version of a list, or with urls none of which can be used, leave less, and are covered
  by the proofs, which hold for any documents.
* `MaxServers` (2) and `MaxParts` (2): first, middle and last of either list. Attempts (1):
  a retry, and a last failure.
* Two threads in `map_client`: the one that runs and one that is left over.
* Symmetry over workers, addresses, maps, heap nodes, slots and identifiers, in the runs
  without liveness only.
* Deadlock is not checked for the HTTP server: with the mutex left acquired the program
  really stops; nor for the map download client, which ends with `Dispose`. It is checked
  for the map download server and the HTTP client.

### Fairness, and why the code justifies it

* `WF(Worker(w))`: a thread that can run does.
* `SF(Update)`: the game loop calls `Update` once per frame, whatever the script functions
  of the frame did. Stopping the daemon disables it for a while, hence strong fairness.
* `WF(StopReturns)`: `mg_stop` polls.
* `WF(InCall)`: the game thread goes on in the script function it is in.
* No client has to send a request and no admin has to do anything.
* In `MapDownloadClient`, `WF(Update)`, `WF(CleanupMapDownload)`, `WF(Disposed)`: the game
  loop runs and its waits poll. `WF(DownloadMap(t))`: the threads run.
* `SF(Progress(t))`: a pass changes something again and again, because a request that is
  open is answered or timed out some time (connecting has a time-out; after that it is
  GHTTP that has to end the request). Nothing is assumed about how it is answered. A
  failed download waits for the player, who does not have to press a key: `DownloadEnds`
  says that the thread's part of it ends.

## 4. The proofs

They hold for all values of the constants, under the assumptions that the modules state
by name: sets of threads, sources, slots and heap nodes are finite, distinguished values
are distinct, bounds are natural numbers, there are at least as many slots as downloaders
(`SlotsAssumption`), and the program is a user's game or a dedicated server
(`PlatformsAssumption`). Every safety property of the passing runs is proved, the four
refinements included. The theorems without a run in the third column state properties that
are defined in the proof modules; they were model-checked with the constants of the
component's run before they were proved, and are kept as theorems only, which say more.

| Theorem | States | Run | Module |
|---|---|---|---|
| `TypeCorrect` | `SafetySpec => []TypeOK` | `http_server` | `HTTPServer_proofs` |
| `ConnectUnique` | `SafetySpec => []ConnectElementsUnique` | `http_server` | |
| `BanFollowsCount` | `SafetySpec => []BanMatchesCount` | `http_server` | |
| `RequestsGoAhead` | `SafetySpec => RequestsAdvance` | | |
| `NoWorkerKeepsMutex` | `SafetySpec => []MutexWithGame` | | |
| `MutexLostToNewBans` | `SafetySpec => MutexKeptByBan` | | |
| `BansDoRunOut` | `SafetySpec => BansRunOut` | | |
| `PermanentBansEnforced` | `VerdictSpec => []PermanentBanEnforced` | `http_server` | `HTTPServerVerdict_proofs` |
| `RefusalsJustified` | `VerdictSpec => RefusedOnlyIfBanned` | `http_server` | |
| `LimitNearlyKept` | `VerdictSpec => []AdmissionsBounded` | `http_server` | |
| `BanManagerKeepsTable` | `SafetySpec => TableKept` | `http_server` | `BanTable_proofs` |
| `ServiceTypeCorrect` | `VerdictSpec => []TypeOK` | `map_server` | `MapDownload_proofs` |
| `CountKeepsUp` | `VerdictSpec => []RequestsCounted` | `map_server` | |
| `StopWaits` | `VerdictSpec => []StopWaitsForCounted` | `map_server` | |
| `SearchesSafe` | `VerdictSpec => []SearchesLiveElements` | `map_server` | |
| `FaultsHaveCause` | `VerdictSpec => []FaultsExplained` | `map_server` | |
| `RightMapAnswered` | `VerdictSpec => []AnswersRequestedMap` | `map_server` | |
| `ServiceKeepsGate` | `VerdictSpec => GateKept` | `map_server` | |
| `MutexesAreReturned` | `VerdictSpec => []MutexesInUse` | | `MapDownloadProgress_proofs` |
| `LockCountsKeepUp` | `VerdictSpec => []LocksCounted` | | |
| `NoDeadlock` | `VerdictSpec => []NobodyStuck` | | |
| `RequestsGoForward` | `VerdictSpec => RequestsAdvance` | | |
| `ClientTypeCorrect` | `Spec => []TypeOK` | `http_client` | `HTTPClientThreads_proofs` |
| `LiveRequestsAreHeld` | `Spec => []LiveRequestsHeld` | `http_client` | |
| `NoSlotShared` | `Spec => []IndexesExclusive` | `http_client` | |
| `ClientKeepsPromise` | `Spec => PromiseKept` | `http_client` | |
| `MutexLeaksOnlyAfterLostSlots` | `Spec => []MutexLeakNeedsLostSlots` | `http_client` | |
| `ChecksHoldNothingBetween` | `Spec => []NothingHeldBetweenChecks` | `http_client` | `VersionCheck_proofs` |
| `NewestIsAdopted` | `Spec => NewestAdopted` | `http_client` | |
| `OffersArePublished` | `Spec => []OffersPublished` | | |
| `OffersOnlyGrow` | `Spec => OffersGrow` | | |
| `SlotsLostOnlyByRestart` | `Spec => SlotsLostByRestart` | | |
| `DedicatedServerKeepsSlots` | `Spec => []DedicatedKeepsSlots` | `http_client` | |
| `DownloadTypeCorrect` | `TimelySpec => []TypeOK` | `map_client` | `MapDownloadClient_proofs` |
| `ArchivesAreComplete` | `TimelySpec => []ArchiveComplete` | `map_client` | |
| `EveryServerAsked` | `TimelySpec => []AllServersAsked` | `map_client` | |
| `NothingIsLeft` | `TimelySpec => []NothingLeft` | `map_client` | |
| `JobIsKept` | `TimelySpec => JobKept` | `map_client` | |
| `DownloadGoesForward` | `TimelySpec => DownloadForward` | | |
| `StopIsAnswered` | `TimelySpec => StopAnswered` | | |

**HTTP server.** `TypeOK` and `ConnectElementsUnique` are not inductive. `IInv` strengthens them: the two
lists have no node in common (otherwise deleting from one would leave freed nodes in the
other, and two of them would have one address), and every element of the permanent list
has a client's address (which is what `SaveBanList` writes to the file). From it each
action keeps the lists apart and adds an element only after it has found none. The proof
has a lemma for each operation of `BanManager`, then one step per action of the workers and
of the game thread, then the temporal step.

`BanMatchesCount` needs `CountInv` on top of `IInv`. The limit that `TestLimit` reads
without the mutex is the limit used under it only because it is set once: `CountInv` says
that a worker about to count, and any element of the connection list, implies that the
limit has its one value, and that each element agrees with it.

What liveness rests on here is proved with them. `RequestsAdvance` gives each step of
`ServerCallback` a number of steps that are left and shows that no step of any thread makes
it grow, except a new request of a server that runs. `MutexWithGame` and `MutexKeptByBan`
say when the workers can go on at all: between operations only the game thread can have the
mutex, and it has it for good after a permanent ban of an address without an element, in no
other case. `BansRunOut` says that an element of the connection list changes in two ways
only: by a connection of its own address, or by an `Update` that takes it off the list or
brings it a tick nearer to being forgotten and begins no ban.

All these are about `SafetySpec`, the specification without the history variables. The
history variables observe the steps and restrict none, so what holds of `SafetySpec` holds
of `VerdictSpec` and of the runs.

Three are about `VerdictSpec`. Their invariant `VerdictInv` adds to `IInv` that
the elements of the permanent list are active (`PermanentActive`), and what a worker knows
between the two halves of `IPBanned` (`ReadInv`): the element it found, unless deleted
since, is in a list and has the client's address; for a client who stays in the permanent
list it is an element of that list; and an active element of the client has been noticed.
`PermanentBanEnforced` and `RefusedOnlyIfBanned` follow, because the flag that is read is
then the flag of the right element.

`AdmissionsBounded` counts. `InFlight(ip)` is the set of workers past the search with a
request of `ip` that has not been counted. `BoundInv` says that an element that is not
active is below some limit, and that for an active one the count plus the requests in
flight is at most that limit less one plus the number of workers. Counting moves a request
from one term to the other; while the element is active no request takes off
(`NoneTakesOff`), because its flag, or the search, would have stopped it.

`TableKept` is about `SafetySpec` again. The mapping makes a row of the elements of an
address; that there is at most one in the connection list is `ConnectElementsUnique`, so the
row is that element (`RowOfElement`), and an operation on one element leaves the rows of
other addresses alone (`OtherRowsKept`). Each operation of `BanManager` has a lemma that
says which step of the table it is (`AddConnectionTable`, `UpdateTable`,
`AddPermanentBanTable`, `RemovePermanentBanTable`, `SaveBanListTable`,
`LoadBanListTable`). Loading compares the numbers of addresses before and after; that they
can be counted is why the heap is assumed to be finite (`IsFiniteSet(Nodes)`), as memory
is. `TableInv` adds to `IInv` that every element of either list, and every request, has a
client's address (`ClientsKnown`), and that permanent elements are active, so that an address
is barred in the table exactly when `IPBanned` would find it so (`BarredInTable`).

**Map download server.** `TypeInv` adds to `TypeOK` what the game thread holds while it
removes a definition (`GameHolds`). `RequestsCounted` is an equation between the counter and
the cardinality of the set of requests in progress: one lemma relates a step of the set to
its cardinality, and each step of a worker either leaves the set alone or moves one request
(`RequestStep`). A lost update is a write of a counter that has changed since it was read,
and ends the claim. `StopInv` says that from the end of the wait to the next start every
request in progress, or about to be counted, is a late one. `SearchInv` is about ownership:
a thread that scans holds the mutex of its list, or the list has been cleared and its
elements have leaked, and what it will still touch is allocated. `PtrInv` keeps track of the
pointers to elements and lists: one that is not dangling is to an allocated element with
the name that was searched for. `CallInv`, `SafeInv` and `CrashInv` say who deletes, whose
pointers may dangle then, and that only such a pointer faults. `FaultsExplained` follows
from the last, and `AnswersRequestedMap` from `PtrInv` and `SafeInv`: what is at stake
there is not that a dangling pointer is not mistaken for a good one, but that no request has
one without a cause.

`GateKept` rests on `RequestsCounted`: the requests in progress are `inside`,
those between the test of `system_active` and their count are `admitted`, and the step that
reads a counter of zero is the step that finds nobody inside, because as long as no update
was lost the counter is the cardinality of that set.

`MapDownloadProgress_proofs` is about what could keep requests and stops from ending.
`MutexesInUse` says that every mutex is held by a thread in the middle of the section that
releases it, and conversely. `LocksCounted` is an equation like `RequestsCounted`, between
the lock count of an element and the set of threads that have locked it; a thread whose
wait timed out stays in the set until it has taken its count back. From them `NobodyStuck`:
whatever a thread waits for, another has to do a step for, and the game thread, which waits
in `RemoveDefinition` with the mutex of the list, waits for a worker that needs no list. And
`RequestsAdvance` is a lexicographic measure of phase, elements left to search, and place
in the lock of one, which every step of a request takes on.

**HTTP client.** Every action has one of four effects on the slots (`Effect`): nothing, a
start, a give-back, an answer; each invariant is shown of those. `ClientInv` is
`LiveRequestsHeld`, `IndexesExclusive` and `UserNeedsRequest`, that a slot with component
data has a running request: that an abort cancels no request into the void needs the
identifiers, and that it leaves no user behind needs the data. The refinement follows from
it: each effect is a step of `RequestSlots`, and a give-back that cancels the request of
another slot is `GiveBackAndCancel`. `MutexLeakNeedsLostSlots` is a count: as long
as no slot is lost, the slots in use are those that downloaders hold, so one that asks and
holds none finds a slot free (`SlotLeft`), and one that asks and holds one loses it.
The version check's part says who does.

**Version check.** `HeldInv` says that a downloader in progress waits for an answer in the
slot it holds, and that an idle one holds none. `CheckInv` says, for each place in the loops
of the game thread, which sources are clear already, those beyond the end of the list of
servers included, and which versions and lists the last loop has adopted so far. `OffersPublished`
says that all versions, those of lists and the urls were in documents received, though not
that they were in the same one, which is not true of the code. It goes through all
the places where a version can wait for the next check: the documents of the sources, the
versions taken from them, the offer. `RestartInv` says who starts a downloader that may
still hold a slot: the download thread prepares a part only when it holds none, and a
dedicated server starts its sources when all of those it has still to start are clear. So
`SlotsLostByRestart` leaves the menu of a user's game, and `DedicatedKeepsSlots` follows
with `MutexLeakNeedsLostSlots`.

**Map download client.** `Inv` has a part for the threads (`ThreadInv`: who may be in a
pass, and what an ended thread has returned), for each stage what it may rely on
(`StageInv`, `PartInv`: the saved parts are those before the iterator), for the idle game
(`IdleInv`) and for the job (`JobInv`: `complete` means installed, along the stage, the
return value and the update stage). `Timely` is part of it; without it a late thread
meets globals that have been reset, and none of the rest is inductive: in `Spec`, where
threads may be that late, TLC finds `TypeOK` and each of the four properties violated, so
they are stated of `TimelySpec` because they are true of nothing more.
`DownloadForward` orders the places of a download by stage and, within one, by server, part,
state of the download and attempts, all of them bounded, and shows that no step goes back
before the game thread has reset it. `StopAnswered` is about the wait of
`StopDownloadThread`: `WaitInv` says that while `in_progress` is set the thread of the handle
is in its loop, so in the wait only that thread can step, and each of its steps is one of
the at most five that are left before it clears `in_progress`.

Only model-checked: the liveness properties `RequestsAnswered`, `StopCompletes`,
`BanExpires`, `StopReturns` (of both services), `RequestsEnd` and `DownloadEnds`, which are
out of the prover's reach. What is proved is the part of their argument that is not about
fairness: a measure that no step takes back, and that whatever somebody waits for, another
thread can do:

| Checked | Rests on |
|---|---|
| `RequestsAnswered`, `StopCompletes` | `RequestsGoAhead`, `NoWorkerKeepsMutex`, `MutexLostToNewBans` |
| `BanExpires` | `BansDoRunOut` |
| `StopReturns` of the map download server, `RequestsEnd` | `RequestsGoForward`, `NoDeadlock`, `MutexesAreReturned`, `LockCountsKeepUp` |
| `DownloadEnds` | `DownloadGoesForward` |
| `StopReturns` of the map download client | `StopIsAnswered` |

That with the fairness of section 3 the measures reach their end is what TLC adds.

## 5. What is not modelled

* In the modelled files: responses, headers, logging, the XML of a map part definition,
  the configuration strings and paths, the host settings, the listing functions.
* The early return of `SaveBanList` and `LoadBanList` when no file name was set, and the
  name itself: a file that is not there stands for it.
* IPv6: an address is an address. The parse of one fails or gives one.
* The `std::map` of the definition lists: worker threads read it while the game thread
  changes it. A step here looks a list up; the harm of an unsynchronised look up is
  undefined behaviour that hides everything else.
* `Dispose` of the map download server, which clears the lists at the end of the process.
* `Dispose` of the HTTP client and of the version check, at the end of the process.
* A download without a url (an empty entry in the list of version servers): it fails before
  the client is asked, and keeps the index it has.
* Byte counts, urls and status codes of a request; they feed the display only. Blocking
  requests, which nobody makes.
* The order of the servers of a map download and its indices of type `char`, with which
  the loop at `MapDownloadClient.cpp:1542` never ends from 128 servers on.
* Switching the map download off in the settings while it runs, which makes `Update` return
  at once, and a map download directory that cannot be deleted.
* The display of a map download, and the mutex as far as it protects the display only.
* What XML documents are made of. A definition of a map or its list of servers is valid or
  not, and has any number of parts or servers within the bounds. A document of the version
  check has its version as a whole, and of its list of servers one of the four things in
  `Lists`.
* The components marked `not_modelled` in `PROJECT.json`.

The components that are left keep no state that threads share: they are hooks into the
game's binary, whose own state and code are not in the repository, drawing, file formats,
tools for one user, or third-party libraries. A model of them would restate a sequence of
calls.

## 6. Plan

Done: all the modules of sections 2 to 4, which are all the components of the repository
that run concurrently or keep a protocol. What could be added:

1. The master list and definition downloaders as further users in `HTTPClientThreads`, and
   the reset of a downloader that is still being called back when a late thread meets
   `ResetMapDownload`, to say what the consequence of `map_client_stop` is on the slots.
2. Switching the map download off and on again in the settings while it runs.
3. The index `char` of the server list, with its width as a constant.
