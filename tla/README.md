# A verification project for the UniChargers central system

The repository holds a C++ server (`src/mkr_linux/http_light`, with the web socket server in
`src/mkr_linux/ocpp_server_proj`) that is the *central system* of OCPP 1.6: charge stations connect to it over
web sockets, customers watch and command their stations from a web page and from a mobile application.  This
directory models the core of that server in TLA+, checks it with TLC on small instances, and proves its main
safety
properties with TLAPS for every size of the instance.

Definitions keep the names of the functions they translate.  `PROJECT.json` maps every one of them to its lines.

## 1. The system

| component | state | operations | talks to |
|---|---|---|---|
| **Http_Light_Console** (`Http_Light_Console.cpp`, `sig_handler.cpp`) | - | `main`: start-up, event loop, stops; signal and crash handlers | every server below |
| **telemetry_server** (`telemetry_server.cpp`), one thread | `m_connections`, `t_server` | `on_open`, `on_close`, `on_message` (text: OCPP; binary: firmware download), `sendResponse2Client`, start and stop | mkr_ocpp, CentralOcppDB |
| **mkr_ocpp** (`mkr_ocpp.cpp`, `.hpp`) | `request_queue` | `processOCPPIncoming`: requests of stations, confirmations of stations | both databases |
| **central requests** (`mkr_ocpp_central_requests.cpp`) | - | commands to stations: firmware, profiles, remote start/stop, configuration, time zone, charge limit | CentralOcppDB, `request_queue`, telemetry_server |
| **CentralOcppDB** | tables `CH_STATIONS`, `CSProfTbl` | registration, release, profiles, status, addresses, listings | every other component |
| **HistoryDB** | tables `CSHistTbl`, `StartTrTbl`, `StopTrTbl`, `MeterVTbl` | transactions, meter values, log, clearing, statistics | mkr_ocpp, web page |
| **BaseDB** | one mutex per database | `CREATECONNECTION` ... `CLOSECONN`, rowids | SQLite |
| **webservice** (`PWebService.cpp`), a pool of threads | `web_sessions` | requests of the web page | databases, central requests |
| **FleetEmployeeDB** (`ClientsDB.cpp`, `FleetEmployeeDB.cpp`) | tables `CLIENTS`, `EMPLOYEE` | registration, logins, profiles | webservice, mobile requests |
| **TcpListener** (`TcpListener.cpp`), a thread, and one per connection | `IsRun`, `sockfd` | accept, receive, `start_tcp_listener`, `stop_tcp_listener` | mobile requests |
| **mobile requests** (`TCPLRequest.cpp`) | - | requests and heartbeat of the mobile | databases, central requests |
| **mqttc** (`ClsMqtt.cpp`, `mqtt_client.cpp`), a thread | `conn_state`, `initialized`, `terminate_mqtt_service` | loop, reconnect, callbacks, `doInitMqtt`, `stopMqtt` | broker |
| **web servers** (`libevhtp_server.cpp`, `mkr_server_no_ssl.cpp`) | the event bases | start, stop, dispatch, firmware request | webservice |
| reports, fleet databases, vendored code | | see `PROJECT.json` | |

What is hard about it:

* *Threads.*  The web socket thread, the web server's pool and the mobile threads meet in the two databases,
  which have a mutex each, and in `m_connections`, `request_queue`, `web_sessions` and `t_server`, which have none.
* *Statements without transactions.*  A handler runs several SQL statements, each of which commits by itself.  The
  server can stop, or a statement can fail, between any two.
* *Identities.*  A row of `CH_STATIONS` is found by serial number in some handlers, by the "ip:port" of the
  connection in others, and a station may reconnect from another port before the server sees the old connection
  close.
* *Start and stop.*  A signal handler stops every server, on top of whatever the main thread is doing, by flags,
  `pthread_cancel` and by freeing objects that their threads may be using; main then does it again.
* *Streams and files.*  Requests of mobiles come in pieces; the firmware is measured in one step, read in another
  and fetched in two messages, while the file may be replaced.
* *Caches.*  `UpdMob` says that a mobile's copy of a row is old.  It is cleared before the answer is out, and
  not every handler that changes a row sets it.
* *Matching.*  Confirmations are matched with requests by a unique id made from the clock.
* *Time.*  Online status is derived from the age of the last message; meter values are thinned out by the
  station's own clock.

The hazards are listed with their lines under `hazards` in `PROJECT.json`, each with the properties that cover it.

## 2. Modules

| module | what it models | composes |
|---|---|---|
| `CentralOcppDB` | the two registry tables and every statement that changes them, as functions on tables | |
| `StationOwnership` | *abstract*: who owns a station, and which profile it runs | |
| `StationRegistry` | connections, OCPP messages, web and mobile requests on the registry | `CentralOcppDB`; implements `StationOwnership` |
| `MobileSync` | the registry with the mobiles, answers under way and lost answers | `StationRegistry` |
| `CentralRequests` | commands, the queue, routing and confirmations, with the threads that run them | `StationRegistry` |
| `TransactionLedger` | *abstract*: which transactions are on record, given, metered and stopped | |
| `TransactionLog` | the charging history, statement by statement, with crashes, failures, repetitions | implements `TransactionLedger` |
| `Accounts` | registration, logins, profiles and web sessions, with failures, stops and races | |
| `FirmwareDownload` | the firmware download in two parts and over HTTP, with a file that changes | |
| `TcpListener` | the listener for mobiles and the threads of its connections | |
| `ClsMqtt` | the MQTT client with the callbacks of its library, and the broker | |
| `Http_Light_Console` | start-up, signals, crashes and stops of the process | `TcpListener`, `ClsMqtt` |
| `StationRegistryProofs`, `MobileSyncProofs`, `CentralRequestsProofs` | theorems about the registry and about the two modules on top of it, which use the registry's invariant | |
| `TransactionLogProofs`, `AccountsProofs`, `FirmwareDownloadProofs`, `ConsoleProofs` | theorems about the module of that name; `ConsoleProofs` about the composition of main, listener and MQTT client | |
| `MC*` | instances for TLC | |

**CentralOcppDB.**  `CH_STATIONS` is a function from serial numbers to rows (`CSSerN` is its primary key), `stored`
marks the rows that exist.  `InsertNewChargeStationItem` is the claim of an unowned row or an `INSERT` that the key
refuses; `getChargeStations` includes the expiry that precedes the read; `GetAllChargeStations_UpdMob` clears the
flags it reads; `BootRows` has the code's conditional `WHERE` clause.  The bit operations on `CertFlag` are arithmetic on
`0..7`.  Columns that no property reads (names, addresses, firmware version, creation time) are left out.

**StationRegistry.**  One action per handler.  Each handler makes one call into `CentralOcppDB`, which holds the mutex
throughout, so a handler is one step and threads interleave between steps.  `last` is a history variable: when a
station was last heard, and what it said of public use.

**MobileSync.**  `GetChargeStationsFromDB_Mob` and `MobileHeartbeat` compute an answer and put it on `net`; `Deliver`
applies it to what the mobile shows, `Lose` drops it (`sendResponse` ignores the result of `send`).  A client may have several
mobiles (`ClientOf`); the code has one `UpdMob` flag per row, so the heartbeat of one clears the flag for all.  `missed`
records, for each mobile, the stations of which the server dropped news: in a lost answer, in an answer to another
mobile of the client, or by a release.

**CentralRequests.**  A command is a thread that goes through the steps of `create...fromWeb`: unique id and queue entry
in either order with the read of the address, then the search for the connection, then the send.  The undefined
behaviour in the code is a choice over its outcomes: when an `addToQueue` overlaps another operation of the queue, either may
have no effect or undo the other's, entries that were there before may be left empty (`Damaged`), and a search may miss; `raced` records the
requests that had their id by then, and `ConfirmedAsSent` excepts them.  The connection handle, which `get_ocpp_client_connection` returns
from a copy that no longer exists, may be the handle another thread is about to use (`reused`).  A crash of
the server ends the behaviour.

**TransactionLog.**  `op` is the handler of the OCPP thread with its program counter: `hist` (insert into `CSHistTbl`),
`table` (insert into the table of the message), `update` (the history row of a start gets its transaction id), `reply`.
`StatementFails` jumps to the reply with what the handler has so far, `Crash` drops the handler, `LoseConfirmation`
makes the station repeat its message.  Clearing a history waits for the mutex (`Locked`).  Rowids are one above
the largest one in the table, so they are used again after the last rows were deleted.

**Accounts.**  A registration is a thread of the web server that goes through `InsertNewClient`, `SaveEmployee`, `SendEmail`
and, when the e-mail fails, `RemoveClient` and `RemoveEmployee`; each call holds the database mutex and is one step.  A statement
that fails returns 0 and the registration goes on, as in the code.  `web_sessions` is a sequence that is searched in one step
and changed in another; the undefined behaviour of overlapping changes is a choice between keeping and losing the entry.
Ids are counted from the starting numbers of the two tables, session ids (addresses of objects that are never deleted)
from 1; a page that is left open over a restart of the server, whose id may then be that of another session, is left out, and no
property speaks of it.  Names are not empty: the code's test of a name in use would let an empty one through twice.  `regs`, `pages` and `gone` are history variables.

**FirmwareDownload.**  `TakeSize` is `getSizeOfFile`; `OpenFile`, `ReadByte` and the step that answers are `read_bin_file_to_buf` with what the
handler makes of it: the file is measured when it is opened, read byte after byte, and what is reported is the size measured (`BytesReported`), however
many bytes came.  Between any two of these steps the file may be replaced by another one (`ReplaceFile`, the open one stays what it was) or written in
place (`OverwriteFile`, the open one changes).  Bytes of the buffer that were not read have any value.  An overrun of the buffer has no
effect or ends the process; a negative size ends it too or, if it is not below the size of the header, makes an answer too short to be used.  `torn` records that the file was written in
place while it was read for the first header or for a whole image: such a read gets a crc of its own, and over HTTP there is none, so that
nothing can tell, and `ImageIsOneFile` excepts it.  The station is external: it follows the protocol that the header (size and crc of the whole
file) implies, and asks for the parts 0 and 1 only.

**TcpListener.**  A connection is a stream of which more and more arrives (`Transmit`); `ReceiveLength` and `ReceiveBody` take what is
there, up to what `recv` was asked for.  A length prefix that is not there yet is whatever the buffer held.  Left out are a prefix so large that `new` throws, outside the `try`, which
ends the process; a signal between the start of the thread and the assignment of its handle; and the difference between a failing `socket` and a failing `bind`.
`stop_tcp_listener` is its three steps; `accept`, `usleep` and `close` are where a cancelled thread ends.

**ClsMqtt.**  One pass of `doIt` is `Loop` (the library's `loop()` with the callbacks it makes, which run in the same thread) and
`AfterLoop` (reconnect, the state, subscribe).  `link` is the connection as the library and the broker see it.

**Http_Light_Console.**  `main` and the two handlers are programs over the same list of stops: `step[w]` is where main, the signal
handler and the crash handler are in it.  The signal handler runs in the main thread and suspends it; a crash handler runs in
the thread that failed, beside the others.  The stops take locks that are not recursive: `m_printf`'s mutex, and `rlock` of the thread pool in `evhtp_free`.
`main.held` is the lock that the interrupted main thread holds (`LocksOfMain`); a stop that needs it waits for ever (`Blocked`).  The lock of
the heap, which the stops need as well, behaves like that of the log.  One signal is handled at a time: SIGINT on top of
SIGTERM, or a second signal taken by another thread, is left out.  `Freed` is a server object that goes while its thread runs in it.  Since the listener and the MQTT client meet in
main only, each behaviour leaves one part of the environment free (`world`): mobiles, the broker, or signals and
failures of the start-up.

### Assumptions about the environment

* An endpoint ("ip:port") belongs to one station (`HomeOf`): it is not reused by another one.
* A station sends its own serial number, or a unique id too short to hold one.
* A mobile has one request open at a time.  A profile it sends keeps its user name and client.
* `crc32` tells the contents of the firmware file apart; a station keeps an image only with the size and crc of the first header.
* A station repeats StartTransaction and StopTransaction until they are confirmed, and sends MeterValues of its own open
  transaction only (the code neither requires nor checks the id in them).
* A client's web page registers stations with the default status, profile and address; the code stores what the message holds.
* A statement that fails raises an error.  (`FetchRow` takes some errors, such as an I/O error, for the end of the rows.)
* `CentralRequests` starts on a database with registered stations.

## 3. Runs

| run | instance | shows |
|---|---|---|
| `registry_ownership` | 2 stations, 2 clients, 3 profile ids | the registry implements `StationOwnership`: an owner changes only through a release, profiles go only to the client's own stations |
| `registry` | 2 stations, one with 2 endpoints, a clock of minutes up to 3 | accepted boots are of registered stations; stored addresses lead to their station; the public-use bit survives releases and claims; messages and connections of a station change its own row only; a station that missed at most one heartbeat is online |
| `mobile` | 1 station, 2 clients that own it in turn, 2 mobiles of one of them | what a mobile shows is old only if news is flagged, under way, or was dropped for it; once stations, web page and network are quiet, it catches up |
| `log_faults` | 2 stations, 1 session each, a crash, a failure, a lost confirmation, a logged message, clearing at any time | transaction ids are unique, on record, and agree with the history |
| `log_sessions` | 2 stations, 2 sessions each, a repeated start, 3 samples | stored samples are two minutes apart; the statistics report every finished transaction once; the history implements `TransactionLedger`: transactions stay on record, are numbered upwards and given once, to their own station and one to a session; only given ones are metered and stopped, and none is metered after its stop |
| `central_requests` | 2 stations, 2 threads, 2 requests, 2 milliseconds | requests reach their station, confirmations are taken for what was sent unless the queue was raced on, entries of the queue are erased |
| `accounts` | 2 names, 2 threads, 1 mobile, a failure, a stop | names are unique; accounts answered "OK" are complete; withdrawn names are free; a client has one employee; a page keeps its session until a page of its user is left |
| `firmware` | 6 contents of 0 to 6 bytes or no file, an offset field of 3 values, 3 changes of the file, breaking connections | an image that is kept was the file at a moment of the download, unless the file was written in place while the first answer was read; a download left alone completes |
| `service` | 1 mobile, a request of 3 bytes through a buffer of 2, 1 signal at any moment | requests are handed over whole; nothing is accepted after a stop; sockets of mobiles that are gone are closed; the process ends when asked, unless the signal found main inside a lock that the stops take; `CONNECTED` means subscribed, and the MQTT client always recovers |
| `registry_no_firmware` | 2 stations, boots without firmware version | *violation*, finding 1 |
| `registry_expiry` | 1 station | *violation*, finding 2 |
| `mobile_status` | 1 station, 1 mobile | *violation*, finding 3 |

Bounds.  Interference needs two actors, so there are two stations, two clients, two mobiles or two threads wherever the
property relates them, and one where it speaks of one alone.  Two endpoints of one station are the smallest case of a
reconnection before the late close.  A clock of minutes up to 3 has the exact boundary of the two-minute limit on both sides; `registry_expiry`
uses half minutes.  Three samples at 60 or 180 seconds contain equal times, times 120 seconds apart and a
clock that goes back; other clocks are covered by the proof.  Two requests in two milliseconds give both equal and distinct unique ids and overlapping queue
operations.  One crash, one failure and one loss each fall at every statement, in every combination.  Two registrations through two threads contain
every overlap of two registrations, of the same name or not, with a withdrawal; two sessions are enough for an index to shift.  The contents of the firmware file
have odd, even, zero, one, half-copied and, relative to the offset field, too large lengths.  A request of three bytes and a
buffer of two take two full passes of the loop or more, in every segmentation.  One signal falls at every step of start-up, loop and stop; a
second run of the stops comes from main, a third from the crash handler.  `MaxWait` is 1 instead of 40: the wait only has to be left by its count.  `Tick`, sessions,
messages and faults are bounded in guards by the `Max...` constants; the proofs hold for every value of them.

The models do not check for deadlock: all the bounded resources may be used up, and a server without requests stops
legitimately.

`FinishedReportedOnce` is checked where no StopTransaction is stored twice (`MaxLostStop = 0`) and no history is
cleared: a repeated StopTransaction inserts a second stop row, and `GetAllChargeStationsStatistics` counts both.

Every property of a passing run has a mutant: a definition marked `mutant` beside the one it replaces, with which the
property fails.

### Fairness

* `FairSyncSpec`: `MobileHeartbeat` is weakly fair, since the mobile sends its heartbeat on a timer; `Deliver` or `Lose` is weakly fair, since an
  answer arrives or its connection breaks.  No fairness is assumed of stations, of the web page or of a delivery as such:
  `MobileCatchesUp` says what follows *if* from some point on the rest is quiet and nothing is lost.
* `FairSpec` of `FirmwareDownload`: the server handles what it receives, and the station goes on or asks again.  `DownloadCompletes` says what follows if from
  some point on the file stays and no connection breaks.
* `Spec` of `Http_Light_Console`: main, the listener, the thread of each connection and the MQTT client run, and a broker that is up answers.  Nothing is
  assumed of mobiles, signals, the network or the broker's staying up.  `MqttRecovers` says what follows if from some point on the broker is up and no
  connection breaks; `ConnectionsAreClosed` speaks of mobiles that are gone, since `recv` has no timeout and a mobile that stays silent keeps its thread.

### Findings

1. A BootNotification without `firmwareVersion` (an optional field) makes `updateIPAddrFromOcppMessage2DB` build an `UPDATE`
   without `WHERE` (`CentralOcppDB.cpp:476`): every row gets the sender's address, and a station that was never
   registered is accepted, against the comment "should return 1 if Charge Station has already been registered !!!"
   (`CentralOcppDB.cpp:413`).
2. The comment at `CentralOcppDB.cpp:582` gives stations three minutes; the code gives them two.
3. Connects, disconnects and boots change `Status`, which the mobile shows, without `UpdMob` (`CentralOcppDB.cpp:738`).

## 4. Proofs

Seven modules prove, for every set of stations, clients, mobiles, threads, endpoints, file contents and times, and for every bound, what the
runs check on instances: each invariant and each action property of a passing run, and both refinements, is stated by a theorem.  The assumptions are those
named beside the constants, and two hypotheses, `BootHasFw = {TRUE}` and `Faultless`, without which the theorems that have them are false.  Every inductive invariant was checked by TLC on
a small instance before it was proved.

**Registry** (`StationRegistryProofs`).  `TypeCorrect` and `RegistryImplementsOwnership` hold without more.  `AcceptedAreRegistered`,
`AddressesLeadHome`, `PublicUseKept`, `HeartbeatTolerance` and `StationsAreIsolated` have the hypothesis
`BootHasFw = {TRUE}`: by finding 1 they are false without it.  The inductive invariant is the conjunction of `TypeOK`,
the four invariants and `HeardOnlyStored` (a station without a row was never heard and has no address, and a row is no older than what was last heard of its station).  The invariants need each
other: a heartbeat or a listing speaks of rows by serial number, a late close by address, and only `AddressLeadsHome` links the
two; a newly inserted row satisfies `PublicUseIsTheStations` only because nothing was remembered of the station before.  `StationsAreIsolated` follows
from the invariant, since `on_open` and `on_close` change the rows with the connection's address.  The refinement maps
`owner` to `ClientID` and `profile` to `ProfID`; it needs `AbsentRows`, since an `INSERT` writes a whole row and must leave the
profile of a station that had none at 0.

**Mobiles** (`MobileSyncProofs`).  `SyncTypeCorrect`, and `NoNewsForgotten` for `StaleOnlyIfMissed`.  The lemma about the registry is that a handler which changes
what the mobile is told of a row, and keeps its owner, sets `UpdMob` (`Kept`).  The property is not inductive: an answer that was computed earlier may overwrite newer rows.  `NewsInv`
therefore says the same of answers under way (`AnswersStaleOnlyIfMissed`), of a mobile whose full list is under way but owes it nothing (`NothingOwed`: that answer may be lost
without being counted as missed), and of stations whose release a mobile missed (`ReleasesMissed`: such a station may come back to its old owner).

**Central requests** (`CentralRequestsProofs`).  `ConfirmationsMatch`, `QueueBounded`, and, with `BootHasFw = {TRUE}`, `RequestsArrive`.  `RegistryStep` shows that every step is
a step of the registry, so that the registry's invariant is available: it says that the address in a row leads home, and `AddressesOfRequests`
that the thread's copy and its handle still do after the row has changed.  For the confirmations, a request is in one place (`OnePlace`: a
thread or the wire), an entry with its unique id is its own (`EntriesFit`, with `UidsGiven`) and, unless the queue was raced on in its time, is there until it is confirmed (`EntriesKept`).  `QueueBounded` counts:
entries, confirmations and threads that have yet to add their entry are together no more than the requests made (`EntriesCounted`); it uses the
library's facts on cardinalities and, for the first matching entry, the least element of a set of numbers.  `made` is a sequence indexed by the number of
the request, so that two requests with one unique id remain two.

**Transactions** (`TransactionLogProofs`).  `TypeCorrect`, `IdsAreUnique`, `IdsAreRecorded`, `HistoryAgreesWithTransactions`, `SamplesAreSpaced`, without further hypotheses and for
any number of crashes, failures, repetitions and clearings.  The inductive invariant adds, to the three invariants and `TypeOK`:
a station holds only ids that were given to it (`StationsHoldOwnIds`); a handler has no id before its insert into
`StartTrTbl` (`NoIdYet`) and one that nobody holds after it (`IdIsNew`); rows that the handler is working on are its own
(`OwnHistoryRow`, `RowsBelongTogether`), which is where the mutex matters: clearing cannot take the row away between insert and update.  `SamplesAreSpaced`
needs that a station with samples has a last one (`HasLastSample`), because the code compares with the last row alone.

`StatisticsExact` proves `FinishedReportedOnce` under `Faultless`: unique ids that name the station, no clearing, no crash, no failing statement and no
lost confirmation of a StopTransaction; repeated StartTransactions stay possible.  With any one of those faults allowed TLC finds a transaction that is reported twice or not at all.
`StatInv` counts the rows of a station: it has no more stop rows than start rows, and one less during a session (`StopsHaveStarts`), which is what the code's
comparison of the two counts relies on; a transaction is named by one stop row (`OneStopRow`), which is not yet there for an open or a new one (`OpenNotStopped`,
`NewNotStopped`) and which `StopTrTbl` follows (`StopsFollow`).

`LogImplementsLedger` needs no hypothesis: it holds through the crashes, failures and clearings that `log_sessions` leaves out.  It maps `recorded` to the stations of `StartTrTbl`, `given` to the ids that stations hold or held, and `sampled` and `stopped` to the ids that `MeterVTbl` and
`StopTrTbl` name.  Besides the invariant of the transactions it needs (`LedgerInv`): the numbers of sessions grow (`SessionsInOrder`), what a station holds or a stop row names was
given (`IdsHeld`, `StopsGiven`), and the transaction of a station that charges, or whose meter values are in the handler, has no stop (`MeteredNotStopped`).

**Accounts** (`AccountsProofs`).  Six theorems, for any number of threads, mobiles, failures and stops.  Types need `RequestsNamed`.  Sessions: ids are counted (`IdsCounted`), and the index
that a thread found and that nobody has raced with still is that of a session of its user (`IndexStands`).  Accounts: the four properties are proved together
(`AccountInv`), since each depends on what a registration under way has and has not done (`UnderWay`), on its ids being its own (`IdsGiven`, `IdsOwned`), and, for
`OneEmployeePerClient`, on what a mobile remembers of its employee row (`MobilesAgree`).

**Firmware** (`FirmwareDownloadProofs`).  `DownloadTypeCorrect` and `ImagesAreWhole`.  `ImageInv`: an answer is that to the question the station waits for (`InTurn`), a read that is not torn has bytes of one version only (`OneVersionRead`), and the header
the station checks against is that of one content the file had since the download began (`HeadersTrue`, `FileCounted`).  What decides is the crc and, where there is none (HTTP), the comparison of the size measured at the open with that of `stat`.

**The process** (`ConsoleProofs`).  `ConsoleTypeCorrect`, `RequestsAreWhole`, `ConnectedMeansSubscribed` and the action property `StoppedListenerAcceptsNothing`.  `StepOfParts` splits a step of the process into
one of the listener and one of the MQTT client.  What was read of a request is in the buffer, in order (`ReadInOrder`); the MQTT client is started once (`StartedOnce`); a stop that has passed a step
leaves the listener unable to accept, whatever the other stops do (`StopInv`).

Checked by TLC only: the liveness properties (`MobileCatchesUp`, `DownloadCompletes`, `StopsWhenAsked`, `ConnectionsAreClosed`, `MqttRecovers`), since fairness and `ENABLED` are
out of the prover's reach.

## 5. Not modelled

* *Vendored, generated or static*: libevent, libevhtp, libhpdfs, protobuf and its generated classes, websocketpp, cereal, mosquitto, the SQLite wrapper, map tiles,
  routing, the web pages.  They are more than nine tenths of the repository's lines; the server uses them through the few
  calls that the models mark external.
* *Formatting and I/O*: PDF reports, JSON layout and parsing, pages, uploads, e-mails, opening and upgrading of database files.
* *Code that the server does not run*: `MyThreadPool` (used by the superseded httplib server and the SIP code), `TcpVoIpListener` (not started by main), the
  fleet databases and the handlers whose bodies are commented out.
* *Not spoken of by a property*: the profile that a released station keeps and profile ids that do not exist (no line of the repository says what should
  happen); the second `close` of a listening socket when the listener leaves by itself between the flag and the cancellation; a SIGTERM during start-up, which stops what has been
  started and lets main go on (`StopsWhenAsked` therefore speaks of signals in the event loop), and one that finds main inside a lock of the stops, which leaves the process hanging (listed as a hazard; the property excepts it); a second start of the MQTT client, which resets the flag that stops it.
