# ProtosTPE in TLA+

ProtosTPE is a SOCKS5 proxy: one process and one thread around `pselect`, a
state machine per client, a second port for administrators, and a table of
accounts kept in a file. This directory holds TLA+ models of it, the TLC
configurations that check them on small instances, and theorems about them that
TLAPS proves for every value of the constants. Paths below are relative to
`src/src/` of the repository unless they start with `docs/`.

## 1. Inventory

| Component | State | Operations | Correct when |
|---|---|---|---|
| byte buffer, `lib/buffer` | memory, read and write pointer | write_ptr/adv, read_ptr/adv, compact, reset | it is a bounded FIFO queue and an empty one has all its room |
| selector, `lib/selector` | table of items, greatest descriptor, read and write sets, the sets pselect returned | register, unregister, set_interest, select | what `pselect` is asked for is what is registered; a callback gets the record of the descriptor it is called for; no closed descriptor stays registered |
| state machine engine, `lib/stm` | current state | read, write and close events, jump with departure and arrival handlers | no event meets a state without a handler (it would `abort()`) |
| greeting, `server/hello.c` | parser, chosen method | hello_read, hello_write | the method is one both sides accept |
| authentication, `server/auth.c`, `auth_utils.c` | credentials, result; list of accepted methods | auth_read, auth_write, change_auth_methods | no request is served to a client that did not pass |
| request, `server/request.c` | parser, lookup in flight, list of addresses, destination socket | request_read, setup_lookup, dns_lookup, try_connect, request_write | one reply, true, before forwarding; each request is settled |
| forwarding, `server/forwarding.c` | two buffers, two closed flags | forward_read, forward_write | both streams whole and in order, the end after the data |
| end of a session, `server/closing.c`, `client_utils.c` | - | end_connection, error_handler, handle_close_client | everything is closed, unregistered, freed and counted out, once |
| acceptor, `server/master_utils.c` | - | handle_read_master | each accepted descriptor gets a record, an item and a count of its own, or the server ends |
| statistics, `server/monitor/stats.c` | counters | increment, decrement, add bytes | they count the sessions |
| accounts, `server/users.c` | table, file | create, delete, change password, login, load, save | names are unique; accounts survive a stop and a start |
| monitor, `server/monitor/` | one record per administrator | login, one request, one answer | only administrators change anything; the answer is the outcome |
| logger, `lib/logger` | two pending buffers | initialize, log, two write handlers, destroy | every line reaches standard output and the file, once and in order while writes are complete and texts fit in their memory |
| parser engine, command lines, monitor client, helpers | - | - | sequential code |

How they interact: `main` registers two listening sockets and calls
`selector_select` for ever. An iteration copies the interest sets, calls
`pselect`, and scans the descriptors upwards; for each reported one whose item is
still in use and still interested it calls the item's handler with the item's
data. For a client that is `stm_handler_read` or `stm_handler_write` of the record
`client_t`, which both descriptors of a session share; the state's handler returns
the next state, and `jump` runs the arrival handler of that state. Handlers set the
interests of their own and of the other descriptor. Name lookups run in a thread
of libc (`getaddrinfo_a`) and are polled; connections proceed in the kernel. Signals
only clear `running`.

What is hard here:

* one thread, but two descriptors per session and several sessions per iteration:
  the answer of `pselect` is used while earlier callbacks of the same iteration
  close descriptors, free records, reuse numbers and overwrite interests;
* partial reads and writes, full buffers, and half-closed connections in both
  orders;
* a lookup and a connection attempt that end at any moment, and a retry with the
  next address;
* errors that end a session from any state; running out of descriptors;
* a stop in the middle of anything, and what the next run finds in the file.

The hazards, each at its line, are listed in `PROJECT.json`.

## 2. Modules

| Module | What it is |
|---|---|
| `Buffer` | the operations of `buffer.c` as functions on buffer values |
| `BufferADT` | a state machine of these operations; refines `Fifo` |
| `Fifo` | abstract: a queue |
| `Forwarding` | one session from FORWARDING to its end: `forwarding.c`, `closing.c`, the dispatch of `stm.c`, the scan of `selector.c`, the kernel and the two peers; uses `Buffer` twice; refines `Pipe` |
| `Pipe` | abstract: what two peers see, a stream in each direction |
| `Session` | the sessions that share a server, from accept to the end |
| `Accounts` | the table of accounts and its operations, as operators |
| `Users` | the accounts over the runs of the server, with their file; uses `Accounts`; refines `Directory` |
| `Directory` | abstract: one map from names to accounts, in memory and on the disk |
| `Monitor` | the sessions of administrators, on the accounts and the list of methods; uses `Accounts` |
| `SelectorTable` | the selector's table and its operations, as operators on a record |
| `Logging` | the logger and any other descriptors on one table; uses `SelectorTable` |
| `MCBuffer`, `MCSession`, `MCUsers`, `MCMonitor`, `MCLogging` | values for TLC |
| `BufferLemmas`, `BufferTheorems`, `ForwardingTheorems`, `SessionTheorems`, `CommonLemmas`, `UsersTheorems`, `MonitorTheorems`, `LoggingTheorems` | the proofs |

Operators named for a fault (`RecvDataSilent`, `DestroyUncounted`, ...), commented
"With a fault", are variants of the definition that follows them. Nothing uses
them; put in place of the definition they stand beside, each breaks one property,
which shows that the property depends on the code (`mutants` in `PROJECT.json`).

### Buffer, BufferADT

A buffer is its memory and two offsets. `Fill` stands for the store by `recv` at
`buffer_write_ptr` together with `buffer_write_adv`; `ReadAdv` compacts when the
pointers meet, as `buffer_read_adv` does. `Content` is what lies between the pointers,
and the state of `Fifo` that a buffer stands for.

### Forwarding

One action per path of `forward_read` (`ReadFull`, `RecvData`, `RecvEof`, `RecvAgain`,
`RecvError`) and of `forward_write` (`WriteNothing`, `SendData`, `SendAgain`,
`SendError`). Each includes the interests it sets, the return value, the jump and
the arrival handler: `JumpDone` runs `end_connection`, which does nothing while the
flags and buffers say the session is not finished; `JumpError` runs `error_handler`.
`Select` lists the callbacks of one iteration in scan order (`first` is the side
with the smaller descriptor) and the handlers consume the list, with the interest
looked at again before each (`Called`, `NotCalled`). Between two callbacks the peers
go on sending, reading, finishing and failing. The n-th byte of a peer is the number
n, so content shows loss, repetition and order.

`EAGAIN` is possible whenever a handler calls `recv` or `send`: nothing is assumed
about whether a report by `pselect` still holds, but that `recv` goes on returning the end
of a stream once it has returned it. `send` to a side that was shut down
fails, as the kernel's does. The records the program reads after it freed them are
not modelled here: in forwarding the only item of a freed session is unregistered.

### Session

`ses[s]` is the record of session `s` and the ghost `told`, the messages its client
was sent; `sock[f]` is what the kernel has behind descriptor number `f`; `item[f]` is
the selector's item; `todo` the callbacks of the current iteration. The kernel hands
out the lowest free number, so numbers are reused at once. `Select` may report any
subset of the ready descriptors. `Called(s, f, op)` says that the item of `f` holds
`s`, whether or not `s` still exists: `CallDangling` is the callback for a record that
was freed, after which nothing is known, so the model ends the process (that is
what was observed of the server too: a connection to a closed port ended it). `Serving`
is false while a closed descriptor has an interest: `pselect` answers `EBADF`, no
callback runs, and no code repairs it.

`Destroy` is `end_connection` with the unregistering and its close handler; `Fail` is
the arrival in ERROR. `try_connect` is split by what it finds: `ConnectReported` (an
attempt without an error so far), `ConnectStarts` and `ConnectFails` (no attempt yet, or
a refused one, which is closed and not unregistered). A `register` that fails because
the number's item is in use is the reason `ConnectStarts` asks for an unused item;
otherwise the loop goes on and ends in `ConnectFails`.

Abstractions: a greeting is the set of methods it offers; the accepted methods are a set,
which the administrator replaces by any of `MethodSets` at any moment, also between the
greeting of a client and its answer; credentials are right or
wrong; a name or an address is a number of addresses to try. While a session forwards
it may do anything `Forwarding` does to the rest of the server: change the interests
of its two descriptors, reach DONE without being destroyed, end, or fail. `ForwardOn`
sets both interests for both descriptors, which allows every callback the code
allows and more; safety properties of the other sessions are checked against more
behaviours than the code has. The listening socket has a smaller number than any
session's, so accepting happens at the start of an iteration. Failed allocations
are not modelled.

### Accounts, Users

`Accounts` has the array of `users.c` as a sequence and `user_create`, `user_delete`
and `user_change_password` on it. In `Users`: the table, the text of the file, the text it
will have once the process ends (`written`), and the status of the process, from the accounts
of the option `-u` (`AddOption`) on.

A text is a sequence of characters, as far as `parse_user` tells them apart: the marks of a
level, the delimiter, the end of a line, the other bytes below 32 (`"control"`), those from 128
on (`"negative"`, since `char` is signed and a negative one is taken for the end of the file),
and letters. `ADD_USER` and `CHANGE_PASSWD` take all of these, because `valid_user` refuses
every text and `user_create` is called for what it refuses. `Loaded` is `load_users`, a
character at a time: each place of `parse_user` and its two helpers that calls `fgetc` is a mode
of the `Reader`, and one operator (`ReadLevel`, `ReadName`, `ReadPass`, `Skip`) says what the
next character does there. A text may be anything: what `Saved` wrote, a prefix of that, or what
was shipped.

Opening the file at a stop empties it, and each block of the stream that fills up goes to it;
the rest is in memory until `main` returns, since the stream is never closed. Where the blocks
end is left to `Flushed`, the numbers of characters that may be on the disk before the process
ends: after a crash in between, the file is a prefix of the text, cut anywhere.

`Directory` has no positions, no scans and no lines: `accounts` is a function from names to
passwords and levels, `disk` and `pending` are the functions that the next start would find if
the server ended here, or returned from `main`. `Stop` keeps what was found if all of it is
plain (names and passwords that are read as they were written), and until the return from `main`
the disk has a part of it, of which one account at most is not whole (`Strange`). `AccountsOf`
is what the scans for a name make of an array. `AccountsAreADirectory` says that `Users`
implements it, and, since an implementation may answer one request by doing another, that each
request is that request of the directory (`RequestsMeanAccounts`).

### Monitor

`conn[s]` is the `monitor_t` of session `s`, its interests, and ghosts: `told`, the bytes
its client was sent; `login`, the level of the account it logged in to; `done`, whether
its request took effect; `fate`, how it ended. The handlers take one byte per callback;
an action takes what the parser makes an event of (the login, the type, an argument,
the terminator), so a session can be interrupted between any two of them by the others,
by a lost connection (`AuthGone`, `ReqGone`, `ReqWriteFails`) or by the end of the server
(`Stop`, `Exit`). What the arguments say is chosen at the terminator, when
`handle_request` first looks at them.

`LoginFails` sends what the code sends: the status byte, the byte of the departure
handler, the error of `monitor_error_arrival`. `Handled` is the return of
`handle_request`. `methods` is the array of `auth_utils.c`, entry by entry, with what a
longer or a refused list left behind; `AcceptedMethods` is what the scan of
`accepted_method` meets, among the entries its `int8_t` index can reach (`Scanned`: up to
`LastIndex`, 127 in the code, of an array of 255), and `ScanEnds` says that it meets the end of
the list there. `Leave` is the departure from MONITOR_REQ, with
`monitor_req_finalize`: without an argument there is no terminator in the array that
`malloc` left, so one of its outcomes is a broken process.

`send` of one byte is taken to succeed or to be ignored (the code ignores it), except
for the answer, whose failure the code handles.

### SelectorTable, Logging

The table is a record: the items, its size, `max_fd` and the two prototype sets. Each
operation of `selector.h` is an operator that returns the new table, because one
callback may call several (`logger_handle_write` sets two interests). `overrun` says that
an item outside the table was touched.

In `Logging` an entry, one call of `log_to_stdout`, is a sequence of cells `<<entry, position>>`
and a date a sequence of cells of entry 0, so cutting, repetition and loss show. The last cell
of an entry is a newline, and so are those in `Breaks`: names and passwords are logged as they
are. `text` and `fileText` are the two buffers. `StdoutWrite` is `logger_handle_write`: it
copies the whole text to the buffer of the file (`CopiedToFile`) and then writes everything
(`WriteAll`), a part (`WritePart`) or nothing (`WriteNothing`). After a short write the code
keeps the last `remain` bytes of the text without dates, where `remain` counts the text with
dates (`Kept`); when that is more than there is, the process is broken. It is also broken
(`Overrun`) by a text with more lines than the memory of the dated text has room for, which is
that of one date for two bytes and two more (`Overruns`); where the memory behind it is not
used, nothing happens, so the other outcomes stay possible. `FileWrite` is the handler of the
file. `Others` is the rest of the server: any use of other descriptors of the same table, valid
or not, and their closing, registered or not (`closed`). While a closed descriptor is in the
sets, `pselect` fails (`Fails`) and no handler is called.

## 3. Runs

| Run | Checks | Bounds |
|---|---|---|
| `buffer` | `TypeOK`, `EmptyHasAllRoom`, refinement of `Fifo` | 4 cells, 2 byte values: room for partial reads, overlapping and disjoint moves |
| `forwarding_safety` | 7 invariants, `FinishedGetNothing`, refinement of `Pipe` | 4 bytes each way, buffers of 3, kernel window of 1: a buffer fills, is emptied in parts and refilled in between, and bytes are pending when its source finishes. One connection may fail, on the side with the smaller or the larger descriptor; 2.1 million states |
| `forwarding_live` | `Delivery`, `EofPropagates` under `FairSpec` | 2 bytes, buffers and window of 1 (every byte blocks the next), no failures |
| `forwarding_drain` | `DrainOnClose`, violated | as above |
| `session_safety` | 8 invariants | 2 sessions, 3 descriptors, 2 addresses: two sessions that connect need four descriptors, so the numbers run out and are reused. The accepted methods change between the passwords only, no authentication only, and both (`MethodSets`); 1.1 million states |
| `session_progress` | `RequestSettles` under `FairSpec` | 1 session, 3 descriptors, 2 addresses |
| `session_success`, `session_errors`, `session_orderly` | one documented promise each, violated | as `session_safety` |
| `users_safety` | `TypeOK`, `NamesUnique`, `AccountsSurvive`, refinement of `Directory` (`AccountsAreADirectory`) | 2 names, one with the delimiter that is read back as the other; 2 passwords, one with a control character, so that its line is not read; a table of 2, so that it fills and names fall together in it; a shipped file that mixes names cut at a byte from 128 on, a line that is dropped and a load that ends before the end of the file; a crash within a stop with nothing on the disk or with a text cut inside a line (`Flushed`); any number of restarts |
| `monitor_safety` | `TypeOK`, `FirstByteTrue`, `OutcomeKnown`, `MethodsAsAnswered`, `FinalizerDefined`, `ChangesByAdmins` | 2 sessions, 2 names, 2 passwords, lists of up to 3 of 3 methods in an array of 4 (so that lists fill it, are shortened and are refused in the middle), an index that reaches three of the four entries (`LastIndex`), so that the longest list is one the scan runs out of, one argument too many for the requests with fewer than three (`MaxArgs`); 2.6 million states |
| `logging` | `TypeOK`, `AskedIsRegistered`, `NoOverrun`, `LogIsExact`, `NothingMissing`, `LoggerAwake`; `LogReachesFile` under `FairSpec` | 3 entries of 3 cells (`MaxLines`), the first two of newlines only, which together overrun their room, and the third an ordinary line; dates of 1 cell; one write that falls short (`MaxStalls`; more than one, only in the theorem); a table asked for 3 of at most 4 items, with the descriptor 3 that equals what was asked, and -1 and 4, which are no descriptors, any of them closed at any moment; 36,000 states |

What the passing runs show:

* the two streams of a session are never damaged (`NoLossNoReorder`), the end of a
  stream follows all of it (`ShutdownAfterDrain`, `CleanEndIsComplete`), a session fails
  only if a connection did (`ErrorOnlyAfterReset`), and although both handlers
  overwrite both interests no descriptor of a side whose own end has not been read is
  forgotten (`NoLostWakeup`, `Delivery`, `EofPropagates`);
* a side whose end has been read is forgotten: it gets nothing more, although it may go on
  receiving and bytes are pending for it (`FinishedGetNothing`). Its interest is taken away with
  its end; the other side's data gives it READ and WRITE, but at the end of a stream READ is
  always ready, is served first, and takes both away again;
* between sessions, open descriptors and items never get mixed up (`DescriptorsOwned`),
  although numbers are reused while stale items exist, and the counters follow
  (`StatsMatch`);
* nobody gets a lookup, a connection or a byte forwarded without having passed the
  negotiated authentication (`AuthGate`), and the handshake is answered in order,
  whichever descriptor the handlers run for (`RepliesInOrder`);
* no lookup in flight is freed (`LookupOwned`) and each request is settled while the
  server serves (`RequestSettles`);
* what goes wrong is confined: the server aborts only for a session left in DONE with
  bytes pending (`AbortsOnlyAfterForwarding`, `UndestroyedOnlyWhenPending`), and stale
  items come only from a refused attempt of `try_connect`, hence only from authenticated
  clients (`OnlyRetriesLeaveItems`);
* the accounts of an orderly stop are those of the next start if no name has the delimiter and
  no name or password a byte below 32 or from 128 on (`AccountsSurvive`): with one, its own and
  other accounts may be lost or changed; names stay unique and the table stays within its
  array, whatever is read (`NamesUnique`, `TypeOK`);
* the array and its file are one map from names to accounts: a request changes the account
  it names and no other, wherever that stands in the array and whatever was deleted before;
  a crash loses what changed since the start, or, once `users_shutdown` has run, all but a part
  of the accounts, one of them perhaps not whole (`AccountsAreADirectory`);
* a monitor client that reads 0 first is logged in as an administrator, although a
  refused login is answered twice and the second byte is 0 (`FirstByteTrue`); nobody
  else changes anything (`ChangesByAdmins`); two zeros mean that the request took
  effect, and a client that was cut off after a request that took effect is the only
  one that does not know (`OutcomeKnown`); until a list is refused, the methods that are
  accepted are those of the last list, and the scan for them ends, if that list has no more
  entries than its index can count (`MethodsAsAnswered`); the arguments are freed up to
  a terminator that is there, but for one case (`FinalizerDefined`);
* `pselect` is asked for exactly what is registered (`AskedIsRegistered`), the table is
  large enough (`NoOverrun`), although `selector_register` would not grow it for a descriptor
  equal to its size;
* the log is exact as long as standard output takes whole texts and none of them overruns
  its memory (`LogIsExact`); short writes repeat bytes but lose none, and nothing but them and
  such texts breaks the process (`NothingMissing`); what is pending is waited for and
  no handler is called for nothing (`LoggerAwake`), and the file gets every entry that is
  logged while the server serves, unless `pselect` fails (`LogReachesFile`).

`CHECK_DEADLOCK FALSE` in the runs of `Forwarding`, `Session`, `Monitor` and `Logging`: a
session ends, the process may exit, stop, break or abort, and a server whose sets hold a
closed descriptor does nothing any more.

The table of accounts holds 2 in `monitor_safety`, with 2 names: there it is full exactly
when every name is taken. A full table that refuses a free name is a case of
`users_safety`, where the shipped file brings a name that is not one of the requests'.

### Where code and documents disagree

The report is `docs/Informe TPE Protos - G10.pdf`.

1. `DrainOnClose`. The report (pages 4-5) promises that what is pending is drained
   when a connection closes. `forward_read` returns DONE when the second side finishes
   whether or not bytes are pending (`forwarding.c:81`); `end_connection` then does
   nothing, and the next event of the session has no handler: `abort()`. What is pending for the
   side that finished first is not sent before either (`FinishedGetNothing`, `forwarding.c:93-95`
   and `forwarding.c:113`).
2. `SuccessMeansConnected`. `try_connect` takes `SO_ERROR == 0` for the end of the
   attempt (`request.c:504`); it is 0 during the attempt too.
3. `ErrorsAreReported`. `error_handler` compares the state it is given with the states
   a request fails in (`closing.c:36`), but it is always given ERROR: the reply it
   prepares is never sent.
4. `OrderlyEnd`. `try_connect` closes a refused socket without unregistering it
   (`request.c:520`).

Seen while reading, without a run that is violated:

* the answer 0xFF is followed by AUTH_READ instead of the end (`hello.c:182`); `errno` is
  read after `recv` returned 0 (`hello.c:93`, `auth.c:112`, `monitor_auth.c:111`); bytes that
  follow the request in the same `recv` are dropped (`request.c:269`);
* an empty table is not written (`users.c:275`), so the last account that is deleted is
  back after a restart; a full descriptor table ends the server (`master_utils.c:33`);
* a refused list of methods has replaced the first entries of the old one, and its end
  too if it was short (`auth_utils.c:25`), after which the scan of `accepted_method` may
  leave the array; the index of that scan is an `int8_t` (`auth_utils.c:43`), which wraps
  for lists of more than 127 entries, though they are stored and answered for;
* names and passwords with bytes below 32 or from 128 on are accepted and not read back
  (`users.c:63-98`), and one of the latter may end the load for all accounts behind it;
* the room for a dated text is that of one date for two bytes (`logger.c:44`), which a text of
  short lines overruns;
* a refused login is followed by the byte of the departure handler and the error
  (`monitor_auth.c:100`); a session that is stopped in the middle of its login is told 0;
  a request that is refused gets no answer at all;
* the array of arguments is not initialized, so a session that ends before its first
  argument frees what `malloc` left (`monitor_req.c:105`); more arguments than its size
  overrun it (`monitor_req.c:156`), beyond the bound `MaxArgs`; a type that does not exist
  reads past the table of arities (`monitor_req.c:141`);
* the log lines that are pending when the server stops are lost (`logger_flush` is never
  called); a short write of the log keeps the wrong tail (`logger.c:111`);
* `selector_register` does not grow the table for a descriptor equal to its size
  (`selector.c:333`), and the search for the descriptor that caused `EBADF` stops before
  `max_fd` (`selector.c:532`).

## 4. Fairness

`Forwarding`: the loop is weakly fair (`while (running)` with nothing else to do);
peers that are connected read (weak fairness of `PeerRead`); `RecvData`, `RecvEof` and
`SendData` are strongly fair, because a handler that is called again and again does not
get `EAGAIN` for ever from a descriptor `pselect` reports. Nobody is forced to send, to
finish or to fail.

`Session`: the loop is weakly fair; each descriptor that is ready again and again is
reported in the end (strong fairness of `Select` with the descriptor in the result,
`pselect` reports all that are ready); the resolver answers and an attempt to connect
ends (the timeouts of libc and of TCP). Clients are not assumed to do anything.

`Logging`: `StdoutWrite` and `FileWrite` are weakly fair, because the loop calls the handler of
a descriptor that is reported in every iteration in which `pselect` does not fail; their guard
(`Writable`) is false while it fails (`Fails`), so nothing is assumed of a server whose sets
hold a closed descriptor, and `LogReachesFile` has the escape that goes with it. Short and
failing writes to standard output are bounded by `MaxStalls`, so that in the end a write is
complete; writes to the file take at least one byte.

`Monitor` and `Users` have no liveness: everything waits for a client.

`Delivery` and `EofPropagates` are stated with the escapes the code needs: a failed
connection, or a receiver that has itself finished: once its end was read it gets nothing
more (`FinishedGetNothing`).

## 5. Proofs

TLAPS proves every safety property of every passing run, invariants, action properties
and refinements, for every value of the constants that the named assumptions admit.
(The four properties whose runs are violated are false, so there is nothing to prove of
them.) Each theorem below has the inductive invariant of its module as its basis; TLC
checked each of these on the run of that module before it was proved. A step of a
proof that the invariant is kept has one lemma per action and one step per conjunct the
action can disturb.

| Module | Theorems | Assumptions |
|---|---|---|
| `BufferTheorems` | `PointersInOrder`, `EmptyBufferHasRoom`, `BufferIsFifo` | a buffer has a positive size |
| `ForwardingTheorems` | `InductiveInvariant`, `TypeCorrect`, `StreamIntegrity`, `ShutdownIsOrderly`, `WakeupsAreKept`, `FinishedAreForgotten`, `ErrorsComeFromPeers`, `CleanEndComplete`, `UndestroyedIsPending`, `SessionIsPipe` | positive buffer size and window, any number of bytes, any set of unreliable peers |
| `SessionTheorems` | `SpecInv`, `SessionTypes`, `StatisticsCount`, `OneOwner`, `OnlyAdmitted`, `InOrderOnce`, `LookupsOwned`, `AbortsExplained`, `StaleItemsExplained`, `SessionsApart`, `EndedIsEnded` | any number of sessions, descriptors and addresses (`SessionAssumption`) |
| `UsersTheorems` | `SpecInv`, `TypeCorrect`, `NoNameTwice`, `OrderlyStopKeepsAccounts`, `UsersImplementDirectory` | `AccountsAssumption`, `UsersAssumption`: letters are none of the special characters; any names, passwords, shipped text and blocks |
| `MonitorTheorems` | `InductiveInvariant`, `TypeCorrect`, `FirstByteIsTrue`, `OutcomeIsKnown`, `MethodsAreAsAnswered`, `FinalizerIsDefined`, `AdminsChange` | lists fit in the array of methods, the index of its scan reaches its second entry at least and not all of it (`LastIndex`), and the accounts the server starts with fit in theirs |
| `LoggingTheorems` | `TableConsistent`, `AskedAreRegistered`, `TableIsLargeEnough`, `LoggerInvariant`, `LoggerTypes`, `WaitsForItsOutputs`, `EveryLineOnce`, `ShortWritesLoseNothing` | `SelectorAssumption`: the first table has an item for each descriptor (`main` asks for 1000 and gets 1025, for 1024 descriptors); the logger's two descriptors are its own; entries and dates of any positive length, any line breaks |

**Buffer.** `BufferLemmas` states what each operation does to the pointers and to `Content`
(`Fill` appends, `ReadAdv` drops from the front, `Compact` changes nothing); the
refinement of `Fifo` follows operation by operation. `Forwarding` uses the same lemmas.

**Forwarding.** The invariants are not inductive by themselves. `ShutdownAfterDrain` needs to
know that a shutdown only follows a closed flag (`ShutOnlyAfterClose`) and that a flag is set
only at the end of the stream with everything received (`EofSeen`); then what was sent on plus
what is pending is the whole stream, and nothing is pending. `ErrorOnlyAfterReset` needs that
nothing is ever pending for a side that was shut down, which follows from the same.
`NoLostWakeup` and `UndestroyedOnlyWhenPending` need `StateAgrees`: while a session forwards at
least one side is open, and DONE is left undestroyed exactly when `Finished` is false.
`FinishedGetNothing` is an action property: that no `SendData` or `WriteNothing` happens for a
side whose end was read. It needs the order in which the selector serves the two events of one
descriptor (`ReadBeforeWrite`), that such a side waits for nothing or for both, with room in its
buffer (`FinishedWaits`), and that before its WRITE there is its READ still to be served, unless
it waits for nothing (`FinishedAreReadFirst`). The refinement of `Pipe` maps each action to a
step of one of the two streams or to a stutter; a destruction is the end of both streams of the
pipe, which is allowed there because of `CleanEndIsComplete` in the next state.

**Session.** What a client was told determines, with its state, what was agreed and
decided, so the invariant states the history of `told` per state: before the answer to the
greeting it is empty, then it is a `Negotiated` method, then an `Admission` (no
authentication wanted, or wanted and passed), then an `Answer`. The interests are a function
of the state (`Watched`), except while the session forwards. `Holds` says that a live session
has its descriptors open and in items with its own record, and `FdInv` says the
converse of every descriptor: an item with data belongs to a live session's descriptor, or is
one that a session left behind (`LeftBy`), which needs a destination, hence an admission. That
is what makes a reused number harmless: `register` fails on an item in use. `Counted`
needs that the sessions ever born are finitely many.

`SessionsApart` and `EndedIsEnded` are about steps. `StepOf(s)` says that a step changes the
record of `s` alone, and sockets and items only where they are those of `s` or nobody's
(`Within`, `Mine`). Each handler keeps to that, because what it closes, unregisters or sets an
interest of is the descriptor it was called for or one of its record, and a new descriptor is
free; the invariant (`Ownership`) says that none of these is another session's, even when the
handler was called for an item that was left behind. TLC finds both to hold with the
constants of `session_safety`; no run of this directory repeats it.

**Users.** An orderly stop with accounts leaves `written`, and then `file`, equal to
`Saved(kept)`; what has to be shown is that loading what was saved gives the same table, and that
loading a prefix of it gives a part. Reading a line of plain text (`LineOf`) character by character
takes the reader from the start of a line to the next with one account more, because
`user_create` takes each: the table that was saved had each name once and fitted in its array,
`IsTable`, which every operation keeps, and loading too, whatever the text is. Reading is a
recursive function on the number of characters, and induction rules that take an operator are
out of the prover's reach: a statement about every number of characters is proved by a least
number at which it fails (`Least` of `CommonLemmas`), once for the characters of a name and a
password, once for the lines of a text. A prefix of a saved text is a number of whole lines and a
prefix of one more, which is read as one account at most, the only one that may be `Strange`
(`LineRead`, `NextLine`, `SavedReadsAs`, `LoadedSaved`, `LoadedCut`).

The refinement of `Directory` needs the same `IsTable`: because no name is in the array twice, the
scan for the name of an account finds that account (`AccountFound`), and there are as many
names as accounts (`NamesCount`), so that the array is full exactly when the map is. Each
operation then changes the map as it should: `CreatedAccounts`, `ChangedAccounts`, and
`DeletedAccounts`, for which the accounts behind the deleted one are followed to their new
places (`DeletedCells`). What the text of an orderly stop is
worth to the next start is always a directory, and the same one if all is plain.

**Monitor.** The outcome of a session that has ended depends on what it had been told and
had done before; `SessionInv` says it per state: a session in MONITOR_REQ logged in as an
administrator, was told one 0, has `done` set exactly if it waits to write, and has read
nothing if its array has no terminator. `OutcomeKnown` also needs that an operation on
the table changes it exactly when it answers success (`CreatedTable`, `DeletedTable`,
`ChangedTable`), which for a password rests on the scan for a name stopping at the first
match (`IndexIsFirst`). `MethodsAsAnswered` needs that what is stored of a list is a prefix
of it (`StoredPrefix`) and that the end is stored behind it, within the array
(`ListStored`); from this follows where the scan ends, and whether its index gets there.

**Selector's table and logger.** `TableInv` says that the prototype sets are what the items
want and that `max_fd` bounds the items in use; each operation keeps it (`RegisteredTable`,
`UnregisteredTable`, `InterestSetTable`), which needs that `items_max_fd` finds the greatest
descriptor (`Greatest`). The logger adds what its two items want (`Watched`; an operation on
another descriptor leaves them alone, `ItemAfter`), and, until the first short write, a number
of entries that standard output has, the others being in the buffer (`WholeLines`). Putting
dates into a concatenation is putting them into its parts, if the first part ends with a line
(`DatedConcat`); this and the rest about dated texts comes from lemmas about `FlattenSeq`, some
of them in `CommonLemmas`, again by a least counterexample (`FlattenConcat`, `JoinsGrow`). After
a short write `NothingMissing` is kept for a reason that is easy to doubt: what was written of
the dated text has, wherever it is cut, at least the cells that the tail which is kept lacks,
because a cell is as far from the end of the dated text as it is from the end of the text, or
farther (`DatedPositions`, `ShortWriteCells`).

Only model-checked: liveness (`Delivery`, `EofPropagates`, `RequestSettles`,
`LogReachesFile`), which is out of the prover's reach.

## 6. Not modelled

* The notification of blocking jobs in the selector, with its threads and the signal:
  nothing calls it. The per-iteration copies of the prototype sets are in `Forwarding` and
  `Session`, which keep interests per descriptor instead of the table of `SelectorTable`.
* `logger_flush`, which nothing calls; failing allocations everywhere; `send` of a single
  byte to an administrator that would block.
* The counter of bytes; lengths of names and passwords (`parse_user` at `users.c:79`).
* The parser engine: a table interpreter; what the tables accept is part of the actions
  of `Session` and `Monitor`. The command lines and helpers: sequential code that runs
  before anything else or formats text.
* The monitor client: a sequential program; only how it reads the first byte
  (`ReplyAccepts`).
* The drop of the bytes that follow a request (`request.c:269`) and `errno` after
  `recv` returned 0: noted above; the second makes `AuthMore` of `AuthGone`, which the
  model allows as one more byte.

## 7. Plan

Done: all models, and theorems for every safety property of the passing runs.

Next:

1. Theorems about steps in `Monitor`, as those of `Session`: what one administrator's
   session changes of what another one was told (nothing) and may still do.
2. The hazards without a property: `errno` after the end of a stream (`hello.c:92`), the
   bytes behind a request (`request.c:269`), the length of a name in the file
   (`users.c:79`), and what holds of the accepted methods after a refused list
   (`auth_utils.c:25`).
