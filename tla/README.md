# TLA+ models of quitsies

quitsies is a memcached-protocol front end to RocksDB. It has two parts:

- a TCP server that speaks a subset of the memcached text protocol (SET, ADD,
  GET/GETS, DELETE, QUIT, PING);
- an HTTP administrative API (served).

A statsd aggregator reports counters and gauges from a background thread.

This directory holds TLA+ modules of the parts whose behaviour is hard to get
right by testing, the TLC configurations that check them, and `PROJECT.json`,
which lists the components, runs, seeded mutants, the source lines each
definition models, the findings and the hazards.

All source paths below are relative to `src/src/quitsies/`.

## 1. The system

| Part | Source | State | Operations |
|---|---|---|---|
| Request parser | `tcp/request.{hpp,cpp}` | `_status` (12 parser states), `_command`, `_keys`, `_flags`, `_exp_time`, `_remaining`, `_no_reply`, `_buffer`, `_response` | `process(data,len)`: the byte loop; `prepare_response()`; `reset()`; `get_response()` |
| Store | `db/store.hpp`, `db/rocks.{hpp,cpp}` | RocksDB contents; `_db_mutex`; `_db` pointer | `get`, `put`, `del` (one RocksDB call each); `lock`/`unlock`; `open`; destructor |
| Connection | `tcp/connection.{hpp,cpp}` | socket; request; read and write timers (expiry set once, in the constructor) | `start`, `do_read` completion, `do_write` completion, timer handlers, `stop` |
| Connection manager, server | `tcp/server.hpp` only (the `.cpp` files are not in the repository) | set of live connections; acceptor; io_service thread pool | `start`, `stop`, `stop_all`, accept loop, signal shutdown |
| HTTP API | `db/rocks.cpp` `register_endpoints` | — (uses the store) | key GET and PUT/POST, stats, backup |
| Stats | `stats/*.{hpp,cpp}` | counter/gauge maps under a mutex; epoch callbacks; background thread | `counter`, `gauge`, `on_epoch`, `background_loop`, destructor |
| Options, logger, main | `options.*`, `log/logger.cpp`, `../service.cpp` | startup configuration | parse, wire, run, shut down |

How they interact:

1. The server accepts a socket and creates a connection.
2. The connection reads into a buffer and hands each read to the request's
   `process`.
3. When the request is FINISHED, `prepare_response` has already made its store
   calls on the worker thread that ran the read handler. The connection then
   writes the response (unless the command was `noreply`), resets the request
   and starts reading again.
4. Several io_service threads run handlers of different connections at the
   same time. So the store calls of different connections interleave.
5. The only synchronisation is `_db_mutex`. ADD takes it; nothing else does.

### What is hard here

These are the hazards, each listed in `PROJECT.json` at the line where it bites.

- **Reads split anywhere.** TCP can split a command at any byte. The parser
  must reach the same result whatever the split. Its size guard is per read,
  not per command (`request.cpp:199`).
- **The byte after a payload ends the command and is not consumed.**
  `process` returns there (`request.cpp:209`), so the rest of that read is
  dropped. This loses pipelined commands. If the trailing LF comes in the
  next read, it is parsed as a new, empty command. The spec (section 9)
  leaves this open to the implementer, so no run counts it as a divergence.
- **Conversions at the edges.**
  - A negative byte count wraps in `size_t` (`request.cpp:258`).
  - A bad token where `noreply` may stand becomes part of the payload
    (`request.cpp:263-275`).
- **Interleaved store calls.** Each command makes several store calls:
  - DELETE does get then del;
  - ADD does lock, get, put, unlock;
  - SET does a single put and takes no lock.

  Concurrent commands interleave between these calls. An exception inside ADD
  skips `unlock`.
- **Timers.** Both timers get their expiry once, at construction
  (`connection.cpp:51-52`), and `start` waits on them again and again.
  Timer handlers and socket handlers run on any pool thread, with no strand.
  QUIT stops the connection without cancelling the read timer
  (`connection.cpp:112`).
- **Shutdown.**
  - The epoch callback dereferences `_db` from the stats thread
    (`rocks.cpp:269`).
  - `~rocks` deletes `_db`, a pointer the constructor leaves uninitialised
    (`rocks.hpp:83`).
- **A buffer over a temporary.** `do_write` hands `async_write` a buffer over
  the string `get_response()` returns by value (`connection.cpp:130`). What
  the socket does not take at once is sent later from freed memory.
- **`std::stoll` takes a leading number.** An int option's argument is read
  up to its first non-digit, so `--tcp_threads 1O` (letter O) runs with 1.
- **Exceptions on the statsd thread.** `send_stat` throws when a message does
  not fit its 256-byte buffer (`statsd.hpp:88`), and `send_to` throws on a
  send error. Nothing on the background thread catches either, so
  `std::terminate` ends the whole process. The message length grows with the
  prefix, the name and the value. Rocks' gauges are sent first in every
  period, so a long prefix ends the process at the first flush after `open`.

### Properties that make each part correct

- **Parser:**
  - a command fully received is finished;
  - the fields and the store call it makes are the ones the protocol
    prescribes, however the bytes are split;
  - a command longer than the limit is refused;
  - a stream of pipelined commands gets one response per command, in order.
- **Store calls:** concurrent SET/ADD/DELETE/GET are linearizable with respect
  to an atomic key-value store.
- **Connection:**
  - the responses written are exactly those of the commands sent, in order;
  - a timer stops the connection only after a read or write has really taken
    longer than its timeout;
  - a connection reads or writes, never both, and writes only a finished
    command's response;
  - once its socket is closed, every outstanding operation and timer wait
    completes, so the connection is released.
- **Process lifecycle:**
  - main goes on past option parsing exactly when no `--help` was given and
    every int option starts with a number, and then with every option given
    applied and every other at its default;
  - no epoch callback uses `_db` once it is deleted, and `~rocks` never
    deletes a pointer that was never set;
  - every counter increment is sent exactly once;
  - shutdown ends, with the statsd thread joined, and never hangs;
  - metrics never end the process while it serves.

## 2. Modules

| Module | Models | Kind |
|---|---|---|
| `Request` | `request::process`, the delimiter branches, `stoi`, the size guard, the catch block, `reset`, and the non-store part of `prepare_response`. On its own it is one request fed one wire message in reads of any length. | component |
| `MCRequest` | the message alphabet, `Encode` (the spec's wire format), `Expected` (the request record the spec prescribes for each message), and malformed wires | MC |
| `AtomicStore` | the store's promise: every command, memcached or HTTP `/key`, takes effect atomically (spec 4.1, 4.5, 7, 8) | abstract spec |
| `StoreOps` | the store-calling part of `prepare_response` for concurrent connections, one action per RocksDB call, plus `_db_mutex`, and the HTTP `/key/{key}` GET and PUT/POST handlers. It refines `AtomicStore` under `kv <- store, pending <- cmd, result <- out`. | component, refinement |
| `MCStoreOps` | the commands each connection may send (`Roles`) | MC |
| `Connection` | `tcp::connection`: `start`, the read and write completion handlers, both deadline timers, `stop`, composed with `Request` (`R == INSTANCE Request`) and a client that sends whole messages | component, composition |
| `MCConnection` | the client's messages: GET, DELETE noreply, QUIT | MC |
| `Lifecycle` | `main()` in `service.cpp`, `rocks::open` and `~rocks`, the `statsd_aggregator` (its thread, `counter`, `on_epoch`, the background loop and the destructor), the statsd client's constructor, `counter` and `gauge` (`send_stat`), and `parse_arg_options` with the `read_option` of each option class | component, composition |

### How the state and actions correspond to the code

- **`Request`.**
  - `req` is a record of the request's fields. Keywords are single symbols,
    keys are short sequences of letters, and payload bytes are letters or
    CR/LF.
  - `Step` is one iteration of the loop at `request.cpp:202-295`.
  - `Process` is one call of `process`: the size guard, then the loop,
    stopping at the first FINISHED exactly where the code returns.
  - `std::stoi` is `Stoi`: an optional sign and the longest digit prefix, an
    error when there are no digits or the value is out of `int` range.
  - `_remaining` is reduced modulo `2^SizeBits`.
  - The store call a finished command would make is recorded in `response`,
    as `StoreCall(cmd, keys, data)`.
- **`StoreOps`.**
  - `pc[c]` is where connection `c` is inside `prepare_response`.
  - Each action is one RocksDB call (`DelGet`, `DelDel`, `AddGet`, `AddPut`,
    `SetPut`, `GetGet`) or a mutex operation (`AddLock`, `AddUnlock`).
  - A call's status is ok, not_found or error. The calls that may fail are the
    constant `Faults`.
  - `AddThrows` is the catch block reached from inside ADD's critical section.
  - `HttpGet` and `HttpPut` are the `/key/{key}` handlers (`rocks.cpp:63-92`):
    one RocksDB call each, with no mutex.
  - `Respond` is the connection sending the response and calling `reset`.
- **`Connection`.**
  - `req` is the connection's `_request`, and `inbox` holds the bytes the
    client sent that have not been read yet.
  - `ReadDone(n)` is the read handler for a read of `n` bytes. It runs
    `R!Process` and then takes the branch of `do_read`:
    - FINISHED with noreply: reset, wait on the write timer and cancel, read
      again;
    - FINISHED: cancel the read timer, arm the write timer, start the write;
    - QUITTING: stop;
    - otherwise: read again.
  - `ReadFails`, `WriteFails` and the `*Aborted` actions are the error
    branches.
  - `DoWrite` is `do_write`: it starts `async_write` on the temporary from
    `get_response()`. When `SlowReader` is TRUE the socket may not take the
    whole response at once (`deferred`). The rest is then sent from freed
    memory, so `Delivered` lets the client receive `Garbled` instead.
  - `WriteDone` resets the request and calls `start`.
  - `timer[t]` holds the waits not yet completed and the handlers that
    completed with success. `Expire` completes a wait once `now` reaches the
    expiry set at construction. `TimerFires` runs the handler, which stops the
    connection.
  - `ManagerStop` and `StopAll` stand for `connection_manager::stop` and
    `stop_all`. Their source is not in the repository, so they are
    spec-modelled.
- **`Lifecycle`.**
  - `config` holds the option values that decide the rest of the lifecycle:
    `--statsd_address` and `--statsd_prefix` (by their length) and
    `--db_restore_backup`. `UseStatsd`, `Restore` and `PrefixLen` are read
    from it, so the statsd choice, the restore and the message length follow
    from the command line. `ParseOptions` picks an argv from `Argvs` and
    applies `ParseArgOptions`: `--help` first, then `ReadOptions`, the read
    loop over `OptionList` in section order (`main`'s IO section, then the DB
    section of `rocks::register_options`). `BoolRead`, `StrRead` and
    `IntThrows` are the three `read_option`s. An int option is followed only
    by the length of its leading number: `std::stoll` throws when it is 0.
    The values of `--tcp_threads` and `--db_ttl` are not followed.
  - `main` is the main thread's position, and `bg` is the background loop's.
  - `db` is `rocks::_db`. Its initial value `"garbage"` is the uninitialised
    pointer. `~rocks` on garbage is undefined behaviour, modelled as a choice
    between null and a `"wild"` delete.
  - `refs` are the holders of the aggregator: main's `stats` and
    `rocks::_local_stats`.
  - `pending`, `batch` and `sent` are one counter's value in `_counters`, in
    the swapped-out map, and sent to statsd. `recorded` is history.
  - `StatBytes` is the length `snprintf` gives
    `prefix + "." + name + ":" + value + "|t"`. `CounterBytes(v)` applies it
    to the counter. `TooLong` is `send_stat`'s check.
  - `gauges` is whether `_gauges` holds the gauges rocks' epoch callback
    sets (`rocks.cpp:267-283`). `Epoch` runs the callback. `FlushGauges`
    swaps the map out and sends each gauge, before the counters, as the loop
    does (`statsd_aggregator.cpp:90-99`). A gauge's value is followed only by
    its length, chosen from `GaugeDigits`.
  - `GaugeThrows` and `SendThrows` are the exceptions leaving the background
    loop: `main` and `bg` both become `"aborted"` (`std::terminate`).
    `MakeStats` may also abort when the statsd host does not resolve.

## 3. Runs

| Run | Config | Expect | What it shows |
|---|---|---|---|
| parse_chunked | `MCRequest.cfg` | pass | All 60 well-formed messages, split into reads in every way, parse to exactly `Expected(m)` and are finished once all their bytes are read. |
| size_limit | `RequestSizeLimit.cfg` | violation | With `MaxBytes = 12`, a longer SET is accepted because each read plus token stays under the limit (finding). |
| malformed | `Malformed.cfg` | violation | Malformed commands are not all refused with CLIENT_ERROR: a negative byte count waits for 65535 bytes, and a bad noreply token becomes part of the payload (finding). |
| store_mixed | `StoreMixed.cfg` | pass | Racing ADDs on one key, a SET and an HTTP PUT on another, and DELETE/GET/HTTP GET of both, with failing puts and deletes and exceptions inside ADD, are linearizable. |
| set_add_race | `SetAddRace.cfg` | violation | A SET between ADD's get and put: both answer STORED (finding). |
| get_error_hidden | `GetErrorHidden.cfg` | violation | A read error makes DELETE answer NOT_FOUND for a present key (finding). |
| conn_serial | `MCConnection.cfg` | pass | A client that waits for each answer, sending GET, DELETE noreply and QUIT split anywhere, with timeouts, hang-ups and shutdown, gets exactly its responses in order; the connection never reads and writes at once, and once closed it is released. |
| timer_expiry | `TimerExpiry.cfg` | violation | Once the deadline set at construction has passed, the write timer stops the connection as soon as a response is being written (finding). |
| dangling_write | `DanglingWrite.cfg` | violation | With a client slow to read, the deferred part of a response comes from a destroyed string, and the client receives garbage (finding). |
| lifecycle | `Lifecycle.cfg` | pass | Over every command line of the bounds, option parsing agrees with its reference. Through every startup outcome (including an unresolvable statsd host), a shutdown racing the statsd loop and failing statsd sends, counter increments are sent exactly once, and shutdown ends: with the thread joined, or by termination, never by hanging. |
| statsd_overflow | `StatsdOverflow.cfg` | violation | With a 226-character prefix every counter message fits, but the first flush after `open` sends rocks' `rocksdb.estimate-num-keys` gauge in 256 bytes; the exception terminates the serving process (finding). |
| shutdown_race | `ShutdownRace.cfg` | violation | `~rocks` deletes `_db` while the statsd thread is about to run rocks' epoch callback, which reads `_db` (finding). |

The timers matter only when a server is given a timeout. `service.cpp` never
calls `set_read_timeout` or `set_write_timeout`, so the shipped binary runs
with both at 0, which disables them. The runs without timers use 0.

### Bounds

- **Parser.**
  - The messages cover every command, keys of length 1 and 2, payloads of
    length 0, 1 and the two-byte CR LF payload, flags 0 and 12, noreply on
    and off, and a two-key GET.
  - Reads of 1..24 bytes cover every split of every message (the longest is
    24 bytes). `SizeBits = 16` is enough: well-formed byte counts never wrap.
  - The malformed wires are one each of: a negative byte count, a bad noreply
    token on SET and on DELETE, a missing key, and bad flags.
- **Store.**
  - Three connections, one or two keys, two values, up to two commands per
    connection. The HTTP handlers run as commands of the second and third
    connection: a fourth client made the run take over 5 minutes.
  - The races need two commands on one key plus a third to observe the
    result.
  - A failing get is in its own violation run, because the code hides it.
- **Connection.**
  - Two messages per client, a clock up to 3 ticks and timeouts of 2 ticks.
    This is enough for a deadline to pass in the middle of the second command.
  - Reads of any length up to the bytes available.
  - `SlowReader` is FALSE in the passing run, where every write completes
    during initiation, and TRUE in `dangling_write`.
- **Lifecycle.**
  - Up to 3 counter increments, so increments land before, between and after
    a swap.
  - Every command line over `--help`, `--db_restore_backup`, an empty or
    non-empty `--statsd_address`, and `--tcp_threads` and `--db_ttl` each
    absent, numeric or non-numeric: 216 argvs. They cover a throw on the
    first int option and on the second, and all three outcomes of `open`.
  - The default prefix (8 characters), the 19-character counter name
    `rocksdb.get.success`, and rocks' three gauges (names of 25, 15 and 18
    characters) with values of 1 or 5 digits in the passing run. In
    `statsd_overflow` the prefix is 226 characters: the shortest with which
    the `rocksdb.estimate-num-keys` gauge of a one-digit value (an empty
    database) reaches 256 bytes, while a counter message still fits.

### Fairness

- **`StoreOps.FairSpec`.** Weak fairness on each connection's `Work`: a
  handler posted to the io_service is eventually run, and a RocksDB call
  returns. `Issue` (a client sending) is not fair.
- **`Connection.FairSpec`.** Weak fairness on each handler: read, write and
  timer completions. The clock is weakly fair up to `MaxTime`: time passes.
  The client's sends, its hang-up and the signal-driven `StopAll` are not
  fair.
- **`Lifecycle.FairSpec`.** Weak fairness on main's startup and teardown
  steps and on the background loop. `Shutdown` waits for a signal and is not
  fair, and neither are the workers' `Count` steps.

### Mutants

Each property of a passing run is broken by a seeded fault next to the
definition it mutates:

- `DelimitNumberSwapped`: flags and exp_time are stored in each other's field.
- `DelimitRetrievalSkipEmpty`: an empty token at the end of a GET does not
  finish the command.
- `GetGetReportsStatus`: GET answers a failed read's status.
- `AddLockUnguarded`: ADD does not wait for the mutex.
- `SetPutIgnoresStatus`: SET answers STORED on a failed put.
- `DoWriteAndRead`: `do_write` leaves the read outstanding.
- `WriteDoneNoReset`: the write handler does not reset the request.
- `SwapCopies`: the counters are copied out instead of swapped.
- `ReadOptionsStopsAtMissing`: the option read loop returns at the first
  option not on the command line.
- `DestroyMembersNoStop`: the aggregator's destructor joins without clearing
  `_background_running`.
- `TimerFiresRearm`: a timer handler waits on its timer again.

## 4. Plan for the rest

The cap of twelve runs is reached, so each item below replaces a run or
becomes a property of a passing one. Ordered by importance:

1. **Connection with a size limit.** After a size error, the rest of the
   oversized command is read as new commands (`connection.cpp:91`). The
   spec says the connection is torn down.
2. **No strand.** A timer handler closes the socket while the read handler
   uses it on another thread (`connection.cpp:63`). To model it, the read
   handler must be split at its store calls.
3. **Exceptions after a store effect.** `rocks::put` bumps a counter after
   RocksDB has written (`rocks.cpp:348`). An exception there answers ERROR
   for a write that happened. Inside ADD it also leaves the mutex held
   (`request.cpp:188`), where the spec (section 4) says the lock is released
   "in all cases, including on exception". It is reachable only through an
   allocation failure.

## 5. Not modelled

- **TCP server and connection manager.** `server.hpp` is the only source in
  the repository. `Connection` stands in for the server's part in a
  connection's life:
  - the timeouts it passes;
  - the io_service running every ready handler;
  - `stop` and `stop_all`, spec-modelled.
- **HTTP API, other endpoints.** `/stats`, the backup endpoints and
  `/endpoints` read RocksDB statistics or call its backup engine. Concurrent
  backup requests on one directory are listed as a hazard.
- **PING.** The spec leaves the handling of its terminator open, so the
  connection runs do not send it.
- **statsd client: timers and sets.** Nothing in the repository calls them,
  so their maps are always empty.
- **Option tokenising and the logger.** Splitting argv into options and
  arguments is done by OptionHandler, a third-party library. The model takes
  its answers (given or not, and the argument) as input. The usage text is
  output only. The logger maps a level name to spdlog.
- **RocksDB internals.** Each call is atomic, and TTL is not modelled.
- **The per-ticker gauges of `--db_debug`.** They are sent like rocks' other
  gauges. Their names come from RocksDB's ticker table, outside this
  repository.
