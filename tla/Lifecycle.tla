----------------------------- MODULE Lifecycle -----------------------------
(***************************************************************************)
(* The process lifecycle of quitsies: main() in src/src/service.cpp, the    *)
(* RocksDB store's open() and destructor (db/rocks.{hpp,cpp}) and the       *)
(* statsd aggregator's background thread (stats/statsd_aggregator.{hpp,cpp}). *)
(*                                                                         *)
(* Three threads: main, which builds the objects, serves, and on return    *)
(* destroys its locals in reverse order of declaration (db is declared     *)
(* first, so it goes last); the aggregator's background loop, started by    *)
(* its constructor and joined by its destructor; and the worker threads of  *)
(* the servers, which bump counters while serving (one step per counter()). *)
(* The aggregator is shared (aggregator_ptr) by main's local and by the     *)
(* store's _local_stats; it is destroyed when the last of them lets go.    *)
(* Only the counters map is followed; sets, timers and gauges go through    *)
(* the same swap-and-send.  The statsd client (stats/statsd.{hpp,cpp})      *)
(* formats each stat into a 256-byte buffer and sends it by UDP; an         *)
(* exception it throws on the background thread, or out of main() from     *)
(* its constructor, is never caught and ends the process (std::terminate). *)
(* The command line is read by parse_arg_options (options.{hpp,cpp}): the   *)
(* options that decide the rest of the lifecycle (--statsd_address,         *)
(* --statsd_prefix, --db_restore_backup) are followed, and the int options  *)
(* for std::stoll's throw.                                                  *)
(***************************************************************************)
EXTENDS Integers, Sequences

CONSTANTS
    Flags,        \* the flags argv may carry: a subset of {"help", "db_restore_backup"}
    IntArgs,      \* arguments given to an int option: the length of their leading number
    AddressArgs,  \* lengths of the arguments given to --statsd_address
    PrefixArgs,   \* lengths of the arguments given to --statsd_prefix
    MaxIncs,      \* how many counter increments the workers make
    NameLen,      \* length of the counter's name ("rocksdb.get.success": 19)
    Unresolvable, \* the statsd host may fail to resolve
    SendFails,    \* udp::socket::send_to may fail (no route, buffer space)
    GaugeDigits   \* the lengths the decimal values of rocks' gauges may have

VARIABLES
    config,     \* the option values main's locals and rocks' members hold
    main,       \* where main() is
    db,         \* rocks::_db: "garbage" (never set), "null", "open"
    refs,       \* the holders of the statsd_aggregator: a subset of {"main", "rocks"}
    registered, \* open() has registered its epoch callback with the aggregator
    running,    \* statsd_aggregator::_background_running
    bg,         \* where the background thread is
    pending,    \* the counter's value in _counters
    batch,      \* the value swapped out and being sent
    sent,       \* the total sent to statsd
    recorded,   \* the total passed to counter() (history)
    gauges      \* _gauges holds the gauges rocks' epoch callback set

vars == <<config, main, db, refs, registered, running, bg, pending, batch, sent, recorded, gauges>>

MainPcs == {"options", "stats", "open", "serve", "release", "dtor_rocks",
            "dtor_members", "join", "exited", "aborted"}
BgPcs == {"none", "check", "epoch", "gauges", "swap", "send", "sleep", "done", "aborted"}

-----------------------------------------------------------------------------
(* The command line.  A string option is followed by its length, an int    *)
(* option only for whether std::stoll throws: an argument whose leading     *)
(* number has length 0 (no digit) throws std::invalid_argument, any other  *)
(* is read up to its first non-digit.  A flag takes no argument.           *)
NotGiven == -1

(* The option values before parsing: main's locals and rocks() members.    *)
Defaults == [statsd_address |-> 0, statsd_prefix |-> 8, db_restore_backup |-> FALSE]

(* The options in the order parse_arg_options reads them: main's "IO"       *)
(* section, then the "DB" section rocks::register_options appends.          *)
ServiceOptions ==
    << [name |-> "tcp_threads", type |-> "int"],
       [name |-> "statsd_address", type |-> "str"],
       [name |-> "statsd_prefix", type |-> "str"] >>
RocksOptions ==
    << [name |-> "db_ttl", type |-> "int"],
       [name |-> "db_restore_backup", type |-> "bool"] >>
OptionList == ServiceOptions \o RocksOptions

Given(isFlag, args) == {NotGiven} \cup (IF isFlag THEN {0} ELSE args)

(* The command lines main may be started with.                              *)
Argvs == [help: Given("help" \in Flags, {}),
          tcp_threads: Given(FALSE, IntArgs),
          statsd_address: Given(FALSE, AddressArgs),
          statsd_prefix: Given(FALSE, PrefixArgs),
          db_ttl: Given(FALSE, IntArgs),
          db_restore_backup: Given("db_restore_backup" \in Flags, {})]

(* bool_option::read_option: a given flag sets the value.                  *)
BoolRead(cfg, o) == [cfg EXCEPT ![o.name] = TRUE]

(* str_option::read_option: the argument is copied.                        *)
StrRead(cfg, o, arg) == [cfg EXCEPT ![o.name] = arg]

(* int_option::read_option: std::stoll of the argument, which throws when  *)
(* it does not start with a number; the value itself is not followed.      *)
IntThrows(arg) == arg = 0

(* Seeded fault: the read loop returns at the first option not on argv.   *)
RECURSIVE ReadOptionsStopsAtMissing(_, _, _)
ReadOptionsStopsAtMissing(opts, argv, cfg) ==
    IF opts = << >> THEN [ok |-> TRUE, config |-> cfg]
    ELSE LET o == Head(opts)
             arg == argv[o.name]
         IN CASE arg = NotGiven -> [ok |-> TRUE, config |-> cfg]
              [] o.type = "bool" -> ReadOptionsStopsAtMissing(Tail(opts), argv, BoolRead(cfg, o))
              [] o.type = "str" -> ReadOptionsStopsAtMissing(Tail(opts), argv, StrRead(cfg, o, arg))
              [] IntThrows(arg) -> [ok |-> FALSE, config |-> cfg]
              [] OTHER -> ReadOptionsStopsAtMissing(Tail(opts), argv, cfg)

(* The read loop of parse_arg_options, from option opts on: each option    *)
(* given on argv is read in turn; an exception leaves the loop at once,    *)
(* with the options before it already written, and the parse fails.        *)
RECURSIVE ReadOptions(_, _, _)
ReadOptions(opts, argv, cfg) ==
    IF opts = << >> THEN [ok |-> TRUE, config |-> cfg]
    ELSE LET o == Head(opts)
             arg == argv[o.name]
         IN CASE arg = NotGiven -> ReadOptions(Tail(opts), argv, cfg)
              [] o.type = "bool" -> ReadOptions(Tail(opts), argv, BoolRead(cfg, o))
              [] o.type = "str" -> ReadOptions(Tail(opts), argv, StrRead(cfg, o, arg))
              [] IntThrows(arg) -> [ok |-> FALSE, config |-> cfg]
              [] OTHER -> ReadOptions(Tail(opts), argv, cfg)

(* parse_arg_options: --help prints the usage and returns false before any *)
(* option is read; otherwise the read loop's outcome.                      *)
ParseArgOptions(argv) ==
    IF argv.help # NotGiven THEN [ok |-> FALSE, config |-> Defaults]
    ELSE ReadOptions(OptionList, argv, Defaults)

(* What the parsed options decide: a statsd_aggregator when statsd_address  *)
(* is not empty (service.cpp), a restore in open(), and the prefix length.  *)
UseStatsd == config.statsd_address > 0
Restore == config.db_restore_backup
PrefixLen == config.statsd_prefix

-----------------------------------------------------------------------------
MaxBufferSize == 256

RECURSIVE DecimalLen(_)
DecimalLen(n) == IF n < 0 THEN 1 + DecimalLen(-n)
                 ELSE IF n < 10 THEN 1 ELSE 1 + DecimalLen(n \div 10)

(* send_stat(mask, name, value): the bytes snprintf writes for _prefix      *)
(* (prefix + ".") + "name:value|t", for a name and a decimal value of the   *)
(* given lengths; every type tag ("c", "g") is one character.               *)
StatBytes(nameLen, valueLen) == (PrefixLen + 1) + nameLen + 1 + valueLen + 2

(* statsd::counter: type_counter "%s:%d|c".  The int64 value is read by %d  *)
(* as an int; the counts here stay far below 2^31, where that reading is    *)
(* exact.                                                                    *)
CounterBytes(v) == StatBytes(NameLen, DecimalLen(v))

(* send_stat throws when the message does not fit the buffer.              *)
TooLong(bytes) == bytes <= 0 \/ bytes >= MaxBufferSize

(* The gauges rocks' epoch callback sets, by the length of their names:     *)
(* rocksdb.estimate-num-keys, rocksdb.db-size and rocksdb.db-size-mb (the  *)
(* per-ticker gauges of --db_debug are not followed).  statsd::gauge sends  *)
(* each with type_gauge "%s:%" PRIu64 "|g".                                 *)
GaugeNameLens == {25, 15, 18}

(* Every gauge may fit, for some length of its value ...                   *)
GaugesMayFit ==
    \A n \in GaugeNameLens : \E d \in GaugeDigits : ~TooLong(StatBytes(n, d))

(* ... and some gauge may not.                                              *)
GaugeMayOverflow ==
    \E n \in GaugeNameLens, d \in GaugeDigits : TooLong(StatBytes(n, d))

(* db::store_ptr db(new db::rocks()): the constructor leaves _db unset.    *)
Init ==
    /\ config = Defaults
    /\ main = "options"
    /\ db = "garbage"
    /\ refs = {}
    /\ registered = FALSE
    /\ running = FALSE
    /\ bg = "none"
    /\ pending = 0 /\ batch = 0 /\ sent = 0 /\ recorded = 0
    /\ gauges = FALSE

(* parse_arg_options(): on false (help or a bad flag) main returns 1 and   *)
(* db, the only local built so far, is destroyed.                          *)
ParseOptions ==
    /\ main = "options"
    /\ \E argv \in Argvs :
         LET r == ParseArgOptions(argv) IN
         /\ config' = r.config
         /\ main' = IF r.ok THEN "stats" ELSE "dtor_rocks"
    /\ UNCHANGED <<db, refs, registered, running, bg, pending, batch, sent, recorded, gauges>>

(* The aggregator: a statsd_aggregator builds its statsd client, whose     *)
(* constructor resolves the host (an exception out of main() if it cannot) *)
(* and opens the socket, then starts the background thread.               *)
MakeStats ==
    /\ main = "stats"
    /\ \/ ~UseStatsd /\ main' = "open" /\ UNCHANGED <<config, refs, running, bg>>
       \/ UseStatsd /\ main' = "open"
          /\ refs' = {"main"} /\ running' = TRUE /\ bg' = "check"
       \/ UseStatsd /\ Unresolvable /\ main' = "aborted"
          /\ UNCHANGED <<config, refs, running, bg>>
    /\ UNCHANGED <<config, db, registered, pending, batch, sent, recorded, gauges>>

(* rocks::open(): _local_stats takes the aggregator; an aborted restore     *)
(* throws before DBWithTTL::Open, a failed Open sets _db to nullptr and     *)
(* throws, and either makes main return 1; a successful one registers the   *)
(* epoch callback (a null_aggregator ignores it).                          *)
Open ==
    /\ main = "open"
    /\ refs' = IF UseStatsd THEN refs \cup {"rocks"} ELSE refs
    /\ \/ /\ Restore
          /\ main' = "release"
          /\ UNCHANGED <<config, db, registered>>
       \/ /\ db' = "null"
          /\ main' = "release"
          /\ UNCHANGED registered
       \/ /\ db' = "open"
          /\ registered' = UseStatsd
          /\ main' = "serve"
    /\ UNCHANGED <<config, running, bg, pending, batch, sent, recorded, gauges>>

(* A worker thread calls counter() (rocks::get, put, del do after every     *)
(* RocksDB call); under _counters_mutex it adds to the map.                *)
Count ==
    /\ main = "serve" /\ recorded < MaxIncs
    /\ pending' = IF UseStatsd THEN pending + 1 ELSE pending
    /\ recorded' = IF UseStatsd THEN recorded + 1 ELSE recorded
    /\ UNCHANGED <<config, main, db, refs, registered, running, bg, batch, sent, gauges>>

(* A termination signal: server.run() and the TCP thread return.           *)
Shutdown ==
    /\ main = "serve"
    /\ main' = "release"
    /\ UNCHANGED <<config, db, refs, registered, running, bg, pending, batch, sent, recorded, gauges>>

(* main's aggregator_ptr stats goes out of scope.                          *)
ReleaseMain ==
    /\ main = "release"
    /\ refs' = refs \ {"main"}
    /\ main' = "dtor_rocks"
    /\ UNCHANGED <<config, db, registered, running, bg, pending, batch, sent, recorded, gauges>>

(* ~rocks(): if _db != nullptr it is deleted and set to nullptr.  An unset *)
(* _db is an indeterminate pointer: the test may find it null, or pass and *)
(* delete whatever it points to.                                           *)
DestroyRocks ==
    /\ main = "dtor_rocks"
    /\ \/ db \in {"open", "null"} /\ db' = "null"
       \/ db = "garbage" /\ db' \in {"null", "wild"}
    /\ main' = "dtor_members"
    /\ UNCHANGED <<config, refs, registered, running, bg, pending, batch, sent, recorded, gauges>>

(* Seeded fault: the aggregator's destructor joins without clearing        *)
(* _background_running.                                                    *)
DestroyMembersNoStop ==
    /\ main = "dtor_members"
    /\ refs' = refs \ {"rocks"}
    /\ IF bg # "none" /\ refs' = {}
       THEN main' = "join"
       ELSE main' = "exited"
    /\ UNCHANGED <<config, db, registered, running, bg, pending, batch, sent, recorded, gauges>>

(* The members of rocks are destroyed: _local_stats lets go of the          *)
(* aggregator; if that was the last holder, ~statsd_aggregator() clears     *)
(* _background_running and main joins the thread.                           *)
DestroyMembers ==
    /\ main = "dtor_members"
    /\ refs' = refs \ {"rocks"}
    /\ IF bg # "none" /\ refs' = {}
       THEN running' = FALSE /\ main' = "join"
       ELSE UNCHANGED running /\ main' = "exited"
    /\ UNCHANGED <<config, db, registered, bg, pending, batch, sent, recorded, gauges>>

(* _background_thread.join() returns once the loop has ended.              *)
Join ==
    /\ main = "join" /\ bg = "done"
    /\ main' = "exited"
    /\ UNCHANGED <<config, db, refs, registered, running, bg, pending, batch, sent, recorded, gauges>>

(* background_loop(): while _background_running ...                        *)
Check ==
    /\ bg = "check"
    /\ bg' = IF running THEN "epoch" ELSE "done"
    /\ UNCHANGED <<config, main, db, refs, registered, running, pending, batch, sent, recorded, gauges>>

(* ... run every epoch callback: rocks' reads _db (estimate-num-keys) and   *)
(* the folder size and sets its gauges ...                                 *)
Epoch ==
    /\ bg = "epoch"
    /\ gauges' = (gauges \/ registered)
    /\ bg' = "gauges"
    /\ UNCHANGED <<config, main, db, refs, registered, running, pending, batch, sent, recorded>>

(* ... swap _gauges with an empty map under its mutex and send each gauge  *)
(* (the sets and timers maps before it are always empty: nothing calls set *)
(* or timer) ...                                                            *)
FlushGauges ==
    /\ bg = "gauges"
    /\ gauges => GaugesMayFit
    /\ gauges' = FALSE
    /\ bg' = "swap"
    /\ UNCHANGED <<config, main, db, refs, registered, running, pending, batch, sent, recorded>>

(* ... where statsd::gauge throws, because a message does not fit or       *)
(* send_to failed, and std::terminate ends the process.                    *)
GaugeThrows ==
    /\ bg = "gauges" /\ gauges
    /\ GaugeMayOverflow \/ SendFails
    /\ bg' = "aborted" /\ main' = "aborted"
    /\ UNCHANGED <<config, db, refs, registered, running, pending, batch, sent, recorded, gauges>>

(* Seeded fault: the map is copied out instead of swapped with an empty one. *)
SwapCopies ==
    /\ bg = "swap"
    /\ batch' = pending
    /\ bg' = "send"
    /\ UNCHANGED <<config, main, db, refs, registered, running, pending, sent, recorded, gauges>>

(* ... under _counters_mutex swap _counters with an empty map ...          *)
Swap ==
    /\ bg = "swap"
    /\ batch' = pending /\ pending' = 0
    /\ bg' = "send"
    /\ UNCHANGED <<config, main, db, refs, registered, running, sent, recorded, gauges>>

(* ... send what was swapped out to statsd (nothing when the map was       *)
(* empty) ...                                                               *)
Send ==
    /\ bg = "send"
    /\ batch > 0 => ~TooLong(CounterBytes(batch))
    /\ sent' = sent + batch /\ batch' = 0
    /\ bg' = "sleep"
    /\ UNCHANGED <<config, main, db, refs, registered, running, pending, recorded, gauges>>

(* ... where statsd::counter throws, because the message is too long for   *)
(* the buffer or send_to failed: nothing catches it on the background       *)
(* thread, and std::terminate ends the whole process.                      *)
SendThrows ==
    /\ bg = "send" /\ batch > 0
    /\ TooLong(CounterBytes(batch)) \/ SendFails
    /\ bg' = "aborted" /\ main' = "aborted"
    /\ UNCHANGED <<config, db, refs, registered, running, pending, batch, sent, recorded, gauges>>

(* ... and sleep for the period.                                            *)
Sleep ==
    /\ bg = "sleep"
    /\ bg' = "check"
    /\ UNCHANGED <<config, main, db, refs, registered, running, pending, batch, sent, recorded, gauges>>

Next ==
    \/ ParseOptions \/ MakeStats \/ Open \/ Count \/ Shutdown \/ ReleaseMain
    \/ DestroyRocks \/ DestroyMembers \/ Join
    \/ Check \/ Epoch \/ FlushGauges \/ GaugeThrows \/ Swap \/ Send \/ SendThrows \/ Sleep

Spec == Init /\ [][Next]_vars

(* main's steps once serving has ended, and the background loop's steps.   *)
(* Serving itself (Shutdown) waits for a signal and is not fair.           *)
Teardown == ReleaseMain \/ DestroyRocks \/ DestroyMembers \/ Join
Background == Check \/ Epoch \/ FlushGauges \/ GaugeThrows \/ Swap \/ Send \/ SendThrows \/ Sleep

FairSpec ==
    /\ Spec
    /\ WF_vars(ParseOptions) /\ WF_vars(MakeStats) /\ WF_vars(Open)
    /\ WF_vars(Teardown) /\ WF_vars(Background)

-----------------------------------------------------------------------------
TypeOK ==
    /\ config \in [statsd_address: Nat, statsd_prefix: Nat, db_restore_backup: BOOLEAN]
    /\ main \in MainPcs
    /\ db \in {"garbage", "null", "open", "wild"}
    /\ refs \subseteq {"main", "rocks"}
    /\ registered \in BOOLEAN /\ running \in BOOLEAN
    /\ bg \in BgPcs
    /\ {pending, batch, sent, recorded} \subseteq 0..MaxIncs
    /\ gauges \in BOOLEAN

(* Every increment passed to counter() is either still in _counters, in    *)
(* the batch being sent, or sent, exactly once: the swap under the mutex    *)
(* neither loses an increment made by a worker during a flush nor sends one *)
(* twice.                                                                   *)
CountersConserved == pending + batch + sent = recorded

(* The store pointer is only used while it points to the open database:    *)
(* when the background thread runs rocks' epoch callback, _db is open, and  *)
(* ~rocks() never deletes a pointer that was never set.                     *)
DbPointerSafe ==
    /\ (bg = "epoch" /\ registered) => db = "open"
    /\ db # "wild"

(* Shutdown completes: once main starts releasing its locals the process   *)
(* ends.  Either main returns, and by then the aggregator's background     *)
(* thread has left its loop and been joined (or was never started), or an  *)
(* exception has terminated the process: ~statsd_aggregator() never waits  *)
(* forever on a thread that keeps running.                                 *)
ShutdownCompletes ==
    main = "release" ~> \/ main = "exited" /\ bg \in {"none", "done"}
                        \/ main = "aborted"

(* Metrics never take the store down: the statsd client's send on the       *)
(* background thread (statsd::send_stat, called for every flushed counter)  *)
(* does not end the process while it serves.  The spec makes the metrics    *)
(* sink an optional collaborator (section 6) and lets only startup errors   *)
(* be fatal (section 7).                                                    *)
StatsdNeverTerminates == bg # "aborted"
(* The command line is read as a whole, the way the spec's collaborator    *)
(* boundary (section 6) and main's use of the locals assume: main goes on   *)
(* past parse_arg_options exactly when no --help was given and every int    *)
(* option given starts with a number (std::stoll), and then every option    *)
(* given on argv, in either section and in any combination, holds its       *)
(* argument, and every other keeps its default.  It is checked once main   *)
(* has parsed, over every command line of the bounds.                       *)
ParsesOk(argv) ==
    /\ argv.help = NotGiven
    /\ \A i \in DOMAIN OptionList :
         OptionList[i].type = "int" => argv[OptionList[i].name] # 0
ReferenceConfig(argv) ==
    [n \in DOMAIN Defaults |->
        CASE argv[n] = NotGiven -> Defaults[n]
          [] n = "db_restore_backup" -> TRUE
          [] OTHER -> argv[n]]
OptionsApplied ==
    main # "options" =>
    \A argv \in Argvs :
        LET r == ParseArgOptions(argv) IN
        /\ r.ok = ParsesOk(argv)
        /\ r.ok => r.config = ReferenceConfig(argv)
====
