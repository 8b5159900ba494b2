# A TLA+ model of logmoko

logmoko is a C logging library: loggers with levels, handlers that write to the
console, a file, UDP listeners or syslog, and in every handler a lock-free ring
that any number of threads log into and one background thread drains. This
directory models that machinery, checks it with TLC on small instances, and
proves its main properties with TLAPS for every size.

`PROJECT.json` lists the runs, the source lines behind every definition, the
mutants that show that each property can fail, the hazards and the theorems.

## Inventory

| Part | State | Operations | Interacts with |
|---|---|---|---|
| Ring (`logmoko.h`) | `head`, `tail`, slots with `sequence` and a request | `lmk_ring_init`, `lmk_ring_enqueue`, `lmk_ring_peek_slot`, `lmk_ring_consume` | written by log calls, read by the handler's thread |
| Handler core (the same code in `logmoko_console_log_handler.c`, `_file_`, `_socket_`, `_syslog_`) | `running`, `sleeping`, `wakeup_lock`, `wakeup_cond`, `dropped`, `nr_log_calls`, the thread | `init`, `log_impl`, `maybe_wake`, thread routine, `destroy` | ring; called by loggers and by the registry |
| Registry (`logmoko.c`, `logmoko_logger.c`, `logmoko_handler.c`) | `g_lmk_initialized`, logger and handler lists, names, levels, references, `nr_logger_ref` | `lmk_init`, factory functions, attach, detach, destroy, levels, `lmk_log_impl` | owns handlers, walks them in a log call |
| File handler | `log_fp`, staging buffer, `current_file_size`, limits, files on disk | thread routine, rotation, `lmk_set_log_rotation`, `lmk_set_log_filename` | ring, file system |
| Socket handler, encryption, receiver | listener list, PSK key and flag, cipher context, socket | send loop, `lmk_attach_log_listener`, `lmk_set_socket_psk`, receive loop | ring, UDP |
| Syslog handler | ident, facility, the process-wide connection | `openlog`, `syslog`, `closelog` | ring, syslog |
| Configuration | parsed sections, `g_lmk_config` | `lmk_init_from_file`, automatic configuration in `lmk_init` | registry, handlers |
| Formatting | per-thread timestamp cache | `lmk_format_log_line`, three formats | handler threads |
| List, memory, time, rate limiter | links; a clock and a count | | everywhere; benchmarks |

What is hard here: producers race for slots without a lock and decide to drop
from values that may be stale; the consumer sleeps on a condition variable that
producers signal only if they see a flag; shutdown races with the last records;
nothing in the registry is locked; rotation runs while its limits are changed
and may fail in the middle; listeners and keys are stored where the socket
handler's thread reads them; all syslog handlers share one connection of the
process; a configuration is applied by `lmk_init` and again by
`lmk_init_from_file`.

## Modules

**Ring** models `lmk_ring_enqueue`, `lmk_ring_peek_slot` and `lmk_ring_consume`
with one action per access to shared memory. A producer goes through
`EnqueueCall`, `EnqueueLoadHead`, `EnqueueLoadSequence` (which compares: claim,
full, or reload), `EnqueueCas` or `EnqueueCasFail` (the weak compare-and-swap may
also fail for no reason), `EnqueueWriteMeta`, `EnqueueWriteData`,
`EnqueuePublish`. The consumer is `PeekReady`, `ReadSlot`, `ConsumeSlot`. A request
has two halves, stored separately, so a torn request is visible. `accepted`,
`refused` and `written` are history.

**LogQueue** is what a ring promises: a bounded FIFO queue that accepts, refuses
when it is full, writes and releases, each in one step. `Ring` is shown to
implement it (`ImplementsQueue`); acceptance takes effect at the
compare-and-swap, refusal at the load of the slot's sequence.

**LogHandler** extends `Ring` with what all four handlers have around it:
`log_impl` with its counters, `maybe_wake` step by step, the thread routine
(drain, flush, test `running`, lock, set `sleeping`, test again, wait), and
`destroy`. `pthread_cond_wait` releases the mutex and waits in one step, may wake
spuriously, and takes the mutex again before it returns. The code is read in the
console handler; the file, socket and syslog handlers take the same steps, but for the
flush of a thread that has found the ring empty: the file handler's depends on what is
staged and on the file being open, and is in `FileHandler`; the other two have none.

**Registry** models loggers and handlers as addresses that are allocated and
freed, the two lists and the references as sets, and the calls of several
threads. `nr_logger_ref++` and `--` are a load and a store. A log call checks the
logger's level twice and then visits the handlers one at a time, so that levels
may change in between. The library has no lock here, so the client's obligations
are in the guards: creation and destruction run alone, and no logger is logged
to while its handlers change (the user guide, Thread Safety).
`ConcurrentAttach` says whether two threads may attach or detach on different
loggers at once.

**FileHandler** models the file handler's own work on top of the queue and the
sleep established above: the staging buffer and its headroom, `fwrite` and the byte
count, the rename chain of `lmk_rotate_log_file` call by call, `fopen`, the idle
and the final flush, and `lmk_set_log_rotation`, whose two stores fall anywhere
between the thread's steps. `fopen` and `rename` may fail at any call; `failed` is
history and says whether one has. Sizes are bytes scaled down: `wpos` counts what is
staged, and a file is its lines with its size.

**SocketHandler** models the socket handler's thread and what clients do beside it.
`lmk_attach_log_listener` is a list of stores to memory (the address, then the four
of `lmk_insert_list`) that become visible one at a time while the thread walks the
`next` pointers; `lmk_set_socket_psk` writes the key in two halves and then the
flag. `StoresInOrder` says whether the stores of an attach become visible in
program order. The ring is the queue of `LogQueue`. A datagram carries the record
and the key that sealed it; the network is the set of all datagrams ever sent, so
that any of them may be lost, repeated or overtaken on its way to the receiver,
which opens those sealed with its own key. A record is `secret` when it was logged
after encryption was enabled.

**SyslogHandler** models several syslog handlers and the one connection of the
process: the C library's `openlog` keeps a pointer to the ident inside the handler
(`tag`), `closelog` drops it, and `lmk_destroy_log_handler`, or a creation that
fails after `openlog`, frees the memory it points to. `sole` is history: this
handler opened the connection when there was no other, and no other has touched it
since. Its own `closelog` does not end that, so one that came before the last record
was drained would show.

**ConfigFile** models `lmk_cfg_parse_file`, `lmk_cfg_apply`, `lmk_init` and
`lmk_init_from_file` in one thread. The parser takes one line a step (`ParseLine`)
with a section and a current structure, as its loop does; at the end of the file the
sizes are set (`ParseEnd`), then each handler section is applied, then each logger
section (`ApplyHandler`, `ApplyLogger`), in the order of the file. `Call`, `LmkInit`,
`OpenFile` and `Close` are the calls around it: `lmk_init` opens the file that it
finds by itself, `lmk_init_from_file` calls `lmk_init` and then opens its own. The
sections and listeners of `lmk_cfg` are known by the line they come from instead of
an array index, and a line `handlers = a,b` stands as one line for each name. `Read(m)`
is the reference: what the first m lines say, by header and last value, without going
through them in order. `before` and `again` are history: the library when the
application began, and whether the file had been applied to it. **Pow2** is
`lmk_next_pow2` with the code's shifts, the value of the constant `NextPow2` in the
runs.

The **MC** modules instantiate these for TLC; **RingProof, LogHandlerProof,
RegistryProof, FileProof, SocketProof, SyslogProof** and **ConfigProof** hold the theorems. `Registry` and
`LogHandler` are composed by what one needs of the other: the handler's
`DestroyStop` assumes that no log call is inside the handler, which in `Registry`
is `NoDanglingRef` with the guard `Alone`. `FileHandler`, `SocketHandler` and
`SyslogHandler` in turn use a queue and a sleep that ends when there is something to
do, which is what `RingImplementsQueue` and `NoLostWakeup` give them.

## Runs

| Run | Shows | Bounds |
|---|---|---|
| `log_handler` | the ring inside a handler: `SlotOwnership`, `WrittenInOrder`, `RefusedOnlyWhenFull`, `ImplementsQueue`; around it: `NoLostWakeup`, `IdleIsFlushed`, `CountersExact`, `QuietWhenFreed`; and `RingInv`, `HandlerInv`, the invariants of the proofs | 2 producers, 2 slots, 3 calls each: the ring wraps three times and is full in the middle of calls |
| `log_handler_live` | `CallsReturn`, `AcceptedIsWritten`, `DestroyEnds` | 2 calls each; still more records than slots |
| `log_handler_shutdown` | violation of `DrainedOnExit` | 1 producer, 1 call |
| `registry` | `RegistryInv`, `RefCountExact`, `NoDanglingRef`, `NothingLeftBehind`, `RoutingExact` | 2 threads, 2 loggers, 2 handlers, 2 names each; DEBUG, WARN and an invalid level |
| `registry_concurrent` | violation of `NoDanglingRef` under `ConcurrentAttach` | the same |
| `file_handler` | `FileInv`, the invariant of the proof, and `LogInOrder`, `OnlyOldestLost`, `SizeCounted`, `FilesBounded`, `NothingStagedAtRest`, `LinesWhole`, `RingDrained`, with `fopen` and `rename` failing at any call | 4 lines of 2 or 4 bytes, a 6-byte buffer with 3 bytes headroom, limits 0 and 3 bytes, 0 or 3 backups, one change of the limits |
| `socket_handler` | `SocketInv`, the invariant of the proof, and `WalkSafe`, `EveryListenerOnce`, `SecretStaysSealed`, `OnlyPlainRejected`, `QueueDrained` | 3 records, 2 listeners, 1 key of 2 (the receiver's or not), 2 slots |
| `socket_weak_stores` | violation of `WalkSafe` when the stores of an attach are reordered | 1 record, 1 listener |
| `syslog_handler` | `TagNeverDangles`, `SoleIdentity` | 2 handlers whose addresses are used again, 2 idents or none, 2 facilities |
| `config_file` | `ParseMatches`, `LoggersAttached`, `RingAsConfigured`, `ReapplyKeeps` | all files of up to 3 lines out of 20, 6 whole ones, and one for each ring size from -1 to 17 and around each power of two up to 2^29; 3 calls; room for 2 handlers, 2 loggers, 2 listeners, 2 handlers a logger |
| `config_twice` | violation of `ListenersAsConfigured` | the same |
| `config_console` | violation of `SectionsAttached` | the whole files |

A ring of two slots is the smallest the code makes (`lmk_next_pow2`), and the one
in which positions a lap apart meet soonest. Two producers suffice for a lost
compare-and-swap and for a producer that sleeps while another laps it. In
`file_handler` two short lines fill the buffer up to the headroom, a long line
does not fit beside a short one and is cut, and with what was in the file before, four
lines are enough for a rotation to overwrite the oldest of three backups.

In `socket_handler` two listeners are the least for which one is attached while the
thread stands at the other or at the head, and three records let a walk begin before,
during and after each attach and each part of the key. The whole files of
`config_file` have each section kind, in both orders, and more sections, listeners
and names than there is room for; its limits stand for 16, 32 and 64 in the code.

`RefLimit` stands for 2^32 (an `unsigned int`); 4 exceeds the number of loggers,
which is all that `RefCountExact` needs. Symmetry is used in the registry runs,
which check invariants only.

### Fairness

`FairHandlerSpec` lets every thread run (weak fairness of each producer, of the
consumer and of a destruction that has begun; nobody is obliged to log or to
destroy). Strong fairness of the steps that take `wakeup_lock` says that a thread
waiting for a mutex that is free again and again gets it, which pthread mutexes
give in practice though POSIX does not require it; strong fairness of the
compare-and-swap says that it does not fail spuriously for ever, and that a
producer does not lose every race: the calls of the other producers are finite in
number. `FairFileHandlerSpec` (in `file_handler`) and `SocketSpec` only let the handler's
thread run. `QueueDrained` does not rest on a bound: new listeners lengthen a walk,
but only as many as clients attach, and nothing is tried twice.

### Findings

*Shutdown loses records.* The thread tests `running` after it found the ring empty
and does not look again. A record enqueued between the two, by a call that
returned before `destroy` began, stays in the ring. `nr_log_calls` counts it as logged;
`dropped` does not know of it. The comment at the test says the opposite
(`DrainedOnExit`).

*Concurrent attach.* The user guide calls attaching handlers to different loggers
from different threads safe. The reference count is a plain increment; one can be
lost, and the handler is then freed while a logger still points to it.
`RefCountExact` and `NoDanglingRef` hold when one thread at a time registers.

*Listeners without a lock.* A comment calls the list of listeners safe to read
without the lock. In program order it is (`WalkSafe`, `EveryListenerOnce` in
`socket_handler`): the link that makes a listener reachable comes after its own
fields. But these are plain stores, racing with plain loads; where the compiler or
the processor reorders them the walk reaches a listener without address or `next`
(`socket_weak_stores`).

*A configuration applied twice.* `lmk_init_from_file("logmoko.conf")`, the guide's
example, first runs `lmk_init`, which applies `logmoko.conf` by itself. Everything
but the listeners is the same after the second time (`ReapplyKeeps`); they are
attached again, and get every record twice (`ListenersAsConfigured`).

*A console section with a name of its own.* The guide's schema lets every handler
section have any name and any type, and a logger list handlers by those names. A
console section makes the handler called `console`, whatever the section is called;
a logger that names the section is silently attached to nothing
(`SectionsAttached`, in `config_console`). `LoggersAttached` is the same statement
about files whose console sections are called `console`, as in the guide's example,
and holds.

Not a finding, as the code nowhere promises otherwise: a second
syslog handler takes the connection over from the first; a second
`lmk_set_socket_psk` may be seen half done.

## Proofs

`RingProof` proves, for any set of producers, any ring size of at least 2 and any
number of calls, that `RingInv` is inductive, and from it `SlotOwnership`,
`WrittenInOrder`, `RefusedOnlyWhenFull` and the refinement `RingSpec =>
Queue!Spec`. `SlotOwnership` is not inductive: why two writers have different
slots needs that they have different positions less than a lap apart
(`WriterInv`, `CursorInv`), that a claimed slot still carries its position's number
or the next (`ClaimedInv`), and that the slots up to a lap ahead of `tail` carry
theirs (`FreeInv`). That a refusal is never early needs `LoopInv`: a position read
long ago is at most `head`, and its slot's sequence has reached it unless the ring
was full then and still is. The arithmetic is in lemmas on `Index`: positions less
than `RingSize` apart have different slots.

`LogHandlerProof` first shows that a handler's steps are ring steps or leave the
ring alone (`HandlerUsesRing`), which carries the ring's theorems over, and then that
`HandlerInv` is inductive. Its heart is `SignalInv`: once the consumer has found the
ring empty under the mutex with `sleeping` set, whoever makes the next slot ready
has still to look at the flag, and will signal. `NoLostWakeup`, `IdleIsFlushed`
and `QuietWhenFreed` follow. `CountersExact` speaks of a handler at rest and is not
inductive: a producer that has claimed its position has still to add to
`nr_log_calls`, one that was refused has still to add to `dropped`. `CountInv` puts
the numbers of both kinds into the balance (`Claimed`, `Refusing`), and each step
moves one call from one side of it to the other.

`RegistryProof` proves, for any sets of threads, loggers, handlers and names, that the
types hold however clients register, and that `RegistryInv` is inductive for a client
that attaches and detaches from one thread at a time (`~ConcurrentAttach`, the
hypothesis the run `registry_concurrent` shows to be needed). `RefCountExact` is not inductive:
between the change of a reference and the store of the count the two differ, so
`CountInv` says by how much and on whose behalf, and `RegisterInv` that the value
loaded is still the one in memory. `NoDanglingRef` then follows because a count of 0
means no referrers (`ListInv`), and a log call keeps walking references that nobody
changes (`WalkInv`); `lmk_destroy` brings every count to 0, hence `NothingLeftBehind`.
Its loop over the handlers ends only if each can be destroyed, and the action has
that as a guard; `DestroyReturns` shows that the guard never refuses a call, so that
no endless loop is hidden behind it. `RoutingExact` is the last state of the walk that
`WalkInv` describes.

`FileProof` proves, for every size of ring, buffer, line, file and limit, that
`FileInv` is inductive. Its parts lean on each other:

- `StageInv`: `wpos` is 0 exactly when nothing is staged, nothing is staged during a
  rotation, and the record that caused one is still in the ring. From it
  `NothingStagedAtRest`, the type of `wpos`, and `LinesWhole`, a property of steps.
- `OpenInv`: an open stream has a file, and `SizeCounted`. The final flush writes
  without counting, so `SizeCounted` needs that it never has anything to write,
  which is `NothingStagedAtRest`.
- `OrderInv`: `LogInOrder` with all numbers below `nr_lines`. A rename by one keeps
  the order of the files even if those before it failed, so that the order needs no
  hypothesis about failures (`failed`) or the limits.
- `BoundInv`: `FilesBounded`, and that a file at its limit is rotated before
  anything else is written to it.
- `LossInv`, as long as nothing has failed and the limits are those of the start:
  `OnlyOldestLost`, and the shape of the files in the middle of the chain:
  every rename but the first has a target that is gone, and the first one's is the
  oldest file.

`SocketProof` proves, for any number of records, listeners and keys, that `SealInv`
is inductive, whatever the order of the stores of an attach: the flag that turns
encryption on follows the key, and a walk begun with a secret record seals it
(`KeyInv`); nothing is sealed before the flag, and under a single key everything is
sealed with the whole of it (`NetInv`). `SecretStaysSealed` and `OnlyPlainRejected`
follow. `SocketInv` adds the
list and is inductive if `StoresInOrder`, the hypothesis that `socket_weak_stores`
shows to be needed. `ListInv` describes the list at each moment of an attach, store by
store: up to the last complete listener it is linked both ways in the order of
attaching, and the new one is reachable only when its own fields are filled in. `WalkInv` says that the listeners a walk has visited are
those before its cursor, and `PhaseInv` that listeners are freed only when the thread
has ended (`FreeInv` describes what is left of the list meanwhile). `WalkSafe` and
`EveryListenerOnce` follow.

`SyslogProof` proves, for any set of handlers, idents and facilities, that
`SyslogInv` is inductive: the tag points to a handler that exists, and a sole
handler that exists is the only one and is shown as itself. That needs its own
`closelog` to come last in its destruction. `SoleIdentity`, a property of steps,
follows from the state before the step.

`ConfigProof` proves, for every set of files, of any length, and for any limits of
`lmk_cfg`, that `ConfigInv` is inductive. What the parser computes is not proved by
induction over the file; the induction is the one over the steps, and `ParsedTo(m)`
is its loop invariant: after m lines `section` is that of the last header, `cur` the
structure it opened, if there was room for it, and `cfg` is `Read(m)`. Lemmas say how
each part of the reference changes with one more line (`HeadersStep` to
`ReadLoggerStep`): the last value of a key moves to the new line, the first k of a
set grow while there is room (`FirstRoom`, `FirstGrows`). `ParseMatches` follows.

For the application, `HandlersFrom(Says, lib, before, S)` describes the handlers
after the sections S: those that were there before and those made, each with the
level of the last of its sections that sets one; `LoggersFrom` does so for the
loggers and their references. Each step adds the least section still to be applied
(`HandlerApplied`, `LoggerApplied`). An application to an empty library gives
`Applied`, the library the file describes; an application to a library that is
`Applied` gives it again and changes nothing but the listeners (`NextApplication`), hence
`ReapplyKeeps`. `LoggersAttached` speaks of sections by their own names and needs
that a console section is called `console` (`ConsoleByName`). It must hold in the middle of a further application
as well, when some sections have been applied twice and others once; it does since
what is added is a part of what is there. `RingAsConfigured` is proved from the
hypothesis that `NextPow2` gives the smallest power of two for each size from 1 to
`MaxSize`; all the rest, that the right size reaches every handler whenever it is
made, is in `ConfigInv`.

Assumptions: `RingSizeAssumption`, `MaxCallsAssumption`, `ThreadsAssumption` (producers are
none of the strings that name the other threads), `RegistryAssumption`
(finitely many loggers, fewer than an `unsigned int` can count; `NoName` is no name),
`SyslogAssumption` (`NoIdent` is neither an ident nor a handler),
`FileHandlerAssumption` (a longest line is shorter than the buffer; lines are not empty;
limits are not negative), `SocketAssumption` (keys are not 0, which stands for none),
`ConfigAssumption` (files are sequences of lines whose numbers `atoi` can return;
limits are natural numbers; the default ring size is a size).

Only model-checked:

- liveness, which the prover does not do under fairness: `CallsReturn`,
  `AcceptedIsWritten`, `DestroyEnds`, `RingDrained`, `QueueDrained`;
- `lmk_next_pow2` itself: it uses `Bitwise`, which the prover does not know. The run
  `config_file` checks it on the small sizes and around every power of two up to 2^29;
- that the sizes in `FileHandler` are sums of the sizes of lines is part of the model
  (`StageLine` adds what it stages, `Written` adds `wpos`), not a theorem.

## Limits of the model

- Atomics are sequentially consistent. The relaxed load of `head` and the acquire
  load of `sequence` could, on weakly ordered hardware, observe older values than
  the model allows.
- Positions are naturals; `size_t` does not wrap here.
- A handler is destroyed when no log call is inside it. The code does not enforce
  this; a client that logs during `lmk_destroy` uses freed memory.
- One thread at a time initialises. In `Registry` `lmk_init` is one step and comes without
  automatic configuration; in `ConfigFile` it has the steps of the code. That the flag is set before the configuration is applied matters to a second thread only,
  and the guide has everything created before threads are spawned.
- `fwrite` appends at once and does not fail; a crash of the process is not
  modelled, since nothing is recovered after one.
- Text, colours, timestamps and JSON escaping are left out; of formatting only the
  length it returns is kept.
- AES-GCM is abstract: a datagram opens under the key that sealed it and no other.
- Lines of a configuration file are trimmed and split already; a line of 512 bytes or more,
  which `fgets` cuts in two, is left out. Keys that are handed to a setter (`psk`,
  `format`, `ident`, `facility`) are represented by `level`; the rotation limits, for
  which the code puts in a default when only one is given, are left out. Factories and
  `lmk_get_logger` do not return NULL there.
- The file handler starts without backups of an earlier run (the log file itself may be
  there), its ring and thread can be made, and the formatter returns at least one byte.
- `ConsumerFlush` in `LogHandler` is the console handler's.

### Not modelled

- `lmk_set_log_filename`: it frees the name under `handler->lock`, which a rotation does
  not take, so that calling it beside the thread is undefined behaviour and leaves
  nothing to state.
- The receiver's start-up, the tables of syslog priorities and facilities, and the
  memory and time wrappers: straight-line code without state.
- The rate limiter: real time in doubles, used by an example only.

## Plan

All modules that were planned are written, and every invariant and action property
that a passing run checks is a theorem for every value of the constants, under the
hypotheses named above. What could
follow:

1. `lmk_set_log_filename` beside a rotation, once the code gives it a defined outcome.
2. `lmk_init` called first by several threads at once, should the library come to
   promise something about it.
3. The ring under the C11 memory order of its loads and stores.
