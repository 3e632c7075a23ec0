# TLA+ models of xynq

xynq is a small in-memory object server written in C++. Clients send S-expressions over
TCP. A pool of worker threads runs one fiber per connection, compiles each expression to
a stack-machine program and runs it. Each program executes host functions (arithmetic,
`defstruct`, `create`, ...) against a type registry and an object store, and the result
goes back as JSON.

This directory holds TLA+ models of the parts of that system where concurrency,
ordering or protocol make bugs hard to test. It also holds the TLC configurations that
check them. `PROJECT.json` lists every component, run, mutant, finding and hazard, and
maps each model definition to the source lines it translates.

## 1. Inventory of the system

| Component | Source | State | Operations | Interacts with |
|---|---|---|---|---|
| Worker threads | `task/worker_thread.{h,cc}` | `running_`, `finished_`, local `MRSWRing` of `TaskTuple`s, `ExecutionState` (current task, pending event + flags, yield flag) | `ThreadProc` loop: `Wait`, queue tagged events, `DequeNextTask` (own ring, then peers `idx..idx+N-1`), `CreateTask`, `PreTask`, `Execute`/`Resume`, `PostTask` (register / requeue / destroy), `DeferredExit` | reactor, peers' rings, task manager |
| Task manager | `task/task_manager.{h,cc}` | `threads_`, entrypoints, hooks | `Run` (construct workers 1..N-1, start them, then worker 0 with the entrypoints), `Stop`, `StopInternal` spin | workers, reactor, exit handler in `main.cc` |
| Task / fiber | `task/task.{h,cc}`, `task/task_context.{h,cc}` | `state_` ∈ NotStarted, Executing, Suspended | `Execute`, `Suspend`, `Resume`; for a task's code: `PerformAsync`, `Yield`, `WaitEvent`, `Exit` | its worker's `ExecutionState` |
| Task semaphore | `task/task_semaphore.cc` | atomic `count_` | `Signal` (assert > 0, decrement), `Wait` (CAS 0→0, else `Yield`) | runtime, via `Yield` |
| Reactor | `event/epoll/event/eventqueue.cc` | epoll interest list (tag, flags, oneshot armed), wakeup eventfd | `AddEvent` (ADD or MOD, ONESHOT iff ExactlyOnce), `RemoveEvent`, `Wait` (epoll_wait, then drain eventfd), `InterruptAll` | all workers |
| MRSW ring | `containers/MRSWRing.h` | `data_`, 32-bit `r_`, `w_`, mutex | `Push` (false if full), `Pop` (false if empty) | workers |
| TCP adapter | `net/tcp.cc` | socket, event source | accept loop (`WaitEvent` → `accept` → `PerformAsync`), `TcpStream::DoRead`/`DoWrite` | runtime, endpoint |
| Endpoint | `main/endpoint.cc`, `main/execute_files.h` | per-connection buffers, scratch arena | read one expression, execute, serialize, purge | slang, streams, per-worker user data |
| Slang lexer | `slang/lexer.{h,cc}` | term type/start, saved-term buffer, line/column | `NextChar`, `RefillBuffer`, `SaveTerm`, token finalisation | streams, compiler |
| Slang compiler / VM | `slang/compiler.cc`, `slang/program.cc`, `slang/call.h` | instruction vector; VM stack and output stack | handlers emit `Call`/`Push`, reverse; `Execute` runs `Push`/`Call`, `PurgeStackFrame`, appends outputs | env, host functions |
| Host functions | `main/slang_env.cc`, `slang/math_funcs.cc` | — | `defstruct` (`HasType`, then `CreateSchema`), `create` (`EnsureVaultWithType`, `CreateObject`), arithmetic | type vault, storage |
| Type registry | `types/type_vault.{h,cc}` | master list under a lock, `updated_` flag, per-thread cache | `CreateSchema`, `FindSchema` (refresh cache if updated), `EnqueueSchema` | host functions, storage |
| Object storage | `storage/storage.cc`, `storage/object_vault.cc`, `storage/object_writer.cc`, `storage/object.h` | `objects_` map under `lock_`; per-vault store, static guid counter; each object's fixed 256-byte `buf` | `EnsureVaultWithType`, `CreateObject`, `ObjectWriter::WriteTyped` (find the field's address, write the value) | host functions |
| Streams | `base/stream.{h,cc}` | buffer, available window, last error | `AvailableOrRead`, `DrainOrRead`, `RefillAvailable`, `Advance`, writer `Write`/`Flush` | lexer, TCP, JSON |
| Scratch allocator | `base/scratch_allocator.{h,cc}` | chunk chain, current chunk and cursor | `Alloc`, `AllocAligned`, `Scoped`, `Purge`, `SizeAllocated` | endpoint, VM |
| Configuration | `config/config.cc`, `config/config_detail.cc`, `base/fileutils.cc`, `main/main.cc` (`LoadConfig`) | `ConfigParser`: `cur_key_` and its stack, value list, `is_nested_list_`, the map; `LoadConfig`: argv index, `config_file_found`, result | `LoadFromFile`/`LoadFromArgs`/`LoadFromStream` driving the lexer with `ConfigParser` as handler, `@include`, `@locate`, `Merge` | lexer, start-up |
| Start-up | `main/main.cc` (`XYEntrypoint`), `task/task_manager.h` (`AddEntryPoint`), `task/task.h` (`TaskTuple`), `net/tcp.cc` (`TcpManager::Create`) | `entrypoints_` (a `std::vector<TaskTuple>`), each tuple's argument bytes | `CreateLog`, `CreateTaskManager`, `CreateTcpManager`, `ScheduleConfigExecs`, `Run` | config, task manager, TCP |
| JSON, logging, containers | `json/`, `base/log.cc`, `containers/` | — | formatting | output |

**The behaviours that make this hard.**
- N OS threads share one epoll instance and steal from each other's rings.
- A fiber that suspends on one thread is resumed on whichever thread `epoll_wait` hands its tag to.
- Correctness rests on three things:
  - the registration comes after the switch-out (`PostTask`);
  - `EPOLLONESHOT` disarms a registration when it is reported;
  - the lock of each ring.
- Shutdown is cooperative: `Exit` stops one worker, and `StopInternal` spins until every worker has finished.
- Start-up is not atomic. `Run` constructs the workers one after another while the already started ones run, and the exit handler is live during all of it.

**The properties each part needs.**
- Runtime:
  - every task that exists is in exactly one place (entry list, a ring, an epoll result, a worker, an armed registration);
  - no task runs on two workers;
  - queued tasks are runnable;
  - spawned tasks and ready events are eventually run;
  - a stop reaches every worker.
- Ring: it behaves as a bounded FIFO.
- Semaphore: the fan-out completes.
- Compiler + VM: the result equals a reference evaluation.
- Registry and storage: no two schemas share a name, and no two objects share a guid.
- Layout: a field is stored at the offset the struct's layout gives it.
- Streams and lexer: lexing a split stream gives the same tokens as lexing it whole.

## 2. Plan

Modules, in order of importance:

1. **`TaskRuntime`** (done): workers, task manager, task primitives and reactor, composed in one module. They share every variable, so splitting them would only add interfaces.
2. **`MRSWRing`** + **`BoundedFIFO`** (done): the ring with its 32-bit counters, refining an abstract bounded FIFO (`INSTANCE ... WITH`). Checked at a small capacity with counters that wrap.
3. **`TaskFanOut`** (done): the fib fan-out of `tests/task/task.cc` (spawn two, `Wait` on the semaphore by `Yield`-spinning, `Signal` from the children) on top of the runtime's scheduling. Checks that it completes, and whether the spinning starves the reactor.
4. **`SlangPipeline`** (done): one connection's request loop: `StreamReader` refills, `Lexer::Run` with its saved term, the compiler handlers and reverse, `Program::Execute`, and the host functions `list`, `+`, `-` and `*`. It is checked against a RECURSIVE reference evaluator, with a violation run for the empty operation `()`.
5. **`TypeRegistry`** (done, registry and storage in one module):
   - `defstruct` and `create` from two workers against the master list, the thread caches, the storage map and the vault guid counter;
   - violation runs for the duplicate schema and the duplicate guid.
6. **`Endpoint`** on the runtime: the connection loop as a task of `TaskRuntime`, migrating between workers while it holds one worker's user data.
7. **`StreamWriter`** and the TCP adapter (done, in `SlangPipeline`): the serializer's writes, the reply buffer, `DoWrite`'s partial sends and its would-block path, and a client reset.
8. **`ScratchArena`** (done): `ScratchAllocator`'s chain of arenas, `AllocAligned`'s walk and growth, `Purge`, and `Scoped` (`size_allocated` restored).
9. **`ConfigLoad`** (done): `LoadConfig` and the config parser, checked against a RECURSIVE reading of the text's bracket tree, with the bugs it shows listed under Findings.
10. **`Startup`** (done): `XYEntrypoint` after `LoadConfig`, on top of `ConfigLoad`: the checks of the loaded config and the entry points in `entrypoints_`, with a violation run for the use-after-free of an accept task's bind address.

11. **`ObjectLayout`** (done): the `defstruct` layout loop and `create`'s field stores through `ObjectWriter`, with the value each store writes and the reply reads back, checked against spec 4.O's layout computed by RECURSIVE reference operators, with a violation run for the struct with no fields.

12. **`TcpServer`** (done): the accept task, one handler task per connection running the endpoint loop over a `TcpStream`, epoll registrations and their teardown, descriptor reuse, and the kernel's FIN, RST and `SIGPIPE`, on `NumWorkers` workers; with a violation run for `SIGPIPE`.

## 3. `TaskRuntime`: what it models

Tasks are model values. A task's own code between two suspensions is abstracted to the
runtime call it ends with. That call is one of these, and `MaxOps` bounds how many calls
a task makes:
- `PerformAsync`;
- `Yield`;
- `WaitEvent` with flags from `WaitFlagChoices`;
- `Exit`;
- returning from its entry (`TaskReturn`).

The variables, and what they stand for in the code:

| Variable | Code |
|---|---|
| `pc[w]` | where worker `w`'s thread is in `ThreadProc` / `PostTask` / `StopInternal` |
| `running`, `finished` | `WorkerThread::running_`, `finished_` |
| `current`, `pending`, `yieldReq` | `ExecutionState::current_task_`, `pending_event_flags_` (`{}` = no pending event), `yield_` |
| `queue[w]` | `local_task_queue_` as a bounded sequence |
| `got[w]` | the tags `epoll_wait` returned to `w` |
| `reg[t]` | the epoll registration of the source task `t` waits on: added, armed, oneshot |
| `ready[t]` | that source is readable/writable (set by the environment, consumed when the task resumes) |
| `wakeup` | the eventfd holds a count |
| `tstate[t]` | `Task::state_`, plus `Free` (not created yet) and `Destroyed` |
| `born`, `scan[w]` | how many workers `Run` has constructed; the index of the peer-scan loop |

Actions, one per step of the code:
- `Construct`: the `WorkerThread` constructor, in `Run`'s order.
- `LoopHead`: the `while (running_)` test; on exit, `MarkFinished` (`finished_ = true`).
- `Wait`: `epoll_wait`, which disarms reported ONESHOT registrations.
- `Wait` returns at once while the wakeup eventfd holds a count (`WakeupReadable`). The `EpollEventQueue` constructor registers that eventfd for `Read` with no task tag and without `EPOLLONESHOT`.
- `QueueEvents`: the eventfd drain (`DrainWakeup`), then `QueueTask` for each tagged event.
- `DequeNextTask` and `ScanPeer`: popping the own ring, then one peer ring per step. Either one ends in `RunTask`: `CreateTask`, then `ExecuteTask` or `ResumeTask`, which is `PreTask` (setting `current_task_`) followed by `Execute` or `Resume` (`SwitchIn`: the state becomes `Executing`).
- The task calls listed above.
- `PostTask`.
- `PostTaskLog`: the debug log line after it.
- `StopInternal`: one round of its do-while (`DelayedStop` on every worker not finished, then `InterruptAll`).
- `ExitHandler`: the signal handler (`os/utils.cc:25-49`). Its `exit_called` test-and-set lets only the first signal through. That signal calls `TaskManager::Stop`, which is `DelayedStop` on every worker and then `InterruptAll` (an eight-byte write to the wakeup eventfd).
- `Exit` (a task call) uses `DeferredExit`, which is `DelayedStop` on its own worker only.
- `SourceReady`: the environment.

Properties:
- `TypeOK`, which also holds `PreTask`'s assertion: a worker has a `current_task_` exactly from `PreTask` until `ClearCurrent`, the last line of `PostTask`. It breaks if `PostTask` leaves the slot set.
- `TaskAccounting`: a live task is in exactly one place, and a free or deleted task in none.
- `QueuedTasksRunnable`: the `XYAssert` after `DequeNextTask`.
- `SingleExecutor`.
- `PostLogSafe`: the debug log reads a live task.
- Liveness:
  - `SpawnedTaskStarts`;
  - `ReadyTaskResumes`;
  - `AllWorkersStop`.

**Fairness.**
- Every step of a worker thread is weakly fair: the OS schedules threads, and nothing in the code can block a thread except `epoll_wait`.
- `Wait(w)` is enabled exactly when `epoll_wait` has something to return.
- `Construct` is weakly fair: `Run` runs to completion.
- The exit handler (`ExitHandler`) and the sockets' peers (`SourceReady`) are the environment and get no fairness.

**Deadlock** is not checked (`CHECK_DEADLOCK FALSE`). The system really stops in two ways:
- after `StopInternal` every worker is `stopped`;
- when no task waits on anything, every worker sleeps in `epoll_wait` forever, which is the idle server.

The liveness properties state what must still happen.

## 3a. `MRSWRing` and `BoundedFIFO`

`BoundedFIFO` is the contract of the ring: a sequence of at most `Capacity` values, where a
push fails exactly when it is full and a pop fails exactly when it is empty. `lastPush` and
`lastPop` record the returned value of the last call.

`MRSWRing` translates `containers/MRSWRing.h`:
- the slots `data_`;
- the counters `r_` and `w_`, kept modulo `2^Width` so that they wrap as the 32-bit `unsigned` does;
- `IsFull` and `IsEmpty`;
- `Push` and `Pop`, each one atomic step because it holds the mutex for its whole body.

The ring's contents are the slots from `r_` to `w_`. The model maps them onto `items` and
checks `FIFO!Spec` as a property (`RingIsBoundedFIFO`). `Width = 3` with 4 slots makes the
counters wrap twice within reach.

## 3b. `TaskFanOut`

`TaskFanOut` is `TEST(Task, Fib)` in `tests/task/task.cc` running on the runtime. It
instantiates `TaskRuntime` for the runtime itself: the loop, rings, stealing, `PostTask` and
shutdown are `TR!` actions. The arbitrary task calls of `TaskRuntime` are replaced by the
steps of `Fib::exec`:
- `BaseCase`;
- `SpawnLeft`, which creates `TaskSemaphore complete{2}`, and `SpawnRight`: the two `PerformAsync<Fib>`;
- `SemWait`: `TaskSemaphore::Wait`. The CAS from 0 to 0 either passes or `Yield`s.
- `Sum`;
- `Signal`: the child's `Defer` and `TaskSemaphore::Signal`, then the return;
- `RootExit`: the root's `Defer` calling `Exit`.

`Exit` suspends the task, and `PostTask` then deletes it, so the root's `Defer` never
reaches the following `sem->Signal()` on a null `sem`.

Properties:
- `ResultIsFib`: when every worker has stopped, the entrypoint holds `FibRef(FibN)`, a RECURSIVE reference.
- `RunReturns`: `Run()` returns.

## 3c. `TypeRegistry`

`TypeRegistry` covers `types/type_vault.{h,cc}`, `storage/storage.cc` and `storage/object_vault.cc`, driven by the
`defstruct` and `create` host functions of `main/slang_env.cc`. The actors are connections (endpoint
loops). Each one holds the `SharedDeps` of the worker it started on (`Home`, set by `MCTypeRegistry`)
and sends one expression after another. A host call never suspends, so it runs on one thread, and at
most `NumWorkers` calls run at once.

| Variable | Code |
|---|---|
| `types` | `TypeManager::types_list_`; a schema is its list position |
| `writer` | the exclusive holder of `rw_lock_` (a reader holds it only within the atomic `Refresh`) |
| `updated`, `cache`, `cur` | each vault's `updated_`, `schemas_map_` and `current_` |
| `cleared` | progress of `InvalidateCaches` over `vaults_` |
| `storeLock`, `objVault` | `Storage::lock_`, `Storage::objects_` |
| `vaultLock`, `guid`, `objects` | `ObjectVault::m_lock`, the static `x`, the objects created |
| `published`, `seen` | history: names whose `defstruct` returned, and that set when a lookup began |

Actions:
- `FindTas` and `Refresh`: `FindSchema`.
- `DefstructLookup`: `HasType`.
- `CreateSchema`: the exclusive section, with three exits: duplicate, failing handler, enqueue.
- `Invalidate`: one vault per step.
- `Publish`: the unlock and return.
- `EnsureLock`, `CreateLookup` and `EnsureInsert`: `EnsureVaultWithType`.
- `StorageCreateObject`.
- `VaultLockRead` and `VaultWrite`: `++x` split into its load and its store, because two vaults do not share a mutex.

Properties:
- `SchemaAgreement`: every worker's cache, and every `ObjectVault`, resolves a name to the same schema. This holds even though the list can hold two schemas of one name, because every cache ingests the list in order and `insert` keeps the first.
- `LookupSeesPublished`: a lookup that begins after a `defstruct` returned finds the type.
- `CallsReturn`: the storage lock, the reader-writer lock and the vault mutexes never deadlock.
- The violation runs: `NoDuplicateTypes` and `UniqueGuids`.

Out-of-memory is not modelled: `AllocateSchema` writes into the buffer before the null check, so a failed
allocation crashes (listed as a hazard).

## 3d. `SlangPipeline`

`SlangPipeline` models one connection of `Endpoint::ServeCommandMode` (`main/endpoint.cc`) end to end.
A request stream `in` (a tuple of characters, one of `Inputs`) is delivered by `recv` in chunks of 1 to
`BufSize` bytes. Each loop iteration of `ServeCommandMode` calls `slang::Execute`, which does three things:
- it runs `Compiler::Build`, that is `Lexer::Run` with `single_expr`, then `std::reverse`;
- it runs `Program::Execute`;
- it serializes either the error text or the residual stack.

| Variable | Code |
|---|---|
| `rpos`, `rerr` | bytes `recv` has returned so far; the reader's error state (`IsGood`) |
| `buf`, `abeg`, `aend` | `StreamReader::read_buf_` and the window `available_begin_`..`available_end_`, as offsets |
| `lx` | `LexerState`: line and column, `op_depth_`, both escape flags, `term_type_`, `term_begin_` (`Null` for `nullptr`), `term_buf_`, and whether the `;` loop is running |
| `code`, `prog` | `Program::code_` while lexing, and after `Build`'s reverse |
| `ip`, `stack` | `Program::Execute`'s instruction pointer and stack |
| `pc`, `reply`, `replies` | the phase of the loop, the serialized result of the current request, and all replies so far |
| `tstart`, `lastTerm` | history only: where the open term began in `in`, and the last term handed to `FinalizeTerm` |

Actions:
- One action per case of `Lexer::Run`'s switch: `StringChar`, `OpenParen`, `CloseParen`, `Quote`, `CommentStart`, `Blank` and `TermChar`. `CommentChar` is one turn of the comment loop.
- `FinalizeTerm` is an operator that returns the handler's result and the lexer state after `FinishTerm`. Each action applies it whole.
- `Refill` is `NextChar` on an empty window, that is `RefillBuffer`: `SaveTerm`, `RefillAvailable` (`stream.cc:80-89`, the bytes land at the buffer's start), then re-pointing `term_begin_`.
- `ReadFails` is the same call when `recv` reports the closed connection. `DoRead` maps a 0 to `Closed` and a -1 to `IOError` (`DoReadError`), and `InStream::Read` keeps that error as `read_error_` (`InStreamRead`; `OutStreamWrite` does the same for `SendFails`). It ends the comment loop, or `Run`, with the end-of-stream checks.
- `ExecPush`, `ExecCall` and `ExecEnd` are one turn of `Program::Execute` each. `ExecCall` builds `CallArgs` from the top of the stack down to the topmost barrier, calls `HostCall`, then runs `PurgeStackFrame` and appends the output.
- `PayloadStart`, `PayloadChar` and `PayloadClose` are the `!` case: the token loop (up to four bytes, until `[`), `LexerCustomData`, and the check for `]`. `FindPayloadHandler` knows the tokens 0 and `json`. The JSON handler's `ProcessPayload` reads nothing and answers `Not supported`, so every payload ends the request with a syntax error.
- `Reply` is the end of `slang::Execute`: the reply is fixed and `JsonSerializer` turns it into the sequence of `StreamWriter::Write` calls it makes (`ReplyWrites`: `[`, each value, `", "` between values, `]`, `\n`; a string as `"`, one write per character or escape, `"`; an int as the text of `StrBuildIntToStr`, a Field as `{` `}`). The next request starts a fresh `LexerState` at the next unread byte.
- `WriteData` is one turn of `StreamWriter::WriteData`'s loop on the head write: copy what fits into the `OutSize`-byte buffer; if bytes remain, `Flush` (reset `written_size_`, hand the buffer to `DoWrite`) and go on with the rest. `FinalFlush` is `FinalizeWrite`'s `Flush`.
- `Send` is one successful `send` of `DoWrite`'s loop (1 to all of the remaining bytes). `SendFails` is a failing `send`: `DoWrite` returns `IOError`, `write_error_` is set, and if the flush came from `WriteData`, that call returns early and the rest of its write is lost. The serializer ignores `Write`'s result and goes on with the next write.
- `EndWrite` is `ServeCommandMode`'s loop test, `reader.IsGood() && writer.IsGood()` (`IsGood`: no error kept). `Closed` is the endpoint after it dropped the connection.
- `Reset` is the client resetting the connection (in `Faults`). The socket holds `ECONNRESET` until the first `recv` (`ReadFails`, as `IOError`) or `send` (`SendFails`) reports it (`ErrorReported`); after that `recv` returns 0 and a `send` gets `EPIPE` and the signal `SIGPIPE` (`SendPipe`), whose default action ends the process (`Killed`): `DoWrite` passes no `MSG_NOSIGNAL` and only `SIGINT` and `SIGTERM` are handled (`utils.cc:89`).

| Variable | Code |
|---|---|
| `conn` | the peer: open, reset with the error pending, or shut once the error was reported |
| `wq` | the writes of the current reply still to make; the head may be the rest of a partly copied write |
| `wbuf`, `wsend` | `StreamWriter::write_buf_` up to `written_size_`; the bytes of the `DoWrite` in progress |
| `werr`, `flushed` | the writer's `LastError`; whether `FinalizeWrite`'s flush has been made |
| `client` | the bytes the client has received |

Integers keep the width the code computes in:
- `+` uses `sum<int64_t>`;
- `-` and `*` use `sub<int16_t>` and `mul<int16_t>` (`math_funcs.cc:126,140`).

`ASSUME` keeps `.`, `e`, `x`, `n` and `/` out of the inputs, so `LexerParseDouble` never succeeds and `/` is never called. Neither is modelled (section 6).

Properties (run `slang`):
- `TermTextIntact`: the text `FinalizeTerm` hands to the handler is exactly the bytes of the input between the term's first byte and the delimiter. This holds however `recv` splits the stream. It depends on `RefillBuffer` saving the open term and re-pointing `term_begin_`, and on `Term()` joining `term_buf_` with the current window.
- `ExecuteIsTreeEval`: when a request executes, its reply is what a recursive evaluation of the compiled expression tree gives. The reference evaluator `TreeEval` walks the code in source order. The VM instead runs it reversed, one stack and frame barriers at a time. The code hands a child's several values (from `list`) to its parent in reverse (`program.cc:49`), and `TreeEval` encodes that order. Requests with an empty operation `()` are excluded; they have their own run.
- `ReplyStreamIntact`: what the client has received is always a prefix of the JSON text of the replies in order, and when a reply's writing ended without error, it is all of it. It takes buffer boundaries inside writes, partial sends and resets to break, and a `WriteData` that forgot to reset the buffer after a flush does. With `wouldblock` in `Faults` it fails (`SlangPipeline_send_block.cfg`, section 5), a case the blocking accepted socket keeps latent.
- `ConnectionDrains`: under weak fairness of the connection's fiber, every connection ends, whatever the requests and whatever the chunking: the endpoint drops it, or, when a reply is still being sent after a reset was reported, `SIGPIPE` ends the process. That the second is a bug for the server as a whole is the `TcpServer` model's `sigpipe` run.

Bounds: `BufSize` = 3, `OutSize` = 4 (every reply but `[]` spans several flushes, and a string or a two-digit int is split across two) and `MaxReplies` = 6, with a reset possible at any step, over eleven streams, each exercising one path:
- a nested `list`;
- `*` overflowing int16, and `-`;
- strings with escapes, and a field;
- comments inside a term and at end of stream;
- a syntax error that resyncs;
- call errors and a term outside brackets;
- an unclosed string;
- a name starting with a digit;
- payloads: a registered token, a token of five bytes, an unknown token without `]`, end of stream inside the token, and end of stream after `[`.

Chunks of 1 to 3 bytes split every term of two or more characters in every possible place. Together the streams fire every action.

Fairness: the connection is one fiber that never waits on anything but `recv` and `send`; `WaitEvent` returns when the socket is readable or writable, and the model's peer always reads and answers (or resets). So `WF_vars(Next)` is the fairness the runtime gives a task (see `TaskRuntime`'s `core` run).

## 3e. `ConfigLoad`

`ConfigLoad` models start-up configuration: `LoadConfig` (`main/main.cc`) and the config loader (`config/config.cc`, `config/config_detail.cc`, `base/fileutils.cc`).
- `LoadConfig` loads each `--config` file with `Config::LoadFromFile` and merges it into `result`.
- If there is none, it tries `./xynqdb.conf`.
- Then it turns the `/key value` words of the command line into `(key value)` lines (`LoadFromArgs`) and merges those over the result.

Every load runs the slang `Lexer` with `ConfigParser` as its handler. `SlangPipeline` already models that lexer character by character, so here a config text is the sequence of handler calls the lexer makes for it, one token per call:
- `Open(k)`: `(` and its op name, `<<>>` for an empty one;
- `Close`: `)`;
- `IntTok(n)`, `NameTok(s)` and `StrTok(s)`: value terms;
- `Custom`: a `!` payload.

The lexer's own depth checks are kept: a value at depth 0, and an operation still open at the end.

Names, strings and paths are sequences of atoms. `(a.b 1)` and `(a (b 1))` therefore join to the same key, as in the code, and a path's last atom is its file name for `ReplaceFilename`.

| Variable | Code |
|---|---|
| `argv`, `fs` | the command line and the files, from `Starts` |
| `stage`, `i`, `found`, `result` | where `LoadConfig` is, its argv index, `config_file_found`, and the merged `Config` |
| `frames` | one record per nested `LoadFromStream`: the lexer's position and `op_depth_`, `cur_key_` as its segments, the value list, `is_nested_list_`, `config_map_`, and the `@include` values still to load |
| `ret` | the `LoadResult` of the last load to return |

Actions:
- `OpenOp`, `CloseOp`, `ValueTerm` and `CustomData` are the lexer calling `LexerBeginOp`, `LexerEndOp`, a value handler and `LexerCustomData`. Each takes the handler's error return to `Fail`, which is `LoadFromStream` answering `SyntaxError`.
- `ValueOf` is what the value handlers append. A bare word other than `yes`/`no` appends an unset node and then the string, as `LexerUnhandledValue` does, and `Stored` is `LexerEndOp`'s test that the list's head is set.
- `CloseOp` handles `@locate` (each string resolved next to the current file and left to the enclosing key), `@include` (top level only: it starts the loop), an unknown directive, and `emplace` (the first list of a key wins).
- `IncludeNext` is one turn of the `@include` loop: a nested `LoadFromFile` pushes a frame. `EndOfText` of a nested frame is that load returning: its map is merged into the includer's (`MergeValues`, with `CloneNode`'s overwrite from the head). `IncludeEnd` pops the `@include` key.
- `ConfigFlag`, `FileLoaded`, `SkipPair`, `UnknownArg`, `ScanDone`, `LoadDefault`, `DefaultLoaded`, `LoadArgs` and `ArgsLoaded` are the steps of `LoadConfig`. `LoadArgs` is `LoadFromArgs` on `argv + 1` (all the words), through `MakeSlangExprFromArgs` and `CheckArg`.

Properties:
- `TypeOK` also checks that the key is never longer than the depth. This is why the lexer's `Redundant closing parenthesis` can never follow a successful `LexerEndOp`.
- `LoadIsTreeMeaning`: every load that returns gives what the reference `RefDoc` gives for its text. `RefDoc` is a RECURSIVE reading of the text's bracket tree, with no key stack, no `is_nested_list_` flag and no include loop, only recursion over groups and included files.
- `EffectiveConfig`: on a valid command line whose files parse, start-up succeeds with the intended configuration. That configuration is the files in order (or the default file), then the command-line pairs, each overriding what came before.

Fairness: `LoadConfig` runs alone on the main thread, so `WF_vars(Next)` only says it runs to its end. No liveness property is checked, and `CHECK_DEADLOCK FALSE` is there because start-up really stops in `done` or `failed`.

## 3f. `Startup`

`Startup` extends `ConfigLoad` with the rest of `XYEntrypoint` (`main/main.cc`). Its spec, `StartSpec`, runs `ConfigLoad`'s `Next` (as `LoadStep`) until `LoadConfig` returns, then one action per step of `XYEntrypoint`:
- `LoadFailed`: `LoadConfig` failed, so `XYEntrypoint` returns -1.
- `CreateLog`: a `log.level` that is not a string is `info`; a string that is not in `LogLevelFromString`'s table stops start-up.
- `CreateTaskManager`: `task.num-threads` must be absent or the string `auto` (an integer is refused too), and `events.max-events-at-once` must be positive.
- `CreateTcpManager`: `tcp.bind` (default `0.0.0.0:9920`) must be a list of strings (`AsArray`). Each must have a `:` (`ParseIPAddress`, split at the last one). Then there is one `TcpSocketAccept` entry point per address, in order (`TcpManager::Create`).
- `ScheduleConfigExecs`: an `exec` list of strings becomes one `ExecuteFiles` entry point; a list that is not all strings stops start-up.
- `Run`: worker 0's constructor pushes bytewise copies of the entry points into its queue, and `entrypoints_.clear()` keeps the buffer.
- `StartEntry`: a worker starts an entry point, and an accept task reads its `bind_addr`.

The data is where an entry point's arguments live.
- `TaskTuple`'s constructor placement-news `std::tuple<TaskContext*, Args...>` into its `aligned_storage`, and its copy and move are the defaulted bytewise ones.
- An accept task's address is a `Str`. libstdc++ keeps a string of up to 15 bytes inside the object and points at it, so the pointer is into the vector element.
- `AddEntryPoint` models `emplace_back`:
  - a full vector allocates `max(1, 2 * size)` elements;
  - it constructs the new element there and copies the old ones over;
  - it frees the old buffer.
- Buffers are numbered by allocation (`nbuf` is the live one). An element's `home` is the buffer its pointer points into, or `Heap` for memory owned elsewhere: a long string's block, or `ExecuteFiles`' `Vec`.

| Variable | Code |
|---|---|
| `phase` | which step of `XYEntrypoint` is next |
| `eps`, `cap`, `nbuf` | `entrypoints_`, its capacity, and the number of its allocations |
| `ring` | worker 0's `local_task_queue_` after `Run` |
| `started` | the queued entry points a worker has started |

Properties:
- `EntryArgsLive`: every started entry point reads its arguments from memory that is still allocated.

No fairness: the properties are invariants. Start-up ends in `exit` or with every entry point started, so the runs set `CHECK_DEADLOCK FALSE`.

## 3g. `ScratchArena`

`ScratchArena` models `ScratchAllocator` (`base/scratch_allocator.{h,cc}`, `base/arena.h`). The allocator is not thread-safe, and one owner calls it: a connection's endpoint, which purges it after every request, or a config load. So each operation is one step.
- An arena is its size and the residue of its start address modulo the largest alignment in use. `detail::AlignPointer` looks at nothing else (`AlignOff`). A pointer is an arena index and an offset.
- `Init` is the constructor: one arena of `reserve_size` at `max_align_t` alignment. The start residue is any that `aligned_alloc` may return.
- `AllocAligned` aligns `cur_ptr_`. While the block does not fit, it moves to the next arena and aligns that arena's start (`Seek`, RECURSIVE, is the loop). At the end of the chain it appends an arena of `max(total_size_ * 2, size)` bytes created with the request's alignment, and uses its start unaligned. `Alloc` is `AllocAligned` at `max_align_t`.
- `Purge` goes back to the start of the head arena and keeps the chain.
- `Scoped(handler)` is two steps around the handler's calls. `ScopedEnter` saves `cur_arena_` and `cur_ptr_`. `ScopedExit` restores them.
- The variable `live` is history too: the blocks whose lifetime (spec 4.A) has not ended. A block dies at `Purge` or at the end of the `Scoped` it was allocated in.

| Variable | Code |
|---|---|
| `arenas` | the chain from `head_arena_`: each arena's size and start residue |
| `cur`, `ptr`, `total` | `cur_arena_`, `cur_ptr_` as an offset, `total_size_` |
| `scopes` | the `prev_arena`/`prev_ptr` of each open `Scoped`, innermost last |
| `live`, `allocs` | history: the blocks still in use; the number of allocations (bounded) |

Properties:
- `LiveBlocksDisjoint`: no two live blocks share a byte, and each lies inside its arena. Reusing arenas after `Purge` or a `Scoped` rewind never hands out memory in use.
- `BlocksAligned`: every block is aligned as requested, including the first block of a new arena, which `AllocAligned` takes without aligning.

`Scoped` is used by `Config` (`config.h:266`), and the endpoint calls `Purge` after every request (`endpoint.cc:56`).

`Next` never disables itself: `Purge` is always enabled. So the run checks deadlock.

## 3h. `ObjectLayout`

`ObjectLayout` models how a struct is laid out, where `create` stores its fields, and where its reply reads them back. One connection calls `defstruct` and `create` in sequence; the registry's cache, lock and races are `TypeRegistry`'s, so here `FindSchema` answers from a fresh cache (`Known`).

| Definition | Code |
|---|---|
| `BasicTypes`, `Init` | the basic schemas (`types/basic_types.cc`) that `XYEntrypoint` gives `TypeManager` (`main.cc:276-287`): `alignof` and `sizeof` on x86-64 |
| `AlignPtr` | `TypeSchema::AlignPtr` (`types/schema.h:49-57`), `(p + a - 1) & ~(a - 1)` on `uintptr_t`, with Bitwise's `&` at `Width` bits |
| `Accumulate`, `Defstruct` | the `defstruct` handler (`main/slang_env.cc:102-177`): refused if the name exists or a field's type is unknown; otherwise the loop aligns the running size to each field, adds its size, keeps the largest alignment and pads the total to it |
| `FindDataStore`, `WriteTyped`, `WritePairs`, `Create` | `create` (`slang_env.cc:21-72`) over up to three arguments: no argument, a first one that is not a string, or a name with no user type (`EnsureVaultWithType` gives no vault) answers an error; then the loop over `<field, value>` pairs (`WritePairs`), where a name that is not a `:field` or has no value after it is an error, and each pair is written through `ObjectWriter` (`storage/object_writer.cc:63-92`): the walk from `Data()` that aligns to each field and steps over its size; a null address is `Field does not exist`, a struct field `Unsupported type`, a basic field is written at the address. The first error ends the call; otherwise the new object is the reply |
| `Arg`, `Values`, `Str`, `FieldArgs`, `Get` | `create`'s arguments: the slang stack's `Value` union (`types/value_types.h:11-55`) holding an `int64` literal, a string, or a `:field` (a `StrSpan` too), and `CallArgs::Iterator::Get<StrSpan>` / `Get<Field>` (`slang/call.h:165-188`), which give nothing when the slot holds another type |
| `ValueToUInt64`, `ValueToDouble`, `Wrap`, `WriteBasicValue` | the value written: a string's or field's bits are its `StrSpan` pointer (`StrBits`); `WriteBasicValue` (`object_writer.cc:7-48`) gives a floating field the double and an integral field the `u64` cast to the field's width (`Wrap`, two's complement) |
| `IsUnsigned`, `IsFloating`, `ReadBasicValue` | the reply reading the field back: `JsonSerializer::WriteBasicValue(type, data)` (`json_serializer.cc:90-148`), a double, unsigned or sign-extended by the field's flags (`schema.h:39-41`) |
| `IsAligned`, `WriteObject`, `WriteFields` | the reply's `JsonSerializer::WriteObject` (`json/json_serializer.cc:61-88`): `XYAssert(schema->IsAligned(object))` (`schema.h:44-47`), then each field at `AlignPtr` of the running address, a basic field read there, a struct field serialized recursively |

`wrote` is the outcome of the last field write: `Stored` at an address, `Missing` or `Unsupported` (the two errors of `WriteTyped`). `reply` is the object `create` answered, with the walk's events (each alignment assertion and each address read), or the error it answered instead. Fields the call does not write are read from the uninitialized `buf` of `new Object` (`storage/object.h:19`); their contents are not modelled. Fields are named by their position; with three arguments a `create` writes at most one field. `wrote.bits` is the field's content after the write, and `reply.answered` is what the reply reads back from it. TLC's integers have 32 bits, so the constants `IntArgs` (the literals) and `StrBits` (a string's pointer bits) stay below 2^30 (`ASSUME ValuesInRange`). A cut to 32 or 64 bits then leaves them unchanged.

The reference is spec 4.O's layout, "max alignment of members, sum of padded sizes, tail pad": `RefAlign`, `RefSize`, `RefEnd` and `RefLeaves` (the addresses of an object's basic values, nested ones included) are RECURSIVE operators over the published schemas, and `Pad(x, a)` rounds up to a multiple of `a`. Padding to an alignment of 0 (a struct with no fields) adds nothing.

Property: `ObjectIsSpecLayout`, the conjunction of two parts:
- `StoreIsSpecLayout`: every basic field `create` writes is stored at the object's data plus the field's offset in the reference layout, and is never reported missing;
- `ReplyIsSpecLayout`: the reply's walk reads the object's basic values at the reference layout's addresses, and its alignment assertions hold.

With structs that all have a field, it holds over every layout of up to three fields of `int8`, `int16`, `int64` and two nested structs, three calls. A struct with no fields breaks it: its alignment is 0, `IsAligned(p, 0)` holds only for address 0, `AlignPtr(p, 0)` is 0, and every field after one is placed at address 0 or just above it.

## 3i. `TcpServer`

The TCP adapter serving several clients at once (`net/tcp.cc`). The `TcpSocketAccept` task sets up the listening socket and loops on `WaitEvent` and `accept`. Each accepted socket gets a `TcpConnectionHandler` task (`PerformAsync`). That task runs `Endpoint::Serve` over a `TcpStream` (`main/endpoint.cc`) and then tears the connection down. The module also holds the epoll registrations that `WaitEvent` makes (`EpollEventQueue::AddEvent`, `RemoveEvent`, `EPOLLONESHOT`), and what the kernel does with descriptor numbers, socket buffers, FIN, RST and `SIGPIPE`. `SlangPipeline` models one connection byte by byte. This module counts data in units instead, and models many connections, their descriptors and the workers they share:
- a request is one unit;
- a reply is `ReplyFlushes` flushes, one `send` each;
- the `[]` answer to a failed read is one flush;
- a client's socket buffers hold `SockBuf` units.

| Variable | Code |
|---|---|
| `on`, `ts` | which task each worker thread runs; each task's state (ready in a ring, running, suspended in `WaitEvent`, ended) |
| `pc` | where each task's code is |
| `fd`, `owner` | each task's descriptor; which task holds each descriptor number (free ones are reused lowest first, as the kernel does) |
| `added`, `reg` | `EventSource::is_added_`; the epoll interest list: each descriptor's registration, its task pointer and whether `EPOLLONESHOT` left it armed |
| `backlog` | connections queued on the listening socket |
| `cst`, `srvIn`, `cliIn`, `got` | the client's state; request units queued at the server; reply units in the client's buffers; reply units the client has read |
| `rst`, `sockErr` | an RST sent by the client's kernel or arrived; the server socket's pending `ECONNRESET` |
| `rerr`, `werr`, `left` | the `StreamReader`'s and `StreamWriter`'s last error; flushes left in the current reply |
| `alive` | the process has not been killed |

Actions:
- `Pick` is `DequeNextTask` on an idle worker.
- `WaitEvent` suspends the task and registers its descriptor (`AddEvent`: `MOD` if `is_added_`, else `ADD`; `is_added_` is set even if the call fails).
- `Fire` is `epoll_wait` reporting an armed registration whose descriptor is readable; `EPOLLONESHOT` disarms it.
- `AcceptSetup` is the exec up to `listen`, each failure returning (`SetupOutcomes`). `AcceptWait` is the loop head. `Accept` takes the first queued connection and the lowest free descriptor and queues the handler; with nothing queued (`EAGAIN`) or no descriptor left (`EMFILE`) it is `AcceptFailed`, which logs and continues.
- `HandlerStart` is the handler up to `Serve`'s loop. `ReadWait` and `Recv` are `DoRead`: `recv` returns queued data, then a pending error (which it clears), then 0. `Flush` is one `DoWrite` on the blocking socket: it fails with a pending error, raises `SIGPIPE` once the reset was reported, reaches a closed client (whose kernel answers with an RST), or copies into the client's buffers and blocks while they are full (`SendFits`). `EndWrite` is `ServeCommandMode`'s test of both streams.
- `DestroyStream` is `~TcpStream`'s `RemoveEvent`, and `CloseSocket` is `close(sock)`, which also drops the descriptor's registration. `TeardownOrder` is their order in the code.
- `Connect`, `Read`, `Close` and `RstArrive` are the clients and the network. A polite client reads everything and then closes. An `Abrupt` one may close at any time; closing with unread data sends an RST. A `Staller` never reads.

Properties (run `tcp_serving`):
- `TypeOK`, which also holds that a task is `running` exactly while a worker has it as `current_task_`. It breaks if `PostTask` deletes a finished task and leaves the slot set.
- `WaitersRegistered`: every task suspended in `WaitEvent` has an armed registration of its own descriptor that points to it. Descriptor numbers are reused at once. If `close` came before `RemoveEvent`, another worker could `accept` the same number and register it, and the late `EPOLL_CTL_DEL` would delete the new task's registration.
- `ConnectionsServed`: every polite client that connects gets all its replies and has its socket closed, however the other clients behave. In `tcp_serving` this includes an accept task that spins on `EMFILE` with three clients and three descriptors, one of them the listening socket. It breaks if the accept loop ended on a failed `accept`. With an abrupt client it fails (`sigpipe`), and with a staller on one worker it fails too (`TcpServer_stall.cfg`, section 5).

Bounds: two workers, three clients, three descriptors, one request of two flushes, and socket buffers of one unit.
- Three clients with three descriptors make `accept` fail with `EMFILE` while two connections are open.
- A closed connection's number is reused by the next one, so the teardown order matters.
- Two flushes into a one-unit buffer make `send` block until the client reads.
- Two workers let a handler's teardown race another worker's `accept` and `WaitEvent`.

Fairness:
- Per task, a runnable task is eventually picked by some worker. This is what `TaskRuntime` checks (`SpawnedTaskStarts`, `ReadyTaskResumes`: FIFO rings, and every worker scans its peers). Fairness per worker would be too weak: it lets the spinning accept task take every turn.
- A running fiber goes on (`HandlerStep`, `AcceptStep`), epoll reports a ready armed descriptor, an RST arrives, readers read, and polite clients close.
- No client is made to connect.

## 4. Runs

| Run | Expect | What it shows |
|---|---|---|
| `core` | pass | The debug build (`DebugName`: the log step after `PostTask`); 2 workers; tasks `t1` (entry) and `t2`; rings of 3; 2 events per wait; 3 calls per task; ExactlyOnce read and write waits. `TypeOK`, `TaskAccounting`, `QueuedTasksRunnable`, and `SingleExecutor` hold, and so do `SpawnedTaskStarts`, `ReadyTaskResumes` and `AllWorkersStop` under the fairness below (about 124k distinct states, 1 minute). The fan-out run covers the build without the log step. |
| `fib_fanout` | pass | `TaskFanOut` with Fib(4) on 2 workers: 9 tasks in 3 levels of parents, rings of 9. `ResultIsFib` and `RunReturns` hold (about 117k states, 22 s). |
| `registry` | pass | `MCTypeRegistry`, 2 workers, 2 connections on different workers, names `X`, `Y` and basic `i32`, 2 calls each: `SchemaAgreement`, `LookupSeesPublished`, `CallsReturn` (about 481k states, under 2 minutes). |
| `object_layout` | violation | `ObjectLayout` with struct names `E`, `S`, fields of `int8`, `int32` or either struct, three calls: `(defstruct E)` then `(create E)` fails the serializer's assertion that the object is aligned (`ObjectIsSpecLayout`). |
| `slang` | pass | `MCSlangPipeline`, eleven request streams, chunks of 1 to 3 bytes: 4-byte writer buffer, partial sends, client resets: `TypeOK`, `TermTextIntact`, `ExecuteIsTreeEval`, `ReplyStreamIntact`, `ConnectionDrains` (about 149k states, 18 s). |
| `ring_wrap` | pass | `MRSWRing` with 4 slots and 3-bit counters refines `BoundedFIFO`. |
| `config_parse` | pass | `MCStartup` with `StartSpec`: every text of up to five lexer calls over 8 tokens (37,449 texts) and 13 longer ones, each loaded by `--config ./cfg`; 15 command lines; and 13 start-up configs (one, two, a long and a malformed bind address, `exec`, each refused value). `LoadIsTreeMeaning` holds (about 252k states, 19 s). |
| `config_effective` | violation | `MCConfigLoad` with four starts, each of which alone breaks `EffectiveConfig`: `xynqdb --config /etc/cfg`; no `--config` with `./xynqdb.conf` holding `(b 1)`; `/a w`; and `--config ./cfg /a 1` over `(a yes 1)`. TLC reports the first it reaches. |
| `entry_args` | violation | `--config ./cfg` with `(exec "init.slang")` and the default bind address: the accept task reads its address from the freed first buffer of `entrypoints_` (`EntryArgsLive`). |
| `tcp_serving` | pass | `TcpServer` with 2 workers, 3 polite clients of 1 request and 2-flush replies, socket buffers of 1 unit, descriptors 3 to 5, and the accept task's setup failing or not: `TypeOK`, `WaitersRegistered` and `ConnectionsServed` (about 110k states, under 1 minute). |
| `sigpipe` | violation | `TcpServer` with client `c1` that may close before reading: its reset makes a later `send` raise `SIGPIPE` while `c2` is being served (`ConnectionsServed`). |
| `scratch_scoped` | pass | `ScratchArena` with a 4-byte reserve, `max_align_t` as 4, alignments 4 and 8, sizes 3 and 6, four allocations, `Scoped` nested twice. `TypeOK`, `LiveBlocksDisjoint` and `BlocksAligned` hold (about 85k states, 5 s). |

**Why these bounds are enough.**
- Two workers give every cross-thread case: stealing, two waiters on one epoll, a stop from one reaching the other.
- Two tasks with three calls each let a task:
  - spawn, then wait on I/O while the spawned task runs or is stolen by the other worker;
  - yield while a peer steals;
  - wait twice, so the registration is re-armed by `EPOLL_CTL_MOD`.
- Fib(4) is the smallest tree in which a parent's children are themselves parents. Spawns, waits and signals then interleave across two levels and both workers. The test's ring of 1024 never fills for Fib(10), which has 177 tasks; a ring of 9 for 9 tasks keeps that true.
- For the registry, two calls per connection are enough for each interleaving that matters: a `defstruct` racing a `defstruct` or a `create` of the same or another name, and a lookup after either. Two names give two `ObjectVault`s, which the guid race needs, and a field may name a type not yet defined, so the handler's failure path is taken.
- Rings of 3 never overflow with 3 tasks, so the passing runs are not masked by the overflow observed below.
- For the config parser, the texts of up to five handler calls over the eight tokens, with the longer ones, reach each of `ConfigParser`'s error returns and each directive at least once. The longer texts add what needs more calls: a repeated key, nested keys, a value after a sub-key, `@locate` inside a key and inside `@include`, an `@include` of two files, a payload. The command lines cover each branch of `LoadConfig`'s loop, the default file present, absent and broken, and each refusal of `LoadFromArgs`.
- For start-up, one accept entry point and one more (a second address or `exec`) are enough to reallocate `entrypoints_` once. The long IPv6 address is the case where the string is on the heap and the copy is harmless.
- For the scratch allocator, a 6-byte request does not fit the 4-byte reserve, so the chain grows. Alignment 8 is stricter than the head arena's 4, so an aligned offset can move past the end and a new arena's start matters. Four allocations with `Purge` and two nested `Scoped` reach a reused second arena, a third arena appended inside a scope, and a rewind across arenas.
- For the layout, three calls are the fewest that define a struct, use it in a second one and write a field or take the reply; three fields let a field follow a nested struct and be followed by another. `int8` and `int32` give fields that need no padding and fields that do.
- Every property of a passing run is broken by a mutant of the code it is about (see `mutants` in `PROJECT.json`), under the same bounds.

## 5. Findings

See `findings` in `PROJECT.json`. In short:
- A short bind address is read from freed memory when there is more than one entry point:
  - `TaskTuple` stores an accept task's `Str` inside the element of `entrypoints_`;
  - the next `AddEntryPoint` (`task_manager.h:74`) grows the vector, copies the tuple bytewise and frees the old buffer;
  - the task's `bind_addr` (`tcp.cc:246`) then points into freed memory. This happens for every config with `exec` or with two `tcp.bind` addresses.
- One client that closes before reading its reply ends the server (`sigpipe`). The client's kernel answers the reply with an RST. The handler's next `recv` reports `ECONNRESET`, the endpoint answers the failed request with `[]`, and that `send` gets `EPIPE`: `DoWrite` sends without `MSG_NOSIGNAL` and `SetupSignalHandlers` (`utils.cc:89`) handles only `SIGINT` and `SIGTERM`, so `SIGPIPE` kills the process and every other connection. A client closing early is ordinary (a timeout, a killed client).
- Without a run of their own (below): the object guid counter is shared by vaults that lock different mutexes; an empty operation `()` leaves a FrameBarrier on the VM stack, the enclosing call loses the arguments below it and the barrier is serialized, which is `XYAssert(0)` in debug builds (`json_serializer.cc:175`); a client that does not read blocks a worker thread.
- A struct with no fields has alignment 0, and `AlignPtr(p, 0)` is 0 (`slang_env.cc:170`, `object_writer.cc:69`). After `(defstruct E)`:
  - `(create E)` answers the new object, and `WriteObject`'s `XYAssert(schema->IsAligned(object))` (`json_serializer.cc:62`) fails for it, which aborts a build with `XYNQ_ENABLE_DEBUG_ASSERTS`;
  - in `(defstruct S :x E :y E :z int8)`, `(create S :z 1)` answers `Field does not exist`;
  - in `(defstruct S :x E :y int8 :z int8)`, `FindDataStore` gives `:z` the address 1, and `WriteBasicValue` writes there.
- The configuration start-up uses is not the one its files and command line state (`config_effective`). Each of these four breaks `EffectiveConfig` alone:
  - `xynqdb --config /etc/cfg` fails start-up. `LoadConfig` hands the whole command line to `LoadFromArgs` (`main.cc:95`), which takes the absolute file name after `--config` for a `/key`. As the last argument this fails with `No value for key`; elsewhere the path swallows the next `/key value` pair.
  - With no `--config` and `./xynqdb.conf` holding `(b 1)`, start-up ends `done` without `b`. The default file is loaded and checked (`main.cc:78`) but never merged into `result`.
  - `/a w` ends `done` without `a`. For a bare word other than `yes`/`no`, `LexerUnhandledValue` takes a list node, leaves it unset and calls `LexerStrValue`, which takes a second (`config.cc:195-201`). The unset head makes `LexerEndOp` (`config.cc:146`) drop the key, so `(tcp.host localhost)` in a file is ignored as well. The tests use only quoted strings.
  - `--config ./cfg /a 1` with `./cfg` holding `(a yes 1)` gives `a = [1, 1]`. `CloneNode` (`config_detail.cc:47`) writes a shorter list over a longer one from its head and keeps the old tail.

Also observed, without a run of its own. Each was reproduced with the model by changing a constant, and its run was then dropped so that each run asks one question:
- `TypeRegistry_guid_race.cfg` (`UniqueGuids`): creations of an `X` and a `Y` at once get one guid. `ObjectVault::CreateObject` increments a function-static counter under the vault's own mutex (`object_vault.cc:14`), so two vaults race on it.
- `SlangPipeline_empty_op.cfg` (`BarrierNeverSerialized`): `(list 1 () 2)` answers a reply that holds a FrameBarrier and has lost the `1` (`lexer.h:373`).
- `TcpServer_stall.cfg` (`ConnectionsServed`): one worker and a client that never reads. The accepted socket is blocking (only the listening socket gets `O_NONBLOCK`, `tcp.cc:286-295`), so once that client's socket buffer is full, `send` blocks the worker thread and no other connection is served; in the trace the other client has all its replies but its handler never runs again to close its socket.
- `TaskRuntime` with `DebugName = TRUE` and `PostLogSafe` checked: the debug-build log after `PostTask` (`worker_thread.cc:210`) reads the name of a task that another worker resumed and deleted after `AddEvent`.
- `TaskRuntime` has a `StopInStartup` switch for a signal that arrives while `Run` constructs the workers. The exit handler is installed before `Run` (`main.cc:305`). No run enables the switch, so nothing is checked for that case.
- `SlangPipeline` with `SlangPipeline_send_block.cfg` (`ReplyStreamIntact`): `TcpStream::DoWrite` (`tcp.cc:184`) passes `sent` (-1), not `errno`, to `IsInProgress` (which `SendFails` models with `LET sent == -1`), so a send that would block would be an I/O error. The accepted socket is blocking, so `send` never reports `EAGAIN` and this stays latent until the socket is made non-blocking (spec 309 describes the wait-and-retry). The flushed bytes and the rest of the write are lost, the serializer writes on, and a later send hands the client the end of a reply without its start: for `(list 12 (list 3 4))` the client receives `4...` without `[12, `. The passing `slang` run keeps `ReplyStreamIntact` over sends that only go partly through.
- `TypeRegistry` with `TypeRegistry_duplicate_type.cfg` (`NoDuplicateTypes`): two `defstruct X` at once both publish. `CreateSchema` sets `updated_` before its duplicate check (`type_vault.h:106`), so the check reads a stale cache.
- `MCObjectLayout` with `ObjectLayout_values.cfg` (`ReplyHoldsArgument`): `create` writes a value of any type into any basic field. Spec section 7 says a type mismatch is reported as an error, but `WriteTyped` (`object_writer.cc:80-92`) never compares the argument's type with the field's, and `WriteBasicValue` casts. In the trace, `(defstruct S :a int8)` and then `(create S :a 300)` stores 44 and answers it. With `IntArgs = {1}`, `(create S :a "s")` stores the low byte of the string's pointer.
- `Startup`, `config_parse`: `(task.num-threads 4)` stops start-up with `Invalid number of threads. Must be >= 0`. Any integer takes the error branch (`main.cc:151`), so only `"auto"` or no key starts the server; the bare word `auto` is dropped by the loader, as above.

`TaskContext::WaitEvent` (`task_context.cc:26`) says it forces
exactly-once delivery but passes the flags through. `TaskRuntime` with `WaitFlagChoices = {{"Read"}}`
lets two workers resume one task (`SingleExecutor`). Every current caller passes `ExactlyOnce` itself,
so the passing runs use only those flags.

`QueueTask` ignores `Push`'s result: `TaskRuntime` with rings of 1 and a task that spawns twice loses the second task (`TaskAccounting`), a run dropped to keep the run count down.

The wire format (`JsonSerializer`, modelled as the code does it):
- a backslash in a string is written as `\"` (`json_serializer.cc:189`); spec 6.1 says `\\`;
- the residual stack is always wrapped in `[...]`, so `(+ 1 2)` answers `[3]`; spec 6.1 and scenario 1 show a single value bare;
- a Field is written as `{}`.

Also observed while modelling, each recorded as a hazard in `PROJECT.json` rather than as a run.

The registry:
- `Storage::CreateObject` (`storage.cc:15`) calls `objects_.find` without `lock_`, while `EnsureVaultWithType` inserts under it on another worker.
- `ServeCommandMode` captures its starting worker's `SharedDeps` once (`endpoint.cc:47`). After the connection resumes on another worker, two threads can use one single-threaded `TypeVault`.

The request pipeline, read off the replies of the `slang` run:
- `(list 12 (list 3 4))` answers `[12,4,3]`. Spec section 4.K says `list` propagates its arguments unchanged. `ExecuteIsTreeEval` pins the code's order.
- `(* 300 300)` answers `24464`: `-` and `*` compute in `int16_t`.
- `(+ 1;c` newline ` 2)` is a call error. The comment does not end the term, so `1;c` and the newline become one term.
- `(foo 1) 2)` answers in three steps:
  - `Unknown function 'foo'`;
  - the rest of the request is lexed as new requests, giving `Redundant closing parenthesis` twice;
  - then `[]` when the stream closes.
- Every stream that ends cleanly gets one extra `[]` reply: the last `Run` sees only end of stream and succeeds with an empty program.
- `(list 2 ![]) !abcdf!ab[y` gets five replies: `Not supported`, `Redundant closing parenthesis`, `Invalid openning tag for custom data`, `No closing ] for custom data`, then `[]`. A payload's body after `[` is never consumed by the handler, so it is lexed as the next requests.
- A bare term at depth 0 just before end of stream is dropped without the `Expected opening bracket` error.

## 6. Not modelled (yet)

- The components marked `not_modelled` in `PROJECT.json`, with the plan above for each.
- The fiber context switch itself (assembly).
- Logging and the containers. They have no concurrency or protocol that a property here would tell apart.
- The list iterators of `Config`: `Startup`'s `Get`, `GetList` and `AsArray` read the map directly.
- A cyclic `@include`: it recurses until the stack overflows (a hazard in `PROJECT.json`). The model's files are acyclic so that each load ends.
- Double values in a config text (`LexerDoubleValue`, as for the VM), and the lexer's character-level work on config texts: `SlangPipeline` models the lexer by character, and `ConfigLoad` starts from its handler calls.
- The hooks of `TaskManager`, which run user callbacks.
- Double literals (`LexerParseDouble`) and the `/` function: they need floating point, which TLC has no type for.
- The size of an object's storage. `Object::buf` is a fixed 256 bytes (`storage/object.h:19`), and neither `defstruct` nor `create` compares a struct's size with it. A struct of more than 32 `int64` fields would be written and read past the buffer. `ObjectLayout`'s bounds (three fields, two levels of nesting) stay under 256 bytes; reaching the limit would take four levels of nesting, more than TLC can enumerate here.
- JSON floats (TLC has no floating point), the text `WriteObject` writes for an object (`ObjectLayout` keeps only where it reads each field), and the deserializer, out of scope in the spec.
- Socket options (keep-alive, address reuse), address parsing and stream names: socket calls with no state a property tells apart. `TcpServer` takes the setup's outcome as a choice, and `Startup` models the accept task only up to reading its address.
- `log.file`, `log.stdout` and `log.syslog` (`CreateLog` opening the file is I/O), and the types, storage and slang environment set-up in `XYEntrypoint` (fixed values, no choice).
- `Get<int>`'s cast of an int64 value to `int`: the modelled values are small.
- `ScratchAllocator`'s move constructor and assignment. They swap the members, so the chain and its blocks keep their addresses: `Config` takes the loader's allocator this way (`config.cc:247`), and the swap is no operation on the chain.
- `ScratchAllocator`'s `Free` (a no-op) and the destructor (it releases the whole chain). A `reserve_size` of 0 leaves `cur_ptr_` null and fails `AllocAligned`'s assertion; the model takes a positive reserve, as every caller passes.
- The value `create` stores (`WriteBasicValue`'s conversions): the property is about where a field is stored, not what.
- `Object`'s fixed `buf[256]` (`object.h:19`, "TEMP HACK"): a struct larger than 256 bytes is written past it, since `schema->size` is never used to allocate. Three fields of at most 8 bytes per struct never reach that size within `object_layout`'s bounds.
- A `create` whose field write fails answers an error, but the object was already committed to its vault by `CreateObject`; a later `select` lists it half written. No model holds the stored objects' contents.
- `recv`'s `EAGAIN` retry in `DoRead`: `WaitEvent` then `recv` again changes no state of the model.
