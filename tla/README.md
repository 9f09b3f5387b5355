# temenos in TLA+

temenos is a daemon that runs shell commands for agents inside an OS sandbox
(bubblewrap on Linux, seatbelt on macOS). Clients talk HTTP to it over a unix
socket: `POST /run` executes a command; one that takes too long becomes a
background job, which clients look up, read and stop through `/jobs`.

This directory holds TLA+ models of the daemon, the TLC configurations that
check them on small instances, and proofs checked by TLAPS. Paths below are
relative to the root of the repository.

## Inventory

| Part | State | Operations | What is hard | What makes it correct |
|---|---|---|---|---|
| **Run handler** `internal/daemon/handler.go` | per request: run-timeout context, ticker, threshold timer; the job it started | `handleRun`, `handleRunAutoBackground` | a select over poll, threshold and disconnect; an error after the command was started; three contexts (request, run timeout, job) and a fourth in the sandbox | each request is answered once; no command is left running that nobody can reach; a background job does not depend on the request it came from |
| **Job goroutine** `internal/daemon/jobs.go` | status, exit code, times, output, `done` channel | `newBackgroundJob`, `finish`, `snapshot` | the verdict reads a context other goroutines cancel; status, cleanup and `close(done)` are separate steps | recorded once, before `done`; killed only with a cause |
| **Job registry** `internal/daemon/jobs.go` | `jobs`, `seq` under a RWMutex | `Add` (with collection), `Get`, `Kill`, `List` | limit, retention, ids; pointers used after the lock is dropped | bounded; ids unique; an unread result is kept; refusals only when every slot is held |
| **Job API** `internal/daemon/handler.go` | none of its own | `GET /jobs`, `GET` and `DELETE /jobs/{id}` | two lookups per DELETE, with other callers in between | 404, 409 and 200 are true when they are said |
| **Token authentication** `internal/auth` | token cache with expiry, a sweeper | `get`, `set`, `sweep`, `ValidateToken`, `IsRequiredSA` | concurrent misses, eviction under another lock than the read, revocation | staleness bounded by the TTL and the latency of a review |
| **Sandbox execution** `sandbox/sandbox.go`, `bwrap.go`, `seatbelt.go`, `noop.go` | the process, its output pipes, its deadline, its cgroup | `Exec`, `runCmdWithHook` | `Wait` needs the pipes closed, not only the process gone; kill against exit | returns after its context is done; nothing survives it; the cgroup is deleted |
| **cgroup v2 setup** `sandbox/cgroup*.go`, `status.go` | the cgroup tree of the pod, cached probe results | `SetupCgroupV2`, `setupInitLeaf`, `newCgroupExec`, probes | several steps that may fail half way, and a restart after that | a limit that was asked for is enforced or the start fails |
| **Mount policy** `handler.go buildMounts`, `sandbox.go AddAncestorMounts`, `bwrap.go buildArgs`, `policy.go`, `seatbelt_platform.sbpl` | none | pure functions | a bind hides what lies below it, rules add up; the walk to the ancestors stops early | both backends grant what the configuration and the request ask for |
| **Environment** `handler.go`, `config.go`, `sandbox.go buildEnv` | none | `validateEnv`, `FilterEnv`, `EffectiveAllowEnv`, `buildEnv` | the request's entries win over the sandbox's own | only allowed keys reach the command |
| **Configuration** `config.go` | the loaded file | `Load`, defaults, validation | the daemon falls back to an empty configuration | a file that was loaded is enforced |
| **Tool directories** `paths.go` | the list, found once | `allToolDirs`, `buildSandboxPATH` | the disk changes afterwards | what is in PATH can be read |
| **Daemon lifecycle** `daemon.go`, `socket.go` | the path of the socket, the listener, requests under way | `Run`, `listenHTTP`, `waitAndShutdown` | what a crash leaves at the path; a second daemon; signals before and after `signal.Notify` | a daemon that serves is reached; one that ended is replaced; a shutdown ends |
| **launchd service** `launchd.go` | the agent's file, what launchd has loaded | `Install`, `Uninstall`, `Start`, `Stop`, `Restart` | several launchctl calls that fail one by one | the agent runs when it is loaded |
| **Doctor** `status.go` | none | four probes | it looks at PID 1 from another process | it agrees with the daemon |
| **Client and CLI** `client/`, `internal/cli` | none | one request each | the address rules exist twice | client and daemon mean the same address |
| **Process tracker** `process.go` | none | methods that do nothing | | |

Interactions: the HTTP router calls the run handler and the job API; the run
handler asks the token cache, builds mounts and environment, starts a job
goroutine and may hand the job to the registry; the goroutine calls the
sandbox, which may use a cgroup. Job, registry and API share memory under two
mutexes (registry, job) and one channel (`done`). The hazards that follow from
this, each with its line and the properties that cover it, are listed in
`PROJECT.json`.

## Modules

| Module | What it is |
|---|---|
| `RunContract` | what clients of `/run` and `/jobs/{id}` are promised: no goroutines, locks or contexts |
| `RunJobs` | run handler, job goroutine, registry and job API as the code has them; its properties; the mapping to `RunContract` |
| `MCRunJobs` | the instances for TLC |
| `RunJobsProofs` | type correctness, the inductive invariant and the safety theorems |
| `RunJobsRefinement` | the proof that `RunJobs` implements `RunContract` |
| `TokenCache` | the cached token validator: lookup, review, storing and sweeping by concurrent handlers, before an API server that answers as it likes |
| `MCTokenCache` | its instance for TLC |
| `TokenCacheProofs` | its type correctness and safety theorems |
| `ExecContract` | what a caller of `Exec` is promised: no backends, cgroups, signals or goroutines |
| `SandboxExec` | one call of `Exec`: its goroutines, the process tree, the pipes, the cgroup or scratch directory, every way out; its properties; the mapping to `ExecContract` |
| `MCSandboxExec` | its instances for TLC |
| `SandboxExecProofs` | its type correctness and safety theorems |
| `SandboxExecRefinement` | the proof that `SandboxExec` implements `ExecContract` |
| `Mounts` | which files a command can reach: from configuration and request to the list of mounts, and from there to binds and rules |
| `EnvFilter` | which environment it gets |
| `Policy` | both as the stages of a request to a daemon that loaded some file and found some tools; its properties |
| `MountsProofs` | facts about the operators of `Mounts`, for paths of every length |
| `MCPolicy`, `PolicyProofs` | its instance for TLC; type correctness and safety theorems |
| `CgroupSetup` | the steps before a daemon with a limit serves, the kernel's rules for them, and the doctor's probes |
| `Daemon` | addresses, the socket's path, serving and the shutdown |
| `Service` | daemons among those who start, stop and kill them; the launchd commands; the properties |
| `MCService`, `ServiceProofs` | its instance for TLC; type correctness and safety theorems |

`Policy` is composed from `Mounts` and `EnvFilter`, `Service` from `Daemon` and
`CgroupSetup`. `RunJobs` takes over where `Policy` ends: its `refused` is any of
the answers 401, 403, 400 and 500 that `Policy` gives before a command starts,
`TokenCache` is how the token in `Policy` comes to be recognised, and
`SandboxExec` is what happens inside the `exec` of `RunJobs`.

### RunJobs against the code

A request is an element of `Runs` and stands for its handler, its job and its
goroutine; `Callers` are clients of the job API.

| Variable | Code |
|---|---|
| `handler[r]` | where `handleRunAutoBackground` is (`new`, `waiting` in the select) or how it answered: `refused` (401, 403, 400 or a mount error before the start), `result`, `background`, `full` (Add failed), `abandoned` (the client left) |
| `gone` | clients that left before the answer; the request's context is done then, and after the answer (`RequestCtxDone`) and, whoever left, once the read deadline has passed (`ConnectionFails`) |
| `job[r]` | the goroutine: `exec` in `sbx.Exec`, `returned` before `jobCtx.Err()`, `completing` or `killing` before `finish`, `finished` before the deferred calls, `done` after `close(done)` |
| `status[r]`, `read[r]`, `id[r]` | `status`, `lastAccessedAt` (as the time since then), `id` |
| `exit[r]` | whether Exec returned an exit (or an error of its own), or because its context was done |
| `cancelled`, `released` | `job.cancel()` was called; the run-timeout context was cancelled, by `handleRun` or by the job's cleanup |
| `timeout[r]`, `age[r]` | the run timeout; the time since the start, against which threshold, run timeout and sandbox deadline are compared |
| `registered`, `seq` | `BackgroundJobManager.jobs`, `.seq` |
| `call[c]`, `target[c]` | a GET or DELETE between its steps, or its answer; the job pointer it holds |
| `served[r]` | history, not in the code: time since an answer first carried the output. The properties speak of it, not of `read`, so that a mistake in the access time shows |

What one action does is what one goroutine does between two points where others
can be seen: a mutex section (`Background` and `TurnAway` are `Add` with its
collection, `Snapshot` is `snapshot(true)`), a channel operation (`IsDone`,
`CloseDone`), a context check (`Judge`). DELETE is five actions: lookup, look at
`done`, Kill's own lookup, Kill's look at `done` and cancel, reply.

Left out: output (its presence is `served`), listing (`List` takes
`snapshot(false)`, which changes nothing), `Remove` (only tests call it),
truncation, and what makes a request refused before its command starts
(`Policy`). A requested timeout is multiplied by a second modulo the word size
(`Duration`): one that is too large may come out negative, and the command is
then over its run timeout at once.

Time is a set of ages that stop at the largest value a comparison can tell
apart (`AgeCap`, `Retention`), so the clock is unbounded and liveness is not
affected by a horizon. Nothing forces a timer to fire at its exact age: a
handler may be late, and at equal ages every order is explored. A context's
deadline, in contrast, is visible in `Err()` as soon as its age is reached.

### Properties of RunJobs

* `RegistryBounded`, `IdNamesOneJob`: limit and ids, across collections.
* `UnreadResultKept`: a job answered by id leaves the registry only when its
  output was delivered and the retention has passed since the first delivery.
* `KilledHasCause`: the end of a request never kills its background job.
* `NoOrphan`: until its end is recorded, a command is waited for, registered, or
  told to stop.
* `ConflictMeansOver`: "job already completed" is never said of a running job,
  although DELETE looks twice.
* `DeleteStopsItsJob`: the second lookup by id (`KillFind` replaces `target[c]`
  by what it finds) finds the job of the first one or none, although slots change
  hands in between.
* `RefusedOnlyWhenHeld`: `Add` refuses only when every slot is held by a job that
  runs, is unread, or is within its retention.
* `ImplementsContract`: all of it keeps `RunContract`.
* `EveryRunAnswered`, `EveryJobEnds`: liveness, see below.

### Runs and bounds

| Run | Instance | Shows |
|---|---|---|
| `run_jobs` | 2 runs, 2 callers, 1 slot, all timers 1 | safety of registry and API under contention. Two callers are needed for a job to be read and collected between the two lookups of another's DELETE; one slot makes the second run meet the limit |
| `run_jobs_timers` | 2 runs, 1 caller, run timeouts 2 (default) and one that overflows, sandbox deadline 1, read deadline 2 | contexts and timeouts in every order; refinement |
| `run_jobs_live` | 2 runs, 1 caller, fairness, no symmetry; the read deadline lies beyond the ages considered | liveness of the select and the goroutine themselves: the read deadline would end every wait on its own and hide a select that waits for ever |
| `run_jobs_concurrent_limit` | as above | refuted: `jobs.go:193`, the limit is not one on concurrent jobs |
| `run_jobs_read_deadline` | read deadline as long as the threshold, as in the code | refuted: `README.md:106`, a command that still runs may be killed instead of moved to the background, while its client waits |
| `run_jobs_kill_reply` | | refuted: `jobs.go:243` and `client.go:270`, a 200 for a job that completed |
| `run_jobs_default_timeout` | | refuted: `README.md:199`, 2 minutes and not 20 |

Two runs are enough for every pair of a holder and a contender; the theorems
remove the bound. Timers of 1 lose nothing, because an action may be taken at
any age from its threshold on: all orders of threshold, deadline and run
timeout occur at age 1. Where a run timeout longer than the deadline matters it
is 2. Symmetry of runs and callers is used in safety runs only. A word of 8
values with 2 to the second has both a timeout that overflows and one that does
not. No property says that a requested timeout is granted, and it is not:
`handler.go:30` calls the field "seconds, 0 = default", and from about 9.2e9
seconds on the product of `handler.go:208` may be negative, so that the command
is aborted as it starts. The model has this case and the properties hold in it,
because a deadline in the past is a cause to them like any other: `KilledHasCause`
holds since the run timeout has passed, and `RunContract` lets a command be
accepted with its time up. `run_jobs_live` has no such timeout.

`handler.go:52` says that status "background" means still running. The select
looks at its timer only, so a command that ended since the last poll is answered
with a job id as well; the result is kept for the client (`UnreadResultKept`).
The answer that moves a command to the background also omits
`stripped_env_keys`.

### Fairness

`FairSpec` assumes that time passes, that a handler whose select has a ready
case goes on, and that a goroutine past `Exec` reaches its end: the Go scheduler
and runtime timers give that, and none of these steps waits for a lock that is
held across a blocking call. Nothing is assumed of clients, of the command, or
of `Exec`: `EveryRunAnswered` holds although `Exec` may never return.
`EveryJobEnds` has the assumption that `Exec` returns after its context is done
written into it (`ExecHonoursContext`); whether it does is a question about the
process and its pipes that `SandboxExec` answers.

Definitions named `Faulty...` are plausible mistakes in the definition they
precede. No specification uses them; each shows that a property would notice.

### TokenCache against the code

`entry[t]` is the time since `set` stored token `t` (`None` if it is not
cached), so an entry has expired at age TTL + 1, the first at which `After`
holds. `handler[h]` says where a handler is in `ValidateToken`: in `get` with a
copy of an entry (`check`, its age in `copy[h]`) or about to evict (`evict`),
waiting for the API server (`review`), or with a positive answer on its way
(`set`, for `transit[h]`), and at the end `admitted` or `denied`.
`vouched[t]` is history, not in the code: the time since the API server last said
that `t` is authenticated, `None` if it never has. What it answers is its own
affair, so a revocation, a forged token and an outage are all answers it may
give. `get` is three actions because it takes the read lock, no
lock and the write lock in turn: between them another handler may store, evict
or sweep. `ReviewTimeout` stands for the 10 s of the in-cluster HTTP client,
which cover the answer's body too; that storing an answer follows its arrival
without delay is an assumption of the clock (`Tick`).

Usernames are left out: a token has one, `IsRequiredSA` compares it with a
fixed list after `ValidateToken`, and to be admitted here means to be
recognised. Without a username in it, the cache is a set of ages.

* `StalenessBounded`: a token is recognised for at most TTL + `ReviewTimeout`
  after the API server last vouched for it, and never if it has not. The TTL
  alone is no bound: it starts when the answer is stored. Nor is a renewal
  possible through a late answer, because an answer too old is never stored.
* `EntriesAuthenticated`: an entry is never younger than the answer behind it,
  and there is such an answer.
* `ExpiredEntriesGo`: the sweeper removes the entries of tokens that are never
  presented again.
* `EveryTokenDecided`: the locks of `get` are not nested and its lookup is not
  repeated, so no handler stays.

Run `token_cache`: 2 tokens, 2 handlers, TTL and timeout 1. Two handlers are
needed for concurrent misses and for an eviction of another's fresh entry; with
both times 1 a bound of the TTL alone fails. Its fairness: the sweeper's
goroutine runs at its ticks, a review ends (its client has a timeout), and a
handler inside `get` goes on. Nothing is assumed of callers or of the API server.

### SandboxExec against the code

`pc` is the goroutine of `Exec` from `begin` through making the cgroup (or
seatbelt's scratch directory), opening it or building the policy (`prepare`),
`cmd.Start`, `cmd.Wait` and the look at the context (`judge`) to the deferred
calls (`kill`, `delete`). `held` is what has to be given back: `dir`, the
directory, and `fd`, its descriptor; `grouped` says that the process starts in
the cgroup. `ctx` is the context with the sandbox's deadline. Beside that goroutine
run the one by which `exec.CommandContext` kills (`KillMain`) and the processes:
`Main` is what `cmd.Start` starts (bwrap with the shell it runs, `sandbox-exec`,
or bash) and dies as one, `Descendants` are what the command starts. `proc[p]`
is `doomed` between a SIGKILL and its effect; `writers` have the output pipes
open.

The processes and the kernel are external and modelled by what the code relies
on: a fork inherits the pipes or redirects its output; with the first process a
PID namespace goes (`AfterEnd`; `buildArgs` asks for one except in Kubernetes
mode); a cgroup with a process in it, doomed or not, cannot be deleted; the
kernel may kill any member for memory. Left out: `postStart`, which every caller
passes as nil; truncation; `UnavailableSandbox`, which only returns an error. That a
limit without a usable cgroup is not enforced is the `Passthrough` step.

* `ExitIsTrue`: a command killed by its context is never reported by an exit
  status. The converse does not hold and is not claimed: a command that has ended
  is reported as aborted if a descendant kept its output open until the deadline.
* `OutputComplete`: nobody can write to the buffers once they are read.
* `GroupEnds`: what ran under a limit does not outlive `Exec`, unless the kill
  was reported to have failed.
* `NamespaceEnds`: in a PID namespace nothing outlives `Exec`, also without a limit:
  a process that wrote elsewhere holds up nothing and goes with bwrap.
* `LitterHasReason`: on every way out the descriptor is closed, and the directory
  stays only when processes (cgroup) or files of the command (scratch) are in it.
  A cgroup does stay when a process has been killed and is not gone yet: `cleanup`
  deletes right after it kills, and only logs that it could not.
* `ExecReturns`: in a PID namespace `Exec` returns after its deadline whatever the
  command does; elsewhere if, from some time on, no descendant keeps the output
  open. This is what `EveryJobEnds` of `RunJobs` assumes as `ExecHonoursContext`,
  so that assumption is right for bwrap outside Kubernetes mode only.
* `ImplementsPromise`: all of it keeps `ExecContract`. Its `active` are the
  processes no signal is on its way to, its `talking` those that still have the
  output, its `killed` is `cut`, and its `confined` says that what the command
  started can be found and killed: it is in a PID namespace, or in a cgroup whose
  kill has not failed. The contract lets a caller be answered only when nobody
  talks any more and, if confined, nobody is active; a failed kill of the cgroup
  is its `LoseControl`, the one way in which the promise is weakened.

Run `sandbox_exec`: all four backends, with and without a limit, 3 descendants,
so that a tree of depth 3 or a process forked between any two steps exists; the
theorems remove the bound. `sandbox_exec_timeout` refutes `sandbox/doc.go:6`: without
a PID namespace the deadline is not enforced. `CHECK_DEADLOCK FALSE`, because the
system stops when `Exec` has returned and all processes are gone. Fairness: the goroutines
go on, the deadline passes, a SIGKILL takes effect; the command may run for ever.

### Policy against the code

A path is the sequence of its names; `Below` is "is it or lies under it". A
mount is a path with a mode, because every mount the daemon makes has Source
equal to Target. Left out of the mount list are the command, the working
directory and `/dev`, `/proc`, `/etc` and the network, which do not depend on
configuration or request.

| Variable | Code |
|---|---|
| `file`, `home` | the operator's file when the daemon started, whether `user.Current` worked: what `Load` gets |
| `cfg` | the configuration that `Run` goes on with: the file's, the defaults, or the empty one after a failure |
| `looked`, `tools` | `cachedToolDirsOnce`, `cachedToolDirs` |
| `disk` | what `os.Stat` finds; it changes between the stages of a request and between requests |
| `stage`, `req`, `status` | how far `handleRun` has got with a request, and its answer |
| `mounts`, `env` | the list before `AddAncestorMounts` (what that adds is `AncestorMounts`), the result of `FilterEnv` |

`BwrapWritable` is what the order of binds amounts to: a path is writable when a
writable bind holds it and no later read-only one does. `SeatbeltWritable` is
the sum of the rules. `Giver` says whose entry of a key counts after
`os/exec` has dropped the others.

* `AuthEnforced`: handler.go:181 enforces authentication only if the switch is on
  and accounts are named, and `Run` goes on with an empty configuration when
  `Load` fails. It holds because `Load` refuses a file with the switch and no
  accounts; that a file which cannot be loaded turns authentication off, with a
  log line that speaks of mounts only, is written into the property.
* `PathIsCurated`: keys of the request come after PATH, TERM and GOTELEMETRY,
  so only the patterns keep them out.
* `GrantsAgree`: on both backends the same existing paths are writable, but for
  those the request makes read-only: there bwrap hides what a writable mount
  above grants, and seatbelt does not. `BwrapNoWider`: for every request the
  difference has that direction.
* `AncestorsVisible`: the walk up from a mount stops at a directory that is
  listed. If that is a metadata-only entry of the request itself, the
  directories above it stay out, which the property excepts.
* `ToolsReadable`: PATH, binds and rules are made from what was found once.

Run `policy`: a tree of depth 3, files that set two paths, one below the other
or the same, requests with up to two paths out of three in every mode, three
disks. A conflict of mounts needs one path above another and two entries, so
this has every pair; the theorems have any list.

Seen while modelling, and not properties: an invalid environment is answered
with 500, although the comment at handler.go:334 has 400 for validation errors;
the working directory is the request's first path even when its bind is skipped
because it does not exist; `socket_path` of the configuration (README.md:105) is
loaded and expanded, and the daemon never looks at it.

### Service against the code

There are two processes that may run `daemon.Run`: `main`, which launchd or the
container starts, and `other`, started beside it. `pc[d]` is the place in `Run`:
the steps of `SetupCgroupV2` (`start` to `verify`), `load`, removing and taking
the socket's path, `serving`, the two halves of `Shutdown`, then `exit` until
somebody collects the process, and `off`. `host` is the machine: launchd or a
container, what it has of cgroups, whether the container's first process is
another than temenos (`wrapped`), the limit and the two address variables, once
for the daemon and once for the shell that the client and the command line run in
(`shell`). Under launchd the two differ as soon as a shell sets a variable, for
the agent's file passes on none of them.

| Variable | Code |
|---|---|
| `where[d]` | the cgroup of the process: the pod's (`root`) or the leaf `init` |
| `base[d]`, `ready[d]` | `execCgroupBase`, `cgroupReady` |
| `initDir`, `subtree` | whether `init/` exists, whether root's `cgroup.subtree_control` has memory |
| `path` | whom the address leads to: a daemon's listener, nobody's socket (`stale`), or nothing (`free`) |
| `open[d]`, `work[d]` | the listener; a request under way |
| `plist`, `loaded`, `cli` | the agent's file, launchd's view of it, the command under way |
| `alone` | history: main has had no other daemon and no uninstall beside it since it started |

Every file operation and every launchctl call is a step and may fail where the
code handles a failure. A unix socket's path stays when its process is killed and
is unlinked by name when a listener is closed, whoever owns the name by then; a
container that ends takes its cgroups and files with it.

* `LimitEnforceable`: with a limit, a daemon serves only when the base of the
  execution cgroups hands the controller down and holds no process. A process
  that starts inside the leaf skips `+memory`, so that setups cut short,
  repeated or disturbed by the other daemon all have to end in the check.
* `DoctorAgrees`: what the doctor reads of PID 1 is what the daemon has done.
* `ServingReachable`: nothing a predecessor left at the path keeps clients from
  main. With `other` or an uninstall beside it this is not so: a second daemon
  takes the path away, and unlinks it when it ends; an uninstall without the
  agent's file does not unload the agent but removes its socket.
* `AddressesAgree`: client and daemon parse the address with two pieces of code
  and take it for the same kind of place; they mean the same place if both run in
  one environment. Under launchd they may not: the variable of `README.md:46`,
  set in a shell, moves the client and the socket that uninstall removes, but not
  the installed agent. The model has this case, and the property is silent on it.
* `ServesAgain`: after the last disturbance main serves at its address for good,
  on a host that allows it.
* `ShutdownEnds`: also if a request is never answered.

Run `service`: a Mac, with and without variables in the shell, and pods that each
lack one thing, every form of address,
5 disturbances (crash, signal, command, second daemon, failing remove or server).
Crash, second daemon, its end and an uninstall after an install are 4; 5 leaves
one for a signal. `CHECK_DEADLOCK FALSE`, because an agent that is not loaded
does not run again. Fairness: a daemon takes its steps, launchd and the
container runtime start again what has ended, a command that was begun goes on.
Nothing is assumed of requests, of the order of failures, or that anybody runs
a command.

A wrapped container with a limit never starts to serve: its first process
stays in the pod's cgroup, and `+memory` is refused for as long as it lives
(`Capable`). A SIGTERM between the start of the server and `signal.Notify` ends
the daemon without a shutdown. Jobs in the background end with the daemon.

## Proofs

`RunJobsProofs` and `RunJobsRefinement` assume `RunsAssumption` (finitely many
requests; a null pointer is no job), `LimitAssumption` (the limit is a positive
number) and `TimerAssumption` (positive timers, not longer than `AgeCap`): what
the constants in the code satisfy. They hold for any number of requests,
callers and slots.

1. `TypeCorrect`. `TypeOK` is not inductive: `KillCancel` adds `target[c]` to
   `cancelled`. `TypeInv` adds that a call under way holds a job.
2. `Inv` is the inductive invariant. `LifeInv` ties the handler's answer to the
   goroutine's place; `IdInv` bounds ids by `seq`; `ReadInv` says that the access
   time is that of the first delivery, is only set on a finished job, and that
   what left the registry had expired; `CauseInv` says that the run-timeout
   context of a job that is waited for or was answered by id is released only
   by its own end; `CallInv` says that a call under way holds a job answered by
   id. None of the properties is inductive alone: `UnreadResultKept` needs
   `read = served`, `ConflictMeansOver` needs it and `CallInv`, `NoOrphan` needs
   `LifeInv` for the errors and `ReadInv` for collected jobs.
3. From `Inv`: `RegistryIsBounded` (with the library's facts on cardinality),
   `IdsNameOneJob`, `UnreadResultsAreKept`, `KillsHaveCauses`,
   `NoCommandIsOrphaned`, `ConflictsAreTrue` and, for the action properties,
   `RefusalsAreJustified` and `DeletesStopTheirJobs`: an id of `CallInv`'s job
   is not given again (`IdInv`).
4. `ContractIsImplemented`: each action of `RunJobs` maps to an action of
   `RunContract` or to a stutter, given `Inv` before and after.

`TokenCacheProofs` assumes `TokenAssumption` (the placeholder is no token) and
`TimeAssumption` (both times are natural numbers, zero included).
`TokenTypesCorrect` is inductive as it stands and carries the bound on answers
under way. `EntriesAuthenticated` is not: `HeldInv` adds that what `get` has
copied obeys the same bound as the entry it copied, and that the API server has
vouched for the token of an answer on its way no longer ago than its journey.
`EntriesAreAuthenticated` and `StalenessIsBounded` follow.

`SandboxExecProofs` assumes `ProcAssumption` (the first process is not one of
its descendants). `SandboxInv` adds to the types: `TreeInv` (no process before
`Start`; after `Wait` neither the first process nor anyone with its output; no
process has the output before it exists), `CutInv` (a kill has its cause),
`HeldInv` (the descriptor is held only with its directory and not past the kill;
a command runs in a cgroup that is there) and `EndInv` (`GroupEnds` from the kill
on). `ExitStatusIsTrue`, `OutputIsComplete`, `GroupsEnd` and `LitterHasAReason`
follow for process trees of every size. `ExecInv` adds two facts the types do not
have: `NamespaceInv` (once the first process of a namespace is gone, nobody in it
is alive) and `StartedInv` (before `Start` nothing was born, from `Wait` on the
first process was); `NamespacesEnd` follows.

`SandboxExecRefinement` shows `PromiseIsKept`: given `ExecInv`, the initial states
of `SandboxExec` are initial states of `ExecContract` and each of its actions is
one action of the contract or a stutter. Many steps have a second way to be
one: a SIGKILL, an exit and the end of a namespace are all a `Shrink`, and the
kill of the cgroup is `Shrink` if it works and `LoseControl` if not.

`PolicyProofs` assumes `BaselineAssumption` (the baseline's patterns match none of
the sandbox's own keys), `InputsAssumption` (the shape of files and requests; home is a list of names),
`DisksAssumption` (what exists has its parents) and `ToolsAssumption` (a tool's
bin directory is in one of its own read directories). The invariant `Inv` adds
to the types that configuration, mounts and environment are what the code
computes from file and request; it is needed because the properties speak of a
file that was read long ago. `AuthIsEnforced` and `PathIsTheSandboxs` follow with
facts about the operators. `BwrapIsNoWider` takes the bind that makes a path
writable; `GrantsAgreeOnBothBackends` rests on `ThreeLists`: every read-only
entry after a writable one is the request's. `ToolsAreReadable` uses that a
parent of what exists exists. `AncestorsAreVisible` takes, of the directories
between a mount and the one in question that are listed, the shortest: the walk
from its entry meets nothing listed on the way up, unless the request made it a
metadata-only entry, which is the exception the property names.

`MountsProofs` has what this and the types rest on. `Clean` is a recursive
function over the elements of a path, so its facts need an induction:
`SetInduction` does one over a set of natural numbers, from the library's fact
that `<` is well founded, because the induction theorems that take an operator
cannot be used. `CleanNamesNoParent` and `CleanKeepsClean` follow from it for
paths of every length, and so does that on a clean path `filepath.Dir` takes the
last name away and nothing else (`DirOfClean`); `WalksReachAncestors` is what `AncestorsAreVisible` cites.

`ServiceProofs` assumes `DaemonAssumption` (an agent of launchd has no limit and
no address in its environment, as its file has neither; a shell may have one). `TypeOK` is inductive
and ties the listener to the phase. `SetupInv` follows the setup: once root
hands memory down, every living process is in the leaf (`SubtreeInv`), which a
new process cannot spoil because a main that is gone has taken the cgroups with
it (`ContainerInv`); `SetupOf` says what each phase has established.
`LimitIsEnforceable` and `DoctorAgreesWithDaemon` follow. `PathInv` says that
main, alone, owns the path from its bind on; `ServingIsReachable` and
`AddressesAlwaysAgree` follow. Every step that is no part of the setup is shown
to be `Quiet` first, and the invariant is shown once for all of them.

Every invariant, every action property and both refinements that a passing run
checks are theorems. Only model-checked: the liveness properties
`EveryRunAnswered`, `EveryJobEnds`, `ExpiredEntriesGo`, `EveryTokenDecided`,
`ExecReturns`, `ServesAgain` and `ShutdownEnds`, because the prover has no
fairness or ENABLED, and the properties that are refuted.

## Not modelled

* The process tracker: its methods are empty.
* `temenos job`, `doctor` and the flags: they print what other components say.
* JSON, HTTP encoding, truncation of output, logging.
* The rules and mounts for devices, `/proc`, `/etc` and the network, which are
  the same for every command.
* Paths of the configuration without a leading `~` that contain `..`: `ExpandHome`
  leaves them as they are, and the kernel resolves them when they are bound. In
  `Policy` the bind of such a path is at its own names; the directories above it
  are those of `filepath.Dir`, which cleans (`Dir`).
* A daemon that is started by hand at another address than the agent's: the two
  do not meet.
* The in-cluster HTTP client of the token review, set up once, and service
  account names, which are compared as a whole.
* Making the directory of the socket before it is bound; the contents of
  `/proc/self/cgroup` beyond root and `init`.
* Jobs across restarts of the daemon: ids are the counter in hexadecimal, which
  starts at `000001` again, and an answer does not say which daemon's job it is
  about.
