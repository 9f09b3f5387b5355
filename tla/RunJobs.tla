------------------------------ MODULE RunJobs ------------------------------
(***************************************************************************)
(* How the daemon runs a command: the /run handler, the goroutine that     *)
(* owns the command, the registry of background jobs and the job API.      *)
(*   internal/daemon/handler.go  handleRun, handleRunAutoBackground,       *)
(*                               handleHTTPJobGet, handleHTTPJobKill       *)
(*   internal/daemon/jobs.go     BackgroundJob, BackgroundJobManager       *)
(*                                                                         *)
(* Four kinds of actor interleave: the request handler of each run, its    *)
(* job goroutine, the callers of GET and DELETE /jobs/{id}, and the clock. *)
(* An action is what one of them does between two points where another     *)
(* can be seen: a mutex section, a channel operation, a context check.     *)
(*                                                                         *)
(* Time is kept as ages that stop growing at the largest value that any    *)
(* comparison in the code can tell apart, so the clock needs no bound.     *)
(***************************************************************************)
EXTENDS Integers, FiniteSets

CONSTANTS
    Runs,               \* the /run requests
    Callers,            \* the clients of GET and DELETE /jobs/{id}
    MaxJobs,            \* maxBackgroundJobs
    BackgroundAfter,    \* auto_background_after
    DefaultRunTimeout,  \* defaultRunTimeout
    ExecTimeout,        \* the Timeout the daemon gives its sandbox
    Retention,          \* completedJobRetention
    ReqTimeouts,        \* the values of RunRequest.Timeout considered
    ReadTimeout,        \* serverReadTimeout; above AgeCap it is never reached
    Second,             \* time.Second, in the unit of time.Duration
    WordSize,           \* the number of values of a time.Duration
    AgeCap,             \* the age at which a run's clock may stop
    NoRun               \* no job pointer

(* time.Duration(t) * time.Second is a product of machine words.           *)
Duration(t) == ((t * Second + WordSize \div 2) % WordSize) - WordSize \div 2

(* The first second at which a run has no time left.                       *)
RunTimeout(t) ==
    IF t > 0 THEN -((-Duration(t)) \div Second) ELSE DefaultRunTimeout

RunTimeouts == {RunTimeout(t) : t \in ReqTimeouts}

ASSUME RunsAssumption == IsFiniteSet(Runs) /\ NoRun \notin Runs

ASSUME LimitAssumption == MaxJobs \in Nat \ {0}

ASSUME TimerAssumption ==
    /\ BackgroundAfter \in Nat \ {0}
    /\ DefaultRunTimeout \in Nat \ {0}
    /\ ExecTimeout \in Nat \ {0}
    /\ Retention \in Nat \ {0}
    /\ ReqTimeouts \subseteq Int
    /\ ReadTimeout \in Nat \ {0}
    /\ Second \in Nat \ {0}
    /\ WordSize \in Nat \ {0}
    /\ AgeCap \in Nat
    /\ BackgroundAfter <= AgeCap
    /\ ExecTimeout <= AgeCap
    /\ \A t \in RunTimeouts : t <= AgeCap

VARIABLES
    handler,     \* where the handler of each run is, or how it answered
    gone,        \* the runs whose client left before the answer
    job,         \* where the job goroutine of each run is
    status,      \* BackgroundJob.status
    exit,        \* how sandbox.Exec returned
    cancelled,   \* the runs on which job.cancel() was called
    released,    \* the runs whose run-timeout context was cancelled
    timeout,     \* the run timeout of each run
    age,         \* time since the run was started
    read,        \* time since lastAccessedAt, Never while it is zero
    registered,  \* the jobs in BackgroundJobManager.jobs
    id,          \* BackgroundJob.id, 0 while it is empty
    seq,         \* BackgroundJobManager.seq
    call,        \* where each API call is, or how it was answered
    target,      \* the job pointer that each API call holds
    served       \* history: time since an answer first carried the output

reqVars  == <<handler, gone>>
jobVars  == <<job, status, exit>>
ctxVars  == <<cancelled, released, timeout, age>>
readVars == <<read, served>>
regVars  == <<registered, id, seq>>
apiVars  == <<call, target>>
vars     == <<reqVars, jobVars, ctxVars, readVars, regVars, apiVars>>

Never == -1

Active == {"exec", "returned", "completing", "killing", "finished"}

Pending == {"get", "check", "find", "cancel", "reply"}

Replied == {"idle", "ok", "notFound", "conflict", "killed"}

TypeOK ==
    /\ handler \in [Runs -> {"new", "refused", "waiting", "result",
                             "background", "full", "abandoned"}]
    /\ gone \subseteq Runs
    /\ job \in [Runs -> Active \cup {"none", "done"}]
    /\ status \in [Runs -> {"running", "completed", "killed"}]
    /\ exit \in [Runs -> {"none", "exited", "aborted"}]
    /\ cancelled \subseteq Runs
    /\ released \subseteq Runs
    /\ timeout \in [Runs -> RunTimeouts \cup {DefaultRunTimeout}]
    /\ age \in [Runs -> 0..AgeCap]
    /\ read \in [Runs -> Never..Retention]
    /\ served \in [Runs -> Never..Retention]
    /\ registered \subseteq Runs
    /\ id \in [Runs -> Nat]
    /\ seq \in Nat
    /\ call \in [Callers -> Pending \cup Replied]
    /\ target \in [Callers -> Runs \cup {NoRun}]

Init ==
    /\ handler = [r \in Runs |-> "new"]
    /\ gone = {}
    /\ job = [r \in Runs |-> "none"]
    /\ status = [r \in Runs |-> "running"]
    /\ exit = [r \in Runs |-> "none"]
    /\ cancelled = {}
    /\ released = {}
    /\ timeout = [r \in Runs |-> DefaultRunTimeout]
    /\ age = [r \in Runs |-> 0]
    /\ read = [r \in Runs |-> Never]
    /\ served = [r \in Runs |-> Never]
    /\ registered = {}
    /\ id = [r \in Runs |-> 0]
    /\ seq = 0
    /\ call = [c \in Callers |-> "idle"]
    /\ target = [c \in Callers |-> NoRun]

-----------------------------------------------------------------------------
(* What the contexts report.  A request's context is done when it was       *)
(* answered, and when reading the connection fails: the client left, or the *)
(* server's read deadline has passed, which net/http sets when it starts to *)
(* read a request and leaves in force while the handler runs.  The          *)
(* connection is a little older than the run, so that the deadline of a run *)
(* is never later than this.                                                *)
(* The job's context is a child of the run-timeout context, itself a child  *)
(* of context.Background(): the request's context is no ancestor.  The      *)
(* sandbox adds its own deadline.                                           *)

ConnectionFails(r) == r \in gone \/ age[r] >= ReadTimeout

RequestCtxDone(r) == ConnectionFails(r) \/ handler[r] \notin {"new", "waiting"}

(* Definitions named Faulty... are plausible mistakes in the definition     *)
(* that follows them; each makes one property below fail.                   *)

(* The job context made from the request's context.                         *)
FaultyJobCtxErr(r) ==
    \/ r \in cancelled \/ r \in released \/ age[r] >= timeout[r]
    \/ RequestCtxDone(r)

JobCtxErr(r) == r \in cancelled \/ r \in released \/ age[r] >= timeout[r]

(* No deadline on the way to the process.                                   *)
FaultyExecCtxErr(r) == r \in cancelled \/ r \in released

ExecCtxErr(r) == JobCtxErr(r) \/ age[r] >= ExecTimeout

(* The access is marked although the job still runs.                        *)
FaultyTouched(r) ==
    IF read[r] = Never THEN [read EXCEPT ![r] = 0] ELSE read

(* snapshot(true): output, and the first access, only for a finished job.  *)
Touched(r) ==
    IF status[r] # "running" /\ read[r] = Never
    THEN [read EXCEPT ![r] = 0] ELSE read

Snapshot(r) ==
    /\ read' = Touched(r)
    /\ served' = IF status[r] # "running" /\ served[r] = Never
                 THEN [served EXCEPT ![r] = 0] ELSE served

(* The zero time of a result never read counts as long ago.                 *)
FaultyExpired(r) ==
    status[r] # "running" /\ (read[r] = Never \/ read[r] >= Retention)

(* isExpired, and what gcLocked leaves in the registry.                    *)
Expired(r) == status[r] # "running" /\ read[r] # Never /\ read[r] >= Retention

(* Add without its garbage collection.                                      *)
FaultyKept == registered

Kept == {r \in registered : ~ Expired(r)}

(* The limit compared with > .                                              *)
FaultyHasRoom == Cardinality(Kept) <= MaxJobs

HasRoom == Cardinality(Kept) < MaxJobs

(* The id taken from the size of the registry.                              *)
FaultyNextId == Cardinality(Kept) + 1

NextId == seq + 1

(* done closed before the terminal status is recorded.                      *)
FaultyIsDone(r) == job[r] \notin {"none", "exec"}

IsDone(r) == job[r] = "done"

-----------------------------------------------------------------------------
(* The /run handler.                                                       *)

(* Authentication is refused, or mounts or environment keys are, by the    *)
(* first checks of handleRunAutoBackground: no job starts.                 *)
Refuse(r) ==
    /\ handler[r] = "new"
    /\ handler' = [handler EXCEPT ![r] = "refused"]
    /\ UNCHANGED <<gone, jobVars, ctxVars, readVars, regVars, apiVars>>

StartRun(r, t) ==
    /\ handler[r] = "new"
    /\ handler' = [handler EXCEPT ![r] = "waiting"]
    /\ timeout' = [timeout EXCEPT ![r] = RunTimeout(t)]
    /\ job' = [job EXCEPT ![r] = "exec"]
    /\ UNCHANGED <<gone, status, exit, cancelled, released, age, readVars,
                   regVars, apiVars>>

(* A poll of the ticker finds the job done: answer with its result.        *)
PollDone(r) ==
    /\ handler[r] = "waiting"
    /\ IsDone(r)
    /\ Snapshot(r)
    /\ released' = released \cup {r}
    /\ handler' = [handler EXCEPT ![r] = "result"]
    /\ UNCHANGED <<gone, jobVars, cancelled, timeout, age, regVars, apiVars>>

(* The threshold timer fires and Add has room: answer with a job id.  The  *)
(* select may choose this case even when the job is already done.          *)
Background(r) ==
    /\ handler[r] = "waiting"
    /\ age[r] >= BackgroundAfter
    /\ HasRoom
    /\ seq' = seq + 1
    /\ id' = [id EXCEPT ![r] = NextId]
    /\ registered' = {q \in Kept : id[q] # NextId} \cup {r}
    /\ handler' = [handler EXCEPT ![r] = "background"]
    /\ UNCHANGED <<gone, jobVars, ctxVars, readVars, apiVars>>

(* A full registry is waited for.                                           *)
FaultyTurnAway(r) == FALSE

(* The threshold timer fires and Add has no room: the command is stopped.  *)
(* What Add collected stays collected.                                     *)
TurnAway(r) ==
    /\ handler[r] = "waiting"
    /\ age[r] >= BackgroundAfter
    /\ ~ HasRoom
    /\ registered' = Kept
    /\ cancelled' = cancelled \cup {r}
    /\ released' = released \cup {r}
    /\ handler' = [handler EXCEPT ![r] = "full"]
    /\ UNCHANGED <<gone, jobVars, timeout, age, readVars, id, seq, apiVars>>

(* The client of a waiting request leaves.                                 *)
ClientGone(r) ==
    /\ handler[r] = "waiting"
    /\ r \notin gone
    /\ gone' = gone \cup {r}
    /\ UNCHANGED <<handler, jobVars, ctxVars, readVars, regVars, apiVars>>

(* The job is not told that its client left.                                *)
FaultyAbandon(r) ==
    /\ handler[r] = "waiting"
    /\ RequestCtxDone(r)
    /\ handler' = [handler EXCEPT ![r] = "abandoned"]
    /\ UNCHANGED <<gone, jobVars, ctxVars, readVars, regVars, apiVars>>

Abandon(r) ==
    /\ handler[r] = "waiting"
    /\ RequestCtxDone(r)
    /\ cancelled' = cancelled \cup {r}
    /\ released' = released \cup {r}
    /\ handler' = [handler EXCEPT ![r] = "abandoned"]
    /\ UNCHANGED <<gone, jobVars, timeout, age, readVars, regVars, apiVars>>

HandlerStep(r) == PollDone(r) \/ Background(r) \/ TurnAway(r) \/ Abandon(r)

-----------------------------------------------------------------------------
(* The job goroutine.                                                      *)

(* Exec returns an exit code, or fails for a reason of its own.            *)
ExecExits(r) ==
    /\ job[r] = "exec"
    /\ job' = [job EXCEPT ![r] = "returned"]
    /\ exit' = [exit EXCEPT ![r] = "exited"]
    /\ UNCHANGED <<reqVars, status, ctxVars, readVars, regVars, apiVars>>

(* Exec returns because its context is done: the process was killed, or    *)
(* its exit is not believed.                                               *)
ExecAborted(r) ==
    /\ job[r] = "exec"
    /\ ExecCtxErr(r)
    /\ job' = [job EXCEPT ![r] = "returned"]
    /\ exit' = [exit EXCEPT ![r] = "aborted"]
    /\ UNCHANGED <<reqVars, status, ctxVars, readVars, regVars, apiVars>>

(* The goroutine asks jobCtx.Err() once, with no lock held.                *)
Judge(r) ==
    /\ job[r] = "returned"
    /\ job' = [job EXCEPT ![r] = IF JobCtxErr(r) THEN "killing"
                                                 ELSE "completing"]
    /\ UNCHANGED <<reqVars, status, exit, ctxVars, readVars, regVars, apiVars>>

(* The way Exec returned recorded as the status.                            *)
FaultyFinish(r) ==
    /\ job[r] \in {"killing", "completing"}
    /\ status' = [status EXCEPT ![r] = exit[r]]
    /\ job' = [job EXCEPT ![r] = "finished"]
    /\ UNCHANGED <<reqVars, exit, ctxVars, readVars, regVars, apiVars>>

Finish(r) ==
    /\ job[r] \in {"killing", "completing"}
    /\ status' = [status EXCEPT ![r] = IF job[r] = "killing" THEN "killed"
                                                             ELSE "completed"]
    /\ job' = [job EXCEPT ![r] = "finished"]
    /\ UNCHANGED <<reqVars, exit, ctxVars, readVars, regVars, apiVars>>

(* The deferred calls: release the run-timeout context, then close(done).  *)
CloseDone(r) ==
    /\ job[r] = "finished"
    /\ released' = released \cup {r}
    /\ job' = [job EXCEPT ![r] = "done"]
    /\ UNCHANGED <<reqVars, status, exit, cancelled, timeout, age, readVars,
                   regVars, apiVars>>

JobStep(r) == Judge(r) \/ Finish(r) \/ CloseDone(r)

-----------------------------------------------------------------------------
(* GET and DELETE /jobs/{id}.  Get returns a pointer; the registry lock is  *)
(* not held while the handler goes on.  DELETE looks the id up twice.       *)

Answer(c, reply) == call' = [call EXCEPT ![c] = reply]

Lookup(c, i, first) ==
    /\ call[c] \in Replied
    /\ \E r \in registered :
         /\ id[r] = i
         /\ target' = [target EXCEPT ![c] = r]
         /\ Answer(c, first)
    /\ UNCHANGED <<reqVars, jobVars, ctxVars, readVars, regVars>>

LookupMiss(c, i) ==
    /\ call[c] \in Replied
    /\ \A r \in registered : id[r] # i
    /\ target' = [target EXCEPT ![c] = NoRun]
    /\ Answer(c, "notFound")
    /\ UNCHANGED <<reqVars, jobVars, ctxVars, readVars, regVars>>

GetReply(c) ==
    /\ call[c] = "get"
    /\ Snapshot(target[c])
    /\ Answer(c, "ok")
    /\ target' = [target EXCEPT ![c] = NoRun]
    /\ UNCHANGED <<reqVars, jobVars, ctxVars, regVars>>

DeleteCheck(c) ==
    /\ call[c] = "check"
    /\ Answer(c, IF IsDone(target[c]) THEN "conflict" ELSE "find")
    /\ UNCHANGED <<reqVars, jobVars, ctxVars, readVars, regVars, target>>

(* Kill: the lookup under the read lock ...                                *)
KillFind(c) ==
    /\ call[c] = "find"
    /\ \/ /\ \E r \in registered :
               /\ id[r] = id[target[c]]
               /\ target' = [target EXCEPT ![c] = r]
          /\ Answer(c, "cancel")
       \/ /\ \A r \in registered : id[r] # id[target[c]]
          /\ Answer(c, "conflict")
          /\ UNCHANGED target
    /\ UNCHANGED <<reqVars, jobVars, ctxVars, readVars, regVars>>

(* ... and, after the unlock, the look at done and the cancel.             *)
KillCancel(c) ==
    /\ call[c] = "cancel"
    /\ \/ /\ IsDone(target[c])
          /\ Answer(c, "conflict")
          /\ UNCHANGED cancelled
       \/ /\ ~ IsDone(target[c])
          /\ cancelled' = cancelled \cup {target[c]}
          /\ Answer(c, "reply")
    /\ UNCHANGED <<reqVars, jobVars, released, timeout, age, readVars, regVars,
                   target>>

DeleteReply(c) ==
    /\ call[c] = "reply"
    /\ Snapshot(target[c])
    /\ Answer(c, "killed")
    /\ UNCHANGED <<reqVars, jobVars, ctxVars, regVars, target>>

-----------------------------------------------------------------------------
(* Time passes for every clock at once.  The clock of a run matters while   *)
(* its handler waits or its job is not over; the clock of an access, from   *)
(* the access to the end of the retention.                                  *)

Ticking(r) == handler[r] = "waiting" \/ job[r] \in Active

Older(clock, bound) == IF clock < bound THEN clock + 1 ELSE clock

Tick ==
    /\ age' = [r \in Runs |-> IF Ticking(r) THEN Older(age[r], AgeCap)
                                            ELSE age[r]]
    /\ read' = [r \in Runs |-> IF read[r] = Never THEN Never
                                                  ELSE Older(read[r], Retention)]
    /\ served' = [r \in Runs |-> IF served[r] = Never THEN Never
                                 ELSE Older(served[r], Retention)]
    /\ <<age, read, served>>' # <<age, read, served>>
    /\ UNCHANGED <<reqVars, jobVars, cancelled, released, timeout, regVars,
                   apiVars>>

-----------------------------------------------------------------------------
Ids == 1..(seq + 1)     \* every id given out, and one that is unknown

Next ==
    \/ \E r \in Runs :
         \/ Refuse(r)
         \/ \E t \in ReqTimeouts : StartRun(r, t)
         \/ PollDone(r)
         \/ Background(r)
         \/ TurnAway(r)
         \/ ClientGone(r)
         \/ Abandon(r)
         \/ ExecExits(r)
         \/ ExecAborted(r)
         \/ Judge(r)
         \/ Finish(r)
         \/ CloseDone(r)
    \/ \E c \in Callers :
         \/ \E i \in Ids : Lookup(c, i, "get")
         \/ \E i \in Ids : Lookup(c, i, "check")
         \/ \E i \in Ids : LookupMiss(c, i)
         \/ GetReply(c)
         \/ DeleteCheck(c)
         \/ KillFind(c)
         \/ KillCancel(c)
         \/ DeleteReply(c)
    \/ Tick

Spec == Init /\ [][Next]_vars

(* The Go scheduler runs every goroutine that can run, and timers fire.     *)
(* Nothing is assumed of the callers of /jobs/{id}, nor of the command: it  *)
(* may never exit, and Exec may never return.                               *)
Fairness ==
    /\ WF_vars(Tick)
    /\ \A r \in Runs : WF_vars(HandlerStep(r)) /\ WF_vars(JobStep(r))

FairSpec == Spec /\ Fairness

-----------------------------------------------------------------------------
(* Safety.                                                                 *)

(* The registry never holds more than maxBackgroundJobs jobs, whatever     *)
(* order handlers reach Add in: jobs.go Add checks the size and inserts    *)
(* in one critical section.                                                *)
RegistryBounded == Cardinality(registered) <= MaxJobs

(* An id names one job for the life of the daemon: a client that kept the  *)
(* id of a collected job can be told "not found", never be shown, or kill, *)
(* somebody else's command.  (jobs.go Add: the map key is the sequence.)   *)
IdNamesOneJob ==
    \A q, r \in Runs : q # r /\ id[q] # 0 => id[q] # id[r]

(* A result that a client was promised by job id is not thrown away before *)
(* the client had it, nor sooner than the retention after the first answer *)
(* that carried it, however the collections of other handlers interleave   *)
(* with the reads.  (jobs.go isExpired, gcLocked, snapshot.)               *)
UnreadResultKept ==
    \A r \in Runs :
        handler[r] = "background" /\ r \notin registered
            => served[r] >= Retention

(* A command that was moved to the background is recorded as killed only   *)
(* because somebody cancelled it or its run timeout has passed; that its   *)
(* client left, or that its /run request is over, is no reason.            *)
(* (handler.go handleRun: the job context is made from                     *)
(* context.Background() and released only when there is no job id.)        *)
KilledHasCause ==
    \A r \in Runs :
        handler[r] = "background" /\ status[r] = "killed"
            => r \in cancelled \/ age[r] >= timeout[r]

(* No command runs on with nobody able to stop it or see it: until its end *)
(* is recorded, the handler is still waiting for it, or a job id leads to  *)
(* it, or it has been told to stop.  (handler.go: every return of *)
(* handleRunAutoBackground after the start.)                               *)
NoOrphan ==
    \A r \in Runs :
        job[r] # "none" /\ status[r] = "running"
            => handler[r] = "waiting" \/ r \in registered \/ JobCtxErr(r)

(* 409 "job already completed" is only said of a job whose terminal status *)
(* is recorded, also when the job was collected between the two lookups of *)
(* DELETE.  (handler.go handleHTTPJobKill, jobs.go Kill.)                  *)
ConflictMeansOver ==
    \A c \in Callers : call[c] = "conflict" => status[target[c]] # "running"

(* DELETE looks its id up twice and keeps the first pointer for the answer: *)
(* between the two, slots are collected and given to other jobs, and still *)
(* the job that is cancelled is the one that was found running.            *)
(* (handler.go handleHTTPJobKill, jobs.go Get, Kill.)                      *)
DeleteStopsItsJob ==
    [][\A c \in Callers :
         call[c] = "find" /\ call'[c] = "cancel" => target'[c] = target[c]]_vars

(* Add refuses a command only when every slot is held by a job that runs,  *)
(* or whose result nobody has read, or whose retention is not over: slots  *)
(* of results long since read are given back first.  (jobs.go Add.)        *)
RefusedOnlyWhenHeld ==
    [][\A r \in Runs :
         handler[r] # "full" /\ handler'[r] = "full"
            => Cardinality({q \in registered :
                              status[q] = "running" \/ served[q] < Retention})
                 >= MaxJobs]_vars

-----------------------------------------------------------------------------
(* Liveness.                                                               *)

(* Every /run request is answered, although its command may never exit and *)
(* the registry may be full: the threshold timer ends the wait.  The run   *)
(* checks it where the server's read deadline is never reached, since that *)
(* one would end every wait by itself.                                     *)
(* (handler.go handleRunAutoBackground, the select.)                       *)
EveryRunAnswered ==
    \A r \in Runs : handler[r] = "waiting" ~> handler[r] # "waiting"

(* If Exec returns some time after its context is done, every command      *)
(* ends, although none may exit by itself: a deadline stops it.            *)
(* (handler.go:210 and the WithTimeout of the sandbox's Exec.)             *)
ExecHonoursContext == \A r \in Runs : WF_vars(ExecAborted(r))

EveryJobEnds ==
    ExecHonoursContext => \A r \in Runs : job[r] = "exec" ~> IsDone(r)

-----------------------------------------------------------------------------
(* The promise to the clients that all of this implements.                 *)

ReplyOf(place) ==
    CASE place \in {"new", "waiting"} -> "none"
      [] place = "result" -> "result"
      [] place = "background" -> "job id"
      [] OTHER -> "error"

Reply(r) == ReplyOf(handler[r])

Contract == INSTANCE RunContract WITH
    reply <- [r \in Runs |-> Reply(r)],
    outcome <- [r \in Runs |-> IF job[r] = "none" THEN "absent"
                                                  ELSE status[r]],
    stopped <- {r \in Runs : job[r] # "none"
                               /\ (r \in cancelled \/ age[r] >= timeout[r])},
    book <- registered,
    delivered <- served

(* Handler, goroutine, registry and API keep the promise of RunContract:   *)
(* one answer, a result only of a finished command, a job id that works    *)
(* until its output was delivered and kept for the retention, no error     *)
(* that leaves a command running, no kill without a cause.                 *)
(* (handler.go and jobs.go as a whole.)                                    *)
ImplementsContract == Contract!Spec

-----------------------------------------------------------------------------
(* What comments and documents say that the code does not do.              *)

(* jobs.go:192 says that Add returns an error if the max concurrent limit  *)
(* is reached; it counts jobs that are over but unread as well.            *)
RefusedOnlyAtConcurrentLimit ==
    [][\A r \in Runs :
         handler[r] # "full" /\ handler'[r] = "full"
            => Cardinality({q \in registered : status[q] = "running"})
                 >= MaxJobs]_vars

(* client.go says that KillJob terminates a running job, and the CLI       *)
(* prints "killed job": a DELETE answered 200 ends in a killed job.        *)
KilledReplyMeansKilled ==
    \A c \in Callers :
        call[c] = "killed" => status[target[c]] # "completed"

(* README.md has a command that still runs after auto_background_after      *)
(* moved to the background: a request whose client stays gets an answer.    *)
(* The server's read deadline (socket.go serverReadTimeout) cancels the     *)
(* request and with it the command, not later than the default threshold.  *)
AbandonedOnlyWhenGone == \A r \in Runs : handler[r] = "abandoned" => r \in gone

(* README.md gives /run an execution timeout of 20 minutes by default: a   *)
(* command nobody cancelled is not aborted before its run timeout.         *)
AbortedOnlyAtRunTimeout ==
    \A r \in Runs :
        exit[r] = "aborted" => r \in cancelled \/ age[r] >= timeout[r]
=============================================================================
