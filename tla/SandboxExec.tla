---------------------------- MODULE SandboxExec ----------------------------
(***************************************************************************)
(* One call of Exec: the command's process and what it leaves behind.      *)
(*   sandbox/sandbox.go       runCmd, runCmdWithHook                       *)
(*   sandbox/bwrap.go, seatbelt.go, noop.go   Exec                         *)
(*   sandbox/cgroup.go, cgroup_bwrap.go       newCgroupExec, cleanup,      *)
(*                                            execWithCgroup               *)
(*                                                                         *)
(* The goroutine of Exec, the goroutine by which exec.CommandContext waits *)
(* for the context, and the processes run side by side.  The command may   *)
(* start others that outlive it, with its output pipes or without.  The    *)
(* hook of runCmdWithHook is left out: every caller passes nil.            *)
(***************************************************************************)
CONSTANTS
    Main,           \* the process that cmd.Start starts
    Descendants,    \* the processes the command may start
    Backends        \* which of the Exec methods are considered

Procs == {Main} \cup Descendants

ASSUME ProcAssumption == Main \notin Descendants

ASSUME BackendAssumption == Backends \subseteq {"bwrap", "bwrapK8s", "seatbelt", "noop"}

VARIABLES
    backend,    \* the Exec method; bwrapK8s is bwrap with KubernetesMode
    limit,      \* MemoryLimitMB > 0
    pc,         \* where the goroutine is
    ctx,        \* the context with the sandbox's deadline: "live" or "done"
    held,       \* what has to be given back: "dir" (cgroup, or scratch), "fd"
    grouped,    \* the process is started in the cgroup (UseCgroupFD)
    proc,       \* "unborn", "alive", "doomed" (SIGKILL is on its way), "dead"
    writers,    \* the processes that have the output pipes open
    cut,        \* the context's goroutine has killed Main
    warned,     \* the failures that cleanup only logs: "kill", "delete"
    result      \* what Exec returns: "none" yet, "exit", "aborted", "failed"

vars == <<backend, limit, pc, ctx, held, grouped, proc, writers, cut, warned, result>>

setup == <<backend, limit>>

tree == <<proc, writers, cut>>

Working == {"begin", "prepare", "start", "wait", "judge"}

Unwinding == {"kill", "delete", "returned"}

TypeOK ==
    /\ backend \in Backends
    /\ limit \in BOOLEAN
    /\ pc \in Working \cup Unwinding
    /\ ctx \in {"live", "done"}
    /\ held \subseteq {"dir", "fd"}
    /\ grouped \in BOOLEAN
    /\ proc \in [Procs -> {"unborn", "alive", "doomed", "dead"}]
    /\ writers \subseteq Procs
    /\ cut \in BOOLEAN
    /\ warned \subseteq {"kill", "delete"}
    /\ result \in {"none", "exit", "aborted", "failed"}
    /\ result = "none" <=> pc \in Working

Init ==
    /\ backend \in Backends
    /\ limit \in BOOLEAN
    /\ pc = "begin"
    /\ ctx = "live"
    /\ held = {}
    /\ grouped = FALSE
    /\ proc = [p \in Procs |-> "unborn"]
    /\ writers = {}
    /\ cut = FALSE
    /\ warned = {}
    /\ result = "none"

IsBwrap == backend \in {"bwrap", "bwrapK8s"}

(* buildArgs asks for a PID namespace, except in Kubernetes mode.          *)
Namespaced == backend = "bwrap"

Present(p) == proc[p] \in {"alive", "doomed"}

-----------------------------------------------------------------------------
(* The goroutine of Exec.                                                  *)

At(place) == pc = place

Goto(place) == pc' = place

(* The cgroup only deleted, and nobody in it killed.                       *)
FaultyUnwind(outcome) ==
    /\ result' = outcome
    /\ Goto(IF "dir" \notin held THEN "returned" ELSE "delete")

(* Exec returns, through the deferred calls: cleanup of the cgroup starts  *)
(* with a kill, that of the scratch directory is its removal.              *)
Unwind(outcome) ==
    /\ result' = outcome
    /\ Goto(IF "dir" \notin held THEN "returned" ELSE IF IsBwrap THEN "kill" ELSE "delete")

(* Nothing to prepare: no limit is asked for, or cgroups are not available *)
(* and it is not enforced.                                                 *)
Passthrough ==
    /\ At("begin") /\ backend # "seatbelt"
    /\ Goto("start")
    /\ UNCHANGED <<setup, ctx, held, grouped, tree, warned, result>>

NeedsDir == backend = "seatbelt" \/ (IsBwrap /\ limit)

MakeDir ==
    /\ At("begin") /\ NeedsDir
    /\ held' = {"dir"}
    /\ Goto("prepare")
    /\ UNCHANGED <<setup, ctx, grouped, tree, warned, result>>

(* The error dropped on its way out.                                       *)
FaultyMakeDirFails ==
    /\ At("begin") /\ NeedsDir
    /\ Goto("returned")
    /\ UNCHANGED <<setup, ctx, held, grouped, tree, warned, result>>

MakeDirFails ==
    /\ At("begin") /\ NeedsDir
    /\ Unwind("failed")
    /\ UNCHANGED <<setup, ctx, held, grouped, tree, warned>>

(* execWithCgroup opens the cgroup; seatbelt builds its policy.            *)
Prepare ==
    /\ At("prepare")
    /\ held' = held \cup (IF IsBwrap THEN {"fd"} ELSE {})
    /\ grouped' = IsBwrap
    /\ Goto("start")
    /\ UNCHANGED <<setup, ctx, tree, warned, result>>

(* cleanup deferred only once the cgroup has been opened.                  *)
FaultyPrepareFails ==
    /\ At("prepare")
    /\ result' = "failed" /\ Goto("returned")
    /\ UNCHANGED <<setup, ctx, held, grouped, tree, warned>>

PrepareFails ==
    /\ At("prepare")
    /\ Unwind("failed")
    /\ UNCHANGED <<setup, ctx, held, grouped, tree, warned>>

(* cmd.Start, which refuses when the context is done.                      *)
Start ==
    /\ At("start") /\ ctx = "live"
    /\ proc' = [proc EXCEPT ![Main] = "alive"]
    /\ writers' = {Main}
    /\ Goto("wait")
    /\ UNCHANGED <<setup, ctx, held, grouped, cut, warned, result>>

StartFails ==
    /\ At("start")
    /\ Unwind("failed")
    /\ UNCHANGED <<setup, ctx, held, grouped, tree, warned>>

(* A Wait that does not read the pipes to their end.                       *)
FaultyWait ==
    /\ At("wait") /\ ~ Present(Main)
    /\ Goto("judge")
    /\ UNCHANGED <<setup, ctx, held, grouped, tree, warned, result>>

(* cmd.Wait: the process is gone and nobody has its output open.  There is *)
(* no WaitDelay.                                                           *)
Wait ==
    /\ At("wait")
    /\ ~ Present(Main)
    /\ \A p \in writers : ~ Present(p)
    /\ Goto("judge")
    /\ UNCHANGED <<setup, ctx, held, grouped, tree, warned, result>>

(* The context asked after the exit status.                                *)
FaultyJudge ==
    /\ At("judge")
    /\ Unwind("exit")
    /\ UNCHANGED <<setup, ctx, held, grouped, tree, warned>>

Judge ==
    /\ At("judge")
    /\ \/ ctx = "done" /\ Unwind("aborted")
       \/ ctx = "live" /\ \E outcome \in {"exit", "failed"} : Unwind(outcome)
    /\ UNCHANGED <<setup, ctx, held, grouped, tree, warned>>

(* cleanup that relies on Exec to have killed the command.                 *)
FaultyKillGroup ==
    /\ At("kill")
    /\ held' = held \ {"fd"}
    /\ Goto("delete")
    /\ UNCHANGED <<setup, ctx, grouped, tree, warned, result>>

(* cleanup kills what is left in the cgroup, which takes effect later, and *)
(* closes the descriptor.  A failure is logged.                            *)
KillGroup ==
    /\ At("kill")
    /\ \/ /\ proc' = [p \in Procs |-> IF grouped /\ proc[p] = "alive" THEN "doomed" ELSE proc[p]]
          /\ warned' = warned
       \/ /\ warned' = warned \cup {"kill"}
          /\ proc' = proc
    /\ held' = held \ {"fd"}
    /\ Goto("delete")
    /\ UNCHANGED <<setup, ctx, grouped, writers, cut, result>>

(* A cgroup with a process in it cannot be deleted, also not when the      *)
(* process has been killed and is not gone.  A command may leave behind    *)
(* files that the daemon cannot remove from a scratch directory.           *)
Occupied ==
    IF IsBwrap THEN grouped /\ \E p \in Procs : Present(p) ELSE proc[Main] # "unborn"

Delete ==
    /\ At("delete")
    /\ \/ /\ IsBwrap => ~ Occupied
          /\ held' = held \ {"dir"}
          /\ warned' = warned
       \/ /\ Occupied
          /\ warned' = warned \cup {"delete"}
          /\ held' = held
    /\ Goto("returned")
    /\ UNCHANGED <<setup, ctx, grouped, tree, result>>

GoStep ==
    \/ Passthrough
    \/ MakeDir
    \/ MakeDirFails
    \/ Prepare
    \/ PrepareFails
    \/ Start
    \/ StartFails
    \/ Wait
    \/ Judge
    \/ KillGroup
    \/ Delete

-----------------------------------------------------------------------------
(* The context, and the goroutine that waits for it.                       *)

(* The sandbox's deadline, or the caller cancels.                          *)
ContextDone ==
    /\ ctx = "live" /\ ~ At("returned")
    /\ ctx' = "done"
    /\ UNCHANGED <<setup, pc, held, grouped, tree, warned, result>>

(* exec.Command in the place of exec.CommandContext.                       *)
FaultyKillMain == FALSE /\ UNCHANGED vars

(* The process is killed, and only it: no process group is made.           *)
KillMain ==
    /\ ctx = "done" /\ At("wait")
    /\ proc[Main] = "alive"
    /\ proc' = [proc EXCEPT ![Main] = "doomed"]
    /\ cut' = TRUE
    /\ UNCHANGED <<setup, pc, ctx, held, grouped, writers, warned, result>>

-----------------------------------------------------------------------------
(* The processes and the kernel.                                           *)

(* The end of bwrap leaves the others alone, as without --die-with-parent.  *)
FaultyAfterEnd(p) == [proc EXCEPT ![p] = "dead"]

(* With its first process a PID namespace goes, and everything in it.      *)
AfterEnd(p) ==
    [q \in Procs |->
        IF q = p THEN "dead"
        ELSE IF p = Main /\ Namespaced /\ proc[q] = "alive" THEN "doomed"
        ELSE proc[q]]

(* A process starts another, with its output or with output of its own.    *)
Fork(p, q) ==
    /\ proc[p] = "alive" /\ proc[q] = "unborn"
    /\ proc' = [proc EXCEPT ![q] = "alive"]
    /\ \/ p \in writers /\ writers' = writers \cup {q}
       \/ writers' = writers
    /\ UNCHANGED <<setup, pc, ctx, held, grouped, cut, warned, result>>

Exit(p) ==
    /\ proc[p] = "alive"
    /\ proc' = AfterEnd(p)
    /\ UNCHANGED <<setup, pc, ctx, held, grouped, writers, cut, warned, result>>

Die(p) ==
    /\ proc[p] = "doomed"
    /\ proc' = AfterEnd(p)
    /\ UNCHANGED <<setup, pc, ctx, held, grouped, writers, cut, warned, result>>

(* The memory limit is reached.                                            *)
OutOfMemory(p) ==
    /\ grouped /\ proc[p] = "alive"
    /\ proc' = [proc EXCEPT ![p] = "doomed"]
    /\ UNCHANGED <<setup, pc, ctx, held, grouped, writers, cut, warned, result>>

Next ==
    \/ GoStep
    \/ ContextDone
    \/ KillMain
    \/ \E p \in Procs :
         \/ \E q \in Descendants : Fork(p, q)
         \/ Exit(p)
         \/ Die(p)
         \/ OutOfMemory(p)

Spec == Init /\ [][Next]_vars

(* Goroutines go on, the deadline passes, and a SIGKILL takes effect.      *)
(* Nothing is assumed of the command.                                      *)
Fairness ==
    /\ WF_vars(GoStep)
    /\ WF_vars(ContextDone)
    /\ WF_vars(KillMain)
    /\ \A p \in Procs : WF_vars(Die(p))

FairSpec == Spec /\ Fairness

-----------------------------------------------------------------------------
(* An exit status is never that of a command which the deadline or a       *)
(* cancel has killed, although the kill, the end of the process and the    *)
(* look at the context are steps of three actors.                          *)
(* (sandbox.go runCmdWithHook: the context is asked after Wait)            *)
ExitIsTrue == result = "exit" => ~ cut

(* Once Wait has returned nobody can write to the output any more: what    *)
(* Exec returns is all of it.  (sandbox.go runCmdWithHook: the buffers are *)
(* read without a lock)                                                    *)
OutputComplete ==
    At("judge") \/ pc \in Unwinding => \A p \in writers : ~ Present(p)

(* When Exec returns, what ran under a memory limit is gone or on its way  *)
(* out, wherever in the tree it was started, unless the kill was reported  *)
(* to have failed.  (cgroup.go cleanup)                                    *)
GroupEnds ==
    At("returned") /\ grouped /\ "kill" \notin warned
        => \A p \in Procs : proc[p] # "alive"

(* In a PID namespace nothing outlives Exec either, limit or no limit:     *)
(* bwrap takes with it whatever the command has left in the background.    *)
(* (bwrap.go buildArgs: --unshare-all and --die-with-parent)               *)
NamespaceEnds ==
    At("returned") /\ Namespaced => \A p \in Procs : proc[p] # "alive"

(* Exec gives back what it made on every way out, failures between its     *)
(* steps included.  A descriptor never stays; a cgroup only when processes *)
(* are still in it; a scratch directory only when a command has used it.   *)
(* (bwrap.go, seatbelt.go Exec: the deferred calls)                        *)
LitterHasReason ==
    [][~ At("returned") /\ pc' = "returned" /\ held' # {}
         => held' = {"dir"} /\ Occupied]_vars

Promise == INSTANCE ExecContract WITH
    context <- ctx,
    answer <- IF At("returned") THEN result ELSE "none",
    born <- {p \in Procs : proc[p] # "unborn"},
    active <- {p \in Procs : proc[p] = "alive"},
    talking <- {p \in writers : Present(p)},
    killed <- cut,
    confined <- Namespaced \/ (grouped /\ "kill" \notin warned)

(* Exec keeps the promise of ExecContract, whatever the backend, however   *)
(* the command grows, and wherever the way out starts.                     *)
(* (sandbox.go Sandbox, runCmdWithHook; bwrap.go, seatbelt.go, noop.go)    *)
ImplementsPromise == Promise!Spec

(* Exec returns after its deadline: always in a PID namespace, elsewhere   *)
(* if no descendant keeps the output open.  (sandbox.go runCmdWithHook)    *)
ExecReturns ==
    \/ Namespaced
    \/ <>[](\A p \in writers \ {Main} : ~ Present(p))
    => <> At("returned")

(* "Both provide: ... and timeout enforcement" (sandbox/doc.go): whatever  *)
(* the command does, Exec returns once its context is done.                *)
TimeoutEnforced == ctx = "done" ~> At("returned")
=============================================================================
