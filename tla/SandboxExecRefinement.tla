----------------------- MODULE SandboxExecRefinement -----------------------
(***************************************************************************)
(* SandboxExec implements ExecContract: every step of Exec's goroutine, of *)
(* the context's, of the kernel and of the command's processes is a step   *)
(* of the contract, or none.                                               *)
(***************************************************************************)
EXTENDS SandboxExecProofs

answer == IF At("returned") THEN result ELSE "none"

born == {p \in Procs : proc[p] # "unborn"}

active == {p \in Procs : proc[p] = "alive"}

talking == {p \in writers : Present(p)}

confined == Namespaced \/ (grouped /\ "kill" \notin warned)

(* The contract's variables, but for the two that are those of SandboxExec. *)
mapped == <<answer, born, active, talking, confined>>

LEMMA PromiseInit == Init => Promise!Init
  BY DEF Init, Promise!Init, At, Namespaced, IsBwrap, Present

LEMMA Unnoticed ==
    ASSUME UNCHANGED <<ctx, cut, mapped>>
    PROVE  UNCHANGED Promise!vars
  BY DEF Promise!vars, mapped, answer, born, active, talking, confined

(* Steps of the goroutine on the way, with the processes as they are.       *)
LEMMA OnTheWay ==
    ASSUME UNCHANGED <<backend, ctx, grouped, proc, writers, cut, warned>>,
           ~ At("returned"), pc' # "returned"
    PROVE  UNCHANGED Promise!vars
<1>1. UNCHANGED mapped
  BY DEF mapped, answer, born, active, talking, confined, At, Present, Namespaced
<1> QED
  BY <1>1, Unnoticed

(* The caller gets its answer: nobody talks, and what is confined is gone.  *)
LEMMA Answered ==
    ASSUME ExecInv, ExecInv', ~ At("returned"), pc' = "returned",
           UNCHANGED <<backend, ctx, grouped, proc, writers, cut>>,
           confined' = confined
    PROVE  Promise!Return(result')
<1> USE DEF ExecInv, SandboxInv
<1>a. Main \in Procs
  BY DEF Procs
<1>1. answer = "none" /\ answer' = result'
  BY DEF answer, At
<1>2. talking = {} /\ UNCHANGED <<born, active, talking>>
  <2>1. \A p \in writers : ~ Present(p)
    BY DEF TreeInv, Unwinding, Present
  <2> QED
    BY <2>1 DEF talking, born, active, Present
<1>3. confined => active = {}
  <2>1. Namespaced => \A p \in Procs : proc[p] # "alive"
    BY DEF TreeInv, Unwinding, NamespaceInv, Namespaced, Present
  <2>2. confined /\ ~ Namespaced => grouped' /\ "kill" \notin warned'
    BY DEF confined, Namespaced
  <2>3. grouped' /\ "kill" \notin warned' => \A p \in Procs : proc[p] # "alive"
    BY DEF EndInv
  <2> QED
    BY <2>1, <2>2, <2>3 DEF active
<1>4. result' = "exit" => born # {} /\ ~ cut
  BY <1>a DEF born, CutInv, StartedInv
<1>5. result' = "aborted" => born # {} /\ ctx = "done"
  BY <1>a DEF born, StartedInv
<1> QED
  BY <1>1, <1>2, <1>3, <1>4, <1>5
  DEF Promise!Return, answer, born, active, talking, confined

(* Every way out: with something to give back, or at once.                  *)
LEMMA WaysOut ==
    ASSUME ExecInv, ExecInv', NEW outcome, Unwind(outcome), pc \in Working,
           UNCHANGED <<backend, ctx, grouped, proc, writers, cut, warned>>
    PROVE  Promise!Next \/ UNCHANGED Promise!vars
<1>1. ~ At("returned")
  BY DEF At, Working
<1>2. CASE pc' # "returned"
  BY <1>1, <1>2, OnTheWay
<1>3. CASE pc' = "returned"
  <2>1. confined' = confined
    BY DEF confined, Namespaced
  <2>2. Promise!Return(result')
    BY <1>1, <1>3, <2>1, Answered
  <2>3. result' \in {"exit", "aborted", "failed"}
    BY <1>3 DEF ExecInv, SandboxInv, TypeOK, Working
  <2> QED
    BY <2>2, <2>3 DEF Promise!Next
<1> QED
  BY <1>2, <1>3

(* Processes end, or are signalled.                                         *)
LEMMA Dwindling ==
    ASSUME ExecInv, UNCHANGED <<backend, pc, ctx, grouped, writers, cut, warned, result>>,
           \A p \in Procs : /\ proc'[p] = "alive" => proc[p] = "alive"
                            /\ Present(p)' => Present(p)
                            /\ proc'[p] = "unborn" <=> proc[p] = "unborn"
    PROVE  Promise!Shrink
<1>1. answer' = answer /\ born' = born /\ confined' = confined
  BY DEF answer, At, born, confined, Namespaced
<1>2. active' \in SUBSET active
  BY DEF active
<1>3. talking' \in SUBSET talking
  BY DEF talking, ExecInv, SandboxInv, TypeOK
<1> QED
  BY <1>1, <1>2, <1>3 DEF Promise!Shrink, answer, born, active, talking, confined

LEMMA Started ==
    ASSUME ExecInv, Start
    PROVE  Promise!Launch(Main)
<1> USE DEF ExecInv, SandboxInv, TypeOK
<1>a. Main \in Procs
  BY DEF Procs
<1>1. born = {} /\ \A p \in Procs : proc[p] = "unborn"
  BY DEF Start, At, TreeInv, born
<1>2. /\ proc' = [proc EXCEPT ![Main] = "alive"] /\ writers' = {Main}
      /\ ctx = "live" /\ pc = "start" /\ pc' = "wait"
      /\ UNCHANGED <<backend, ctx, grouped, cut, warned>>
  BY DEF Start, At, Goto, setup
<1>3. born' = {Main} /\ active' = {Main} /\ talking' = {Main}
  BY <1>a, <1>1, <1>2 DEF born, active, talking, Present
<1>4. answer = "none" /\ answer' = answer /\ confined' = confined
  BY <1>2 DEF answer, At, confined, Namespaced
<1> QED
  BY <1>1, <1>2, <1>3, <1>4
  DEF Promise!Launch, answer, born, active, talking, confined

LEMMA Forked ==
    ASSUME ExecInv, NEW p \in Procs, NEW q \in Descendants, Fork(p, q)
    PROVE  Promise!Grow(p, q)
<1> USE DEF ExecInv, SandboxInv, TypeOK
<1>a. q \in Procs /\ q \notin writers
  BY DEF Procs, Fork, TreeInv
<1>1. /\ proc[p] = "alive" /\ proc[q] = "unborn"
      /\ proc' = [proc EXCEPT ![q] = "alive"]
      /\ UNCHANGED <<backend, pc, ctx, grouped, cut, warned, result>>
  BY DEF Fork, setup
<1>2. p \in active /\ q \notin born
  BY <1>1 DEF active, born
<1>3. born' = born \cup {q} /\ active' = active \cup {q}
  BY <1>a, <1>1 DEF born, active
<1>4. CASE writers' = writers
  <2>1. talking' = talking
    BY <1>a, <1>1, <1>4 DEF talking, Present
  <2> QED
    BY <1>1, <1>2, <1>3, <2>1
    DEF Promise!Grow, answer, At, born, active, talking, confined, Namespaced
<1>5. CASE p \in writers /\ writers' = writers \cup {q}
  <2>1. p \in talking /\ talking' = talking \cup {q}
    BY <1>a, <1>1, <1>5 DEF talking, Present
  <2> QED
    BY <1>1, <1>2, <1>3, <2>1
    DEF Promise!Grow, answer, At, born, active, talking, confined, Namespaced
<1> QED
  BY <1>4, <1>5 DEF Fork

LEMMA KilledForItsContext ==
    ASSUME ExecInv, KillMain
    PROVE  Promise!Kill(Main)
<1> USE DEF ExecInv, SandboxInv, TypeOK
<1>a. Main \in Procs
  BY DEF Procs
<1>1. /\ ctx = "done" /\ pc = "wait" /\ proc[Main] = "alive" /\ cut' = TRUE
      /\ proc' = [proc EXCEPT ![Main] = "doomed"]
      /\ UNCHANGED <<backend, pc, ctx, grouped, writers, warned, result>>
  BY DEF KillMain, At, setup
<1>2. Main \in active /\ active' = active \ {Main} /\ born' = born
  BY <1>a, <1>1 DEF active, born
<1>3. talking' = talking
  BY <1>a, <1>1 DEF talking, Present
<1>4. answer = "none" /\ answer' = answer /\ confined' = confined
  BY <1>1 DEF answer, At, confined, Namespaced
<1> QED
  BY <1>1, <1>2, <1>3, <1>4
  DEF Promise!Kill, answer, born, active, talking, confined

(* The kill of the cgroup, or its failure.                                  *)
LEMMA GroupKilled ==
    ASSUME ExecInv, KillGroup
    PROVE  Promise!Next \/ UNCHANGED Promise!vars
<1> USE DEF ExecInv, SandboxInv, TypeOK
<1>1. /\ pc = "kill" /\ pc' = "delete"
      /\ UNCHANGED <<backend, ctx, grouped, writers, cut, result>>
  BY DEF KillGroup, At, Goto, setup
<1>2. answer = "none" /\ answer' = "none"
  BY <1>1 DEF answer, At
<1>3. CASE /\ proc' = [p \in Procs |-> IF grouped /\ proc[p] = "alive" THEN "doomed" ELSE proc[p]]
           /\ warned' = warned
  <2>1. born' = born /\ active' \in SUBSET active /\ talking' = talking
    BY <1>1, <1>3 DEF born, active, talking, Present
  <2>2. confined' = confined
    BY <1>1, <1>3 DEF confined, Namespaced
  <2>3. Promise!Shrink
    BY <1>1, <1>2, <2>1, <2>2
    DEF Promise!Shrink, answer, born, active, talking, confined
  <2> QED
    BY <2>3 DEF Promise!Next
<1>4. CASE proc' = proc /\ warned' = warned \cup {"kill"}
  <2>1. UNCHANGED <<born, active, talking>>
    BY <1>1, <1>4 DEF born, active, talking, Present
  <2>2. CASE confined' = confined
    <3>1. UNCHANGED mapped
      BY <1>2, <2>1, <2>2 DEF mapped
    <3> QED
      BY <1>1, <3>1, Unnoticed
  <2>3. CASE confined' # confined
    <3>1. confined /\ ~ confined'
      BY <1>1, <1>4, <2>3 DEF confined, Namespaced
    <3>2. Promise!LoseControl
      BY <1>1, <1>2, <2>1, <3>1
      DEF Promise!LoseControl, answer, born, active, talking, confined
    <3> QED
      BY <3>2 DEF Promise!Next
  <2> QED
    BY <2>2, <2>3
<1> QED
  BY <1>3, <1>4 DEF KillGroup

(* The cgroup is opened: what starts from here on is confined.              *)
LEMMA Prepared ==
    ASSUME ExecInv, Prepare
    PROVE  Promise!Confine \/ UNCHANGED Promise!vars
<1> USE DEF ExecInv, SandboxInv, TypeOK
<1>1. /\ pc = "prepare" /\ pc' = "start" /\ grouped' = IsBwrap
      /\ UNCHANGED <<backend, ctx, proc, writers, cut, warned, result>>
  BY DEF Prepare, At, Goto, setup, tree
<1>2. answer = "none" /\ answer' = "none" /\ UNCHANGED <<born, active, talking>>
  BY <1>1 DEF answer, At, born, active, talking, Present
<1>3. ~ grouped /\ born = {}
  BY <1>1 DEF HeldInv, TreeInv, born
<1>4. CASE confined'
  BY <1>1, <1>2, <1>3, <1>4
  DEF Promise!Confine, answer, born, active, talking, confined, Namespaced
<1>5. CASE ~ confined'
  <2>1. ~ confined
    BY <1>1, <1>3, <1>5 DEF confined, Namespaced
  <2>2. UNCHANGED mapped
    BY <1>2, <1>5, <2>1 DEF mapped, confined
  <2> QED
    BY <1>1, <2>2, Unnoticed
<1> QED
  BY <1>4, <1>5

LEMMA PromiseStep ==
    ASSUME ExecInv, ExecInv', [Next]_vars
    PROVE  [Promise!Next]_(Promise!vars)
<1> USE DEF setup, tree
<1> DEFINE Goal == Promise!Next \/ UNCHANGED Promise!vars
<1>a. Main \in Procs /\ Descendants \subseteq Procs
  BY DEF Procs
<1>1. CASE Passthrough \/ MakeDir \/ Wait
  <2>1. ~ At("returned") /\ pc' # "returned"
    BY <1>1 DEF Passthrough, MakeDir, Wait, At, Goto
  <2>2. UNCHANGED <<backend, ctx, grouped, proc, writers, cut, warned>>
    BY <1>1 DEF Passthrough, MakeDir, Wait
  <2> QED
    BY <2>1, <2>2, OnTheWay
<1>2. CASE MakeDirFails \/ PrepareFails \/ StartFails
  <2>1. Unwind("failed") /\ pc \in Working
    BY <1>2 DEF MakeDirFails, PrepareFails, StartFails, At, Working
  <2>2. UNCHANGED <<backend, ctx, grouped, proc, writers, cut, warned>>
    BY <1>2 DEF MakeDirFails, PrepareFails, StartFails
  <2> QED
    BY <2>1, <2>2, WaysOut
<1>3. CASE Judge
  <2>1. PICK outcome : Unwind(outcome)
    BY <1>3 DEF Judge
  <2>2. /\ pc \in Working
        /\ UNCHANGED <<backend, ctx, grouped, proc, writers, cut, warned>>
    BY <1>3 DEF Judge, At, Working
  <2> QED
    BY <2>1, <2>2, WaysOut
<1>4. CASE Prepare
  BY <1>4, Prepared DEF Promise!Next
<1>5. CASE Start
  BY <1>5, <1>a, Started DEF Promise!Next
<1>6. CASE KillGroup
  BY <1>6, GroupKilled
<1>7. CASE Delete
  <2>1. /\ ~ At("returned") /\ pc' = "returned" /\ result' = result
        /\ UNCHANGED <<backend, ctx, grouped, proc, writers, cut>>
    BY <1>7 DEF Delete, At, Goto
  <2>2. confined' = confined
    BY <1>7 DEF Delete, confined, Namespaced
  <2>3. Promise!Return(result')
    BY <2>1, <2>2, Answered
  <2>4. result' \in {"exit", "aborted", "failed"}
    BY <2>1 DEF ExecInv, SandboxInv, TypeOK, Working
  <2> QED
    BY <2>3, <2>4 DEF Promise!Next
<1>8. CASE ContextDone
  <2>1. /\ ctx = "live" /\ ctx' = "done" /\ ~ At("returned")
        /\ UNCHANGED <<backend, pc, grouped, proc, writers, cut, warned, result>>
    BY <1>8 DEF ContextDone
  <2>2. Promise!Expire
    BY <2>1 DEF Promise!Expire, At, Present, Namespaced
  <2> QED
    BY <2>2 DEF Promise!Next
<1>9. CASE KillMain
  BY <1>9, <1>a, KilledForItsContext DEF Promise!Next
<1>10. ASSUME NEW p \in Procs, NEW q \in Descendants, Fork(p, q) PROVE Goal
  BY <1>10, <1>a, Forked DEF Promise!Next
<1>11. ASSUME NEW p \in Procs, Exit(p) \/ Die(p) \/ OutOfMemory(p) PROVE Goal
  <2>1. UNCHANGED <<backend, pc, ctx, grouped, writers, cut, warned, result>>
    BY <1>11 DEF Exit, Die, OutOfMemory
  <2>2. /\ Present(p)
        /\ proc' \in {AfterEnd(p), [proc EXCEPT ![p] = "doomed"]}
    BY <1>11 DEF Exit, Die, OutOfMemory, Present
  <2>3. \A q \in Procs : /\ proc'[q] = "alive" => proc[q] = "alive"
                         /\ Present(q)' => Present(q)
                         /\ proc'[q] = "unborn" <=> proc[q] = "unborn"
    BY <2>2 DEF ExecInv, SandboxInv, TypeOK, AfterEnd, Present
  <2> QED
    BY <2>1, <2>3, Dwindling DEF Promise!Next
<1>12. CASE UNCHANGED vars
  BY <1>12 DEF vars, Promise!vars, At, Present, Namespaced
<1> QED
  BY <1>1, <1>2, <1>3, <1>4, <1>5, <1>6, <1>7, <1>8, <1>9, <1>10, <1>11, <1>12
  DEF Next, GoStep

(* What a caller of Exec may rely on holds on every backend, for any number *)
(* of processes.  (sandbox.go, bwrap.go, seatbelt.go, noop.go, cgroup.go)   *)
THEOREM PromiseIsKept == Spec => ImplementsPromise
  BY ExecInvCorrect, PromiseInit, PromiseStep, PTL
  DEF Spec, ImplementsPromise, Promise!Spec
=============================================================================
