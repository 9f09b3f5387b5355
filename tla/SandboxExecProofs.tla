------------------------- MODULE SandboxExecProofs -------------------------
(***************************************************************************)
(* Proofs about SandboxExec, for every set of descendants and backends.    *)
(***************************************************************************)
EXTENDS SandboxExec, TLAPS

(* AfterEnd keeps the range of proc and makes nobody alive.                 *)
LEMMA AfterEndFacts ==
    ASSUME TypeOK, NEW p \in Procs
    PROVE  /\ AfterEnd(p) \in [Procs -> {"unborn", "alive", "doomed", "dead"}]
           /\ \A q \in Procs : AfterEnd(p)[q] = "alive" => proc[q] = "alive"
           /\ \A q \in Procs : AfterEnd(p)[q] = "doomed" => Present(q)
           /\ Present(p) => \A q \in Procs : AfterEnd(p)[q] = "unborn" => proc[q] = "unborn"
  BY DEF TypeOK, AfterEnd, Present

(* A way out takes the goroutine to the deferred calls with a result.       *)
LEMMA UnwindFacts ==
    ASSUME NEW outcome, Unwind(outcome)
    PROVE  /\ result' = outcome
           /\ pc' = IF "dir" \notin held THEN "returned"
                    ELSE IF IsBwrap THEN "kill" ELSE "delete"
           /\ pc' \in Unwinding
  BY DEF Unwind, Goto, Unwinding

LEMMA SandboxInitType == Init => TypeOK
  BY DEF Init, TypeOK, Working, Unwinding

LEMMA SandboxNextType == TypeOK /\ [Next]_vars => TypeOK'
<1> SUFFICES ASSUME TypeOK, [Next]_vars PROVE TypeOK'
  OBVIOUS
<1> USE DEF TypeOK, setup, tree
<1>a. Main \in Procs
  BY DEF Procs
<1>b. Working \cap Unwinding = {}
  BY DEF Working, Unwinding
<1>1. CASE Passthrough
  BY <1>1 DEF Passthrough, At, Goto, Working
<1>2. CASE MakeDir
  BY <1>2 DEF MakeDir, At, Goto, Working
<1>3. CASE MakeDirFails
  BY <1>3, <1>b, UnwindFacts DEF MakeDirFails
<1>4. CASE Prepare
  BY <1>4 DEF Prepare, At, Goto, Working, IsBwrap
<1>5. CASE PrepareFails
  BY <1>5, <1>b, UnwindFacts DEF PrepareFails
<1>6. CASE Start
  BY <1>6, <1>a DEF Start, At, Goto, Working
<1>7. CASE StartFails
  BY <1>7, <1>b, UnwindFacts DEF StartFails
<1>8. CASE Wait
  BY <1>8 DEF Wait, At, Goto, Working
<1>9. CASE Judge
  BY <1>9, <1>b, UnwindFacts DEF Judge
<1>10. CASE KillGroup
  BY <1>10 DEF KillGroup, At, Goto, Working, Unwinding
<1>11. CASE Delete
  BY <1>11 DEF Delete, At, Goto, Working, Unwinding
<1>12. CASE ContextDone
  BY <1>12 DEF ContextDone
<1>13. CASE KillMain
  BY <1>13, <1>a DEF KillMain
<1>14. ASSUME NEW p \in Procs, NEW q \in Descendants, Fork(p, q) PROVE TypeOK'
  BY <1>14 DEF Fork, Procs
<1>15. ASSUME NEW p \in Procs, Exit(p) PROVE TypeOK'
  BY <1>15, AfterEndFacts DEF Exit
<1>16. ASSUME NEW p \in Procs, Die(p) PROVE TypeOK'
  BY <1>16, AfterEndFacts DEF Die
<1>17. ASSUME NEW p \in Procs, OutOfMemory(p) PROVE TypeOK'
  BY <1>17 DEF OutOfMemory
<1>18. CASE UNCHANGED vars
  BY <1>18 DEF vars
<1> QED
  BY <1>1, <1>2, <1>3, <1>4, <1>5, <1>6, <1>7, <1>8, <1>9, <1>10, <1>11, <1>12,
     <1>13, <1>14, <1>15, <1>16, <1>17, <1>18 DEF Next, GoStep

(* Every variable keeps its type, and Exec has a result exactly when it is  *)
(* on its way out.                                                          *)
THEOREM SandboxTypesCorrect == Spec => []TypeOK
  BY SandboxInitType, SandboxNextType, PTL DEF Spec

-----------------------------------------------------------------------------
(* Before Start there is no process; after Wait the first one is gone and   *)
(* so is everyone who had its output.                                       *)
TreeInv ==
    /\ pc \in {"begin", "prepare", "start"} =>
         writers = {} /\ \A p \in Procs : proc[p] = "unborn"
    /\ pc \in {"judge"} \cup Unwinding =>
         ~ Present(Main) /\ \A p \in writers : ~ Present(p)
    /\ \A p \in writers : proc[p] # "unborn"

(* The kill has its cause, and comes too late for no exit status.           *)
CutInv ==
    /\ cut => ctx = "done"
    /\ result = "exit" => ~ cut

(* A descriptor is held only together with its cgroup, and not past the     *)
(* kill; a command runs in a cgroup that is there.                          *)
HeldInv ==
    /\ At("begin") => held = {}
    /\ At("prepare") => "dir" \in held
    /\ "fd" \in held => "dir" \in held /\ IsBwrap /\ pc \notin {"delete", "returned"}
    /\ grouped => /\ IsBwrap
                  /\ pc \notin {"begin", "prepare"}
                  /\ "dir" \in held \/ At("returned")

(* GroupEnds, from the kill on.                                             *)
EndInv ==
    pc \in {"delete", "returned"} /\ grouped /\ "kill" \notin warned
        => \A p \in Procs : proc[p] # "alive"

SandboxInv == TypeOK /\ TreeInv /\ CutInv /\ HeldInv /\ EndInv

LEMMA SandboxInitInv == Init => SandboxInv
  BY SandboxInitType
  DEF Init, SandboxInv, TreeInv, CutInv, HeldInv, EndInv, At, Unwinding

(* A failure or a verdict, with the processes as they are.                  *)
LEMMA UnwindInv ==
    ASSUME SandboxInv, pc \in Working, NEW outcome, Unwind(outcome),
           UNCHANGED <<backend, ctx, held, grouped, proc, writers, cut, warned>>,
           ~ Present(Main), \A p \in writers : ~ Present(p),
           outcome = "exit" => ctx = "live"
    PROVE  TreeInv' /\ CutInv' /\ HeldInv' /\ EndInv'
<1> USE DEF SandboxInv
<1>1. TreeInv'
  BY UnwindFacts DEF TreeInv, Unwinding, Present
<1>2. CutInv'
  BY UnwindFacts DEF CutInv
<1>3. HeldInv'
  BY UnwindFacts DEF HeldInv, At, IsBwrap, TypeOK, Unwinding, Working
<1>4. EndInv'
  BY UnwindFacts DEF EndInv, HeldInv, At, IsBwrap, Working, Unwinding
<1> QED
  BY <1>1, <1>2, <1>3, <1>4

(* A process ends, by itself or by a signal that is on its way.             *)
LEMMA EndOfProcess ==
    ASSUME SandboxInv, NEW p \in Procs, Present(p), proc' = AfterEnd(p),
           UNCHANGED <<backend, limit, pc, ctx, held, grouped, writers, cut, warned, result>>
    PROVE  TreeInv' /\ CutInv' /\ HeldInv' /\ EndInv'
<1> USE DEF SandboxInv
<1>a. \A q \in Procs : Present(q)' => Present(q)
  BY AfterEndFacts DEF Present, TypeOK
<1>b. Main \in Procs /\ writers \subseteq Procs
  BY DEF Procs, TypeOK
<1>1. TreeInv'
  <2>1. pc \notin {"begin", "prepare", "start"}
    BY DEF TreeInv, Present
  <2>2. pc \in {"judge"} \cup Unwinding =>
          ~ Present(Main)' /\ \A q \in writers : ~ Present(q)'
    BY <1>a, <1>b DEF TreeInv
  <2>3. \A q \in writers : proc'[q] # "unborn"
    BY <1>b, AfterEndFacts DEF TreeInv
  <2> QED
    BY <2>1, <2>2, <2>3 DEF TreeInv, Present
<1>2. CutInv' /\ HeldInv'
  BY DEF CutInv, HeldInv, At, IsBwrap
<1>3. EndInv'
  BY AfterEndFacts DEF EndInv
<1> QED
  BY <1>1, <1>2, <1>3

(* A process that is alive is about to be killed.                           *)
LEMMA SignalledProcess ==
    ASSUME SandboxInv, NEW p \in Procs, proc[p] = "alive",
           proc' = [proc EXCEPT ![p] = "doomed"],
           UNCHANGED <<pc, writers>>
    PROVE  TreeInv'
  BY DEF SandboxInv, TreeInv, Present, TypeOK, Procs

LEMMA SandboxNextInv == SandboxInv /\ [Next]_vars => SandboxInv'
<1> SUFFICES ASSUME SandboxInv, [Next]_vars
             PROVE  TreeInv' /\ CutInv' /\ HeldInv' /\ EndInv'
  BY SandboxNextType DEF SandboxInv
<1> USE DEF SandboxInv, setup, tree
<1>a. Main \in Procs
  BY DEF Procs
<1>1. CASE Passthrough
  BY <1>1 DEF Passthrough, At, Goto, TreeInv, CutInv, HeldInv, EndInv, Unwinding, IsBwrap
<1>2. CASE MakeDir
  BY <1>2 DEF MakeDir, At, Goto, TreeInv, CutInv, HeldInv, EndInv, Unwinding, IsBwrap
<1>3. CASE MakeDirFails
  <2>1. pc \in Working /\ ~ Present(Main) /\ \A p \in writers : ~ Present(p)
    BY <1>3, <1>a DEF MakeDirFails, At, Working, TreeInv, Present
  <2> QED
    BY <1>3, <2>1, UnwindInv DEF MakeDirFails
<1>4. CASE Prepare
  BY <1>4 DEF Prepare, At, Goto, TreeInv, CutInv, HeldInv, EndInv, Unwinding, IsBwrap
<1>5. CASE PrepareFails
  <2>1. pc \in Working /\ ~ Present(Main) /\ \A p \in writers : ~ Present(p)
    BY <1>5, <1>a DEF PrepareFails, At, Working, TreeInv, Present
  <2> QED
    BY <1>5, <2>1, UnwindInv DEF PrepareFails
<1>6. CASE Start
  <2>1. TreeInv'
    BY <1>6, <1>a DEF Start, Goto, TreeInv, Unwinding, TypeOK
  <2>2. CutInv' /\ HeldInv' /\ EndInv'
    BY <1>6 DEF Start, At, Goto, CutInv, HeldInv, EndInv, IsBwrap
  <2> QED
    BY <2>1, <2>2
<1>7. CASE StartFails
  <2>1. pc \in Working /\ ~ Present(Main) /\ \A p \in writers : ~ Present(p)
    BY <1>7, <1>a DEF StartFails, At, Working, TreeInv, Present
  <2> QED
    BY <1>7, <2>1, UnwindInv DEF StartFails
<1>8. CASE Wait
  BY <1>8 DEF Wait, At, Goto, TreeInv, CutInv, HeldInv, EndInv, Unwinding, IsBwrap, Present
<1>9. CASE Judge
  <2>1. pc \in Working /\ ~ Present(Main) /\ \A p \in writers : ~ Present(p)
    BY <1>9 DEF Judge, At, Working, TreeInv
  <2>2. PICK outcome : Unwind(outcome) /\ (outcome = "exit" => ctx = "live")
    BY <1>9 DEF Judge
  <2> QED
    BY <1>9, <2>1, <2>2, UnwindInv DEF Judge
<1>10. CASE KillGroup
  <2>a. \A p \in Procs : Present(p)' => Present(p)
    BY <1>10 DEF KillGroup, Present, TypeOK
  <2>1. TreeInv'
    BY <1>10, <1>a, <2>a DEF KillGroup, At, Goto, TreeInv, Unwinding, Present, TypeOK
  <2>2. CutInv' /\ HeldInv'
    BY <1>10 DEF KillGroup, At, Goto, CutInv, HeldInv, IsBwrap
  <2>3. EndInv'
    BY <1>10 DEF KillGroup, At, Goto, EndInv, TypeOK
  <2> QED
    BY <2>1, <2>2, <2>3
<1>11. CASE Delete
  <2>1. TreeInv' /\ CutInv'
    BY <1>11 DEF Delete, At, Goto, TreeInv, CutInv, Unwinding, Present
  <2>2. HeldInv'
    BY <1>11 DEF Delete, At, Goto, HeldInv, IsBwrap
  <2>3. EndInv'
    BY <1>11 DEF Delete, At, Goto, EndInv
  <2> QED
    BY <2>1, <2>2, <2>3
<1>12. CASE ContextDone
  BY <1>12 DEF ContextDone, At, TreeInv, CutInv, HeldInv, EndInv, Present, IsBwrap
<1>13. CASE KillMain
  <2>1. TreeInv'
    BY <1>13, <1>a, SignalledProcess DEF KillMain
  <2>2. CutInv'
    BY <1>13 DEF KillMain, At, CutInv, TypeOK, Working
  <2>3. HeldInv' /\ EndInv'
    BY <1>13 DEF KillMain, At, HeldInv, EndInv, IsBwrap
  <2> QED
    BY <2>1, <2>2, <2>3
<1>14. ASSUME NEW p \in Procs, NEW q \in Descendants, Fork(p, q)
       PROVE  TreeInv' /\ CutInv' /\ HeldInv' /\ EndInv'
  <2>a. q \in Procs /\ q # Main
    BY ProcAssumption DEF Procs
  <2>1. TreeInv'
    <3>1. CASE pc \in {"begin", "prepare", "start"}
      BY <1>14, <3>1 DEF Fork, TreeInv
    <3>2. CASE pc \in {"judge"} \cup Unwinding
      <4>1. p \notin writers
        BY <1>14, <3>2 DEF Fork, TreeInv, Present
      <4>2. writers' = writers
        BY <1>14, <4>1 DEF Fork
      <4>3. q \notin writers
        BY <1>14, <2>a, <3>2 DEF Fork, TreeInv
      <4> QED
        BY <1>14, <2>a, <3>2, <4>2, <4>3, <1>a DEF Fork, TreeInv, Present, TypeOK, Unwinding
    <3>3. CASE pc = "wait"
      BY <1>14, <2>a, <3>3 DEF Fork, TreeInv, Unwinding, TypeOK
    <3> QED
      BY <3>1, <3>2, <3>3 DEF TypeOK, Working
  <2>2. CutInv' /\ HeldInv'
    BY <1>14 DEF Fork, CutInv, HeldInv, At, IsBwrap
  <2>3. EndInv'
    BY <1>14 DEF Fork, EndInv
  <2> QED
    BY <2>1, <2>2, <2>3
<1>15. ASSUME NEW p \in Procs, Exit(p)
       PROVE  TreeInv' /\ CutInv' /\ HeldInv' /\ EndInv'
  BY <1>15, EndOfProcess DEF Exit, Present
<1>16. ASSUME NEW p \in Procs, Die(p)
       PROVE  TreeInv' /\ CutInv' /\ HeldInv' /\ EndInv'
  BY <1>16, EndOfProcess DEF Die, Present
<1>17. ASSUME NEW p \in Procs, OutOfMemory(p)
       PROVE  TreeInv' /\ CutInv' /\ HeldInv' /\ EndInv'
  <2>1. TreeInv'
    BY <1>17, SignalledProcess DEF OutOfMemory
  <2>2. CutInv' /\ HeldInv'
    BY <1>17 DEF OutOfMemory, CutInv, HeldInv, At, IsBwrap
  <2>3. EndInv'
    BY <1>17 DEF OutOfMemory, EndInv, TypeOK
  <2> QED
    BY <2>1, <2>2, <2>3
<1>18. CASE UNCHANGED vars
  BY <1>18 DEF vars, TreeInv, CutInv, HeldInv, EndInv, At, Present, IsBwrap
<1> QED
  BY <1>1, <1>2, <1>3, <1>4, <1>5, <1>6, <1>7, <1>8, <1>9, <1>10, <1>11, <1>12,
     <1>13, <1>14, <1>15, <1>16, <1>17, <1>18 DEF Next, GoStep

LEMMA SandboxInvCorrect == Spec => []SandboxInv
  BY SandboxInitInv, SandboxNextInv, PTL DEF Spec

(* No exit status of a command that its context has killed.                 *)
THEOREM ExitStatusIsTrue == Spec => []ExitIsTrue
  BY SandboxInvCorrect, PTL DEF SandboxInv, CutInv, ExitIsTrue

(* What Exec returns is the whole output.                                   *)
THEOREM OutputIsComplete == Spec => []OutputComplete
<1>1. SandboxInv => OutputComplete
  BY DEF SandboxInv, TreeInv, OutputComplete, At
<1> QED
  BY <1>1, SandboxInvCorrect, PTL

(* Nothing that ran under a limit goes on after Exec has returned.          *)
THEOREM GroupsEnd == Spec => []GroupEnds
<1>1. SandboxInv => GroupEnds
  BY DEF SandboxInv, EndInv, GroupEnds, At
<1> QED
  BY <1>1, SandboxInvCorrect, PTL

(* The last step of Exec leaves nothing behind without a reason.            *)
LEMMA LastStep ==
    ASSUME SandboxInv, Next, ~ At("returned"), pc' = "returned", held' # {}
    PROVE  held' = {"dir"} /\ Occupied
<1> USE DEF SandboxInv
<1>1. \/ Delete
      \/ held' = held /\ \E outcome : Unwind(outcome)
  BY DEF Next, GoStep, Passthrough, MakeDir, MakeDirFails, Prepare, PrepareFails, Start,
         StartFails, Wait, Judge, KillGroup, ContextDone, KillMain, Fork, Exit, Die,
         OutOfMemory, At, Goto
<1>2. CASE Delete
  BY <1>2 DEF Delete, At, HeldInv, TypeOK
<1>3. CASE held' = held /\ \E outcome : Unwind(outcome)
  <2>1. "dir" \notin held
    BY <1>3, UnwindFacts
  <2>2. held = {}
    BY <2>1 DEF HeldInv, TypeOK
  <2> QED
    BY <1>3, <2>2
<1> QED
  BY <1>1, <1>2, <1>3

(* Exec gives back what it made, on every way out.                          *)
THEOREM LitterHasAReason == Spec => LitterHasReason
<1>1. SandboxInv /\ [Next]_vars =>
        [~ At("returned") /\ pc' = "returned" /\ held' # {}
           => held' = {"dir"} /\ Occupied]_vars
  BY LastStep
<1> QED
  BY <1>1, SandboxInvCorrect, PTL DEF Spec, LitterHasReason

-----------------------------------------------------------------------------
(* Without its first process a PID namespace has nobody who goes on.        *)
NamespaceInv ==
    Namespaced /\ ~ Present(Main) => \A q \in Procs : proc[q] # "alive"

(* Who waits, or has a verdict, has started the command; an abort has its   *)
(* cause.                                                                   *)
StartedInv ==
    /\ pc \in {"wait", "judge"} => proc[Main] # "unborn"
    /\ result \in {"exit", "aborted"} => proc[Main] # "unborn"
    /\ result = "aborted" => ctx = "done"

ExecInv == SandboxInv /\ NamespaceInv /\ StartedInv

LEMMA ExecInitInv == Init => ExecInv
  BY SandboxInitInv DEF Init, ExecInv, NamespaceInv, StartedInv

(* Nobody comes to life again, and no process is forgotten.                 *)
LEMMA NamespaceEndKeepsInv ==
    ASSUME ExecInv, NEW p \in Procs, Present(p), proc' = AfterEnd(p),
           UNCHANGED <<backend, pc, ctx, result>>
    PROVE  NamespaceInv' /\ StartedInv'
<1> USE DEF ExecInv, SandboxInv
<1>a. Main \in Procs
  BY DEF Procs
<1>1. NamespaceInv'
  <2> SUFFICES ASSUME Namespaced, ~ Present(Main)', NEW q \in Procs
               PROVE  proc'[q] # "alive"
    BY DEF NamespaceInv, Namespaced
  <2>1. CASE p = Main
    BY <2>1 DEF AfterEnd, TypeOK
  <2>2. CASE p # Main
    <3>1. ~ Present(Main)
      BY <1>a, <2>2 DEF AfterEnd, Present, TypeOK
    <3> QED
      BY <3>1, AfterEndFacts DEF NamespaceInv
  <2> QED
    BY <2>1, <2>2
<1>2. StartedInv'
  BY <1>a, AfterEndFacts DEF StartedInv
<1> QED
  BY <1>1, <1>2

LEMMA ExecNextInv == ExecInv /\ [Next]_vars => ExecInv'
<1> SUFFICES ASSUME ExecInv, [Next]_vars
             PROVE  NamespaceInv' /\ StartedInv'
  BY SandboxNextInv DEF ExecInv
<1> USE DEF ExecInv, SandboxInv, setup, tree
<1>a. Main \in Procs /\ proc \in [Procs -> {"unborn", "alive", "doomed", "dead"}]
  BY DEF Procs, TypeOK
<1>1. CASE Passthrough \/ MakeDir \/ Prepare \/ Wait \/ Delete
  BY <1>1 DEF Passthrough, MakeDir, Prepare, Wait, Delete, At, Goto,
              NamespaceInv, StartedInv, Namespaced, Present
<1>2. CASE MakeDirFails \/ PrepareFails \/ StartFails
  <2>1. Unwind("failed") /\ UNCHANGED <<backend, ctx, proc>>
    BY <1>2 DEF MakeDirFails, PrepareFails, StartFails
  <2> QED
    BY <2>1, UnwindFacts DEF Unwinding, NamespaceInv, StartedInv, Namespaced, Present
<1>3. CASE Start
  BY <1>3, <1>a DEF Start, At, Goto, NamespaceInv, StartedInv, Present
<1>4. CASE Judge
  <2>1. PICK outcome : Unwind(outcome) /\ (outcome = "aborted" => ctx = "done")
    BY <1>4 DEF Judge
  <2>2. UNCHANGED <<backend, ctx, proc>> /\ proc[Main] # "unborn"
    BY <1>4 DEF Judge, At, StartedInv
  <2> QED
    BY <2>1, <2>2, UnwindFacts DEF Unwinding, NamespaceInv, StartedInv, Namespaced, Present
<1>5. CASE KillGroup
  BY <1>5, <1>a DEF KillGroup, Goto, NamespaceInv, StartedInv, Namespaced, Present
<1>6. CASE ContextDone
  BY <1>6 DEF ContextDone, NamespaceInv, StartedInv, Namespaced, Present
<1>7. CASE KillMain
  BY <1>7, <1>a DEF KillMain, NamespaceInv, StartedInv, Present
<1>8. ASSUME NEW p \in Procs, NEW q \in Descendants, Fork(p, q)
      PROVE  NamespaceInv' /\ StartedInv'
  <2>1. q # Main
    BY ProcAssumption
  <2> QED
    BY <1>8, <1>a, <2>1 DEF Fork, NamespaceInv, StartedInv, Namespaced, Present
<1>9. ASSUME NEW p \in Procs, Exit(p) \/ Die(p)
      PROVE  NamespaceInv' /\ StartedInv'
  BY <1>9, NamespaceEndKeepsInv DEF Exit, Die, Present
<1>10. ASSUME NEW p \in Procs, OutOfMemory(p)
       PROVE  NamespaceInv' /\ StartedInv'
  BY <1>10, <1>a DEF OutOfMemory, NamespaceInv, StartedInv, Namespaced, Present
<1>11. CASE UNCHANGED vars
  BY <1>11 DEF vars, NamespaceInv, StartedInv, Namespaced, Present
<1> QED
  BY <1>1, <1>2, <1>3, <1>4, <1>5, <1>6, <1>7, <1>8, <1>9, <1>10, <1>11
  DEF Next, GoStep

LEMMA ExecInvCorrect == Spec => []ExecInv
  BY ExecInitInv, ExecNextInv, PTL DEF Spec

(* In a PID namespace nothing outlives Exec.                                *)
THEOREM NamespacesEnd == Spec => []NamespaceEnds
<1>1. ExecInv => NamespaceEnds
  BY DEF ExecInv, SandboxInv, TreeInv, NamespaceInv, NamespaceEnds, At, Unwinding
<1> QED
  BY <1>1, ExecInvCorrect, PTL
=============================================================================
