--------------------------- MODULE RunJobsProofs ---------------------------
(***************************************************************************)
(* Proofs about RunJobs, for every number of runs and callers, every       *)
(* registry limit and every choice of the timers.                          *)
(***************************************************************************)
EXTENDS RunJobs, FiniteSetTheorems, TLAPS

(* An API call that is under way holds a job, not a null pointer.           *)
CallsHoldJobs == \A c \in Callers : call[c] \in Pending => target[c] \in Runs

TypeInv == TypeOK /\ CallsHoldJobs

(* The run timeout chosen by handleRun is one the timers are declared for.  *)
LEMMA RunTimeoutType ==
    ASSUME NEW t \in ReqTimeouts
    PROVE  RunTimeout(t) \in RunTimeouts
BY DEF RunTimeouts

LEMMA RunTimeoutsAreInts == RunTimeouts \subseteq Int
<1>1. ASSUME NEW t \in ReqTimeouts PROVE Duration(t) \in Int
    <2>1. t * Second + WordSize \div 2 \in Int
        BY TimerAssumption
    <2>2. (t * Second + WordSize \div 2) % WordSize \in Int
        BY <2>1, TimerAssumption
    <2>3. QED
        BY <2>2, TimerAssumption DEF Duration
<1>2. ASSUME NEW t \in ReqTimeouts PROVE RunTimeout(t) \in Int
    BY <1>1, TimerAssumption DEF RunTimeout
<1>3. QED
    BY <1>2 DEF RunTimeouts

LEMMA RunTimeoutIsInt ==
    ASSUME TypeOK
    PROVE  \A r \in Runs : timeout[r] \in Int
<1>1. RunTimeouts \cup {DefaultRunTimeout} \subseteq Int
    BY RunTimeoutsAreInts, TimerAssumption
<1>2. timeout \in [Runs -> RunTimeouts \cup {DefaultRunTimeout}]
    BY DEF TypeOK
<1>3. QED
    BY <1>1, <1>2

(* A clock stays in its range when time passes.                             *)
LEMMA OlderType ==
    ASSUME NEW bound \in Nat, NEW clock \in 0..bound
    PROVE  Older(clock, bound) \in 0..bound
BY DEF Older

(* snapshot(true) keeps the access times in their range.                    *)
LEMMA SnapshotType ==
    ASSUME TypeOK, NEW r, Snapshot(r)
    PROVE  /\ read' \in [Runs -> Never..Retention]
           /\ served' \in [Runs -> Never..Retention]
<1>1. 0 \in Never..Retention
    BY TimerAssumption DEF Never
<1>2. read' \in [Runs -> Never..Retention]
    <2>1. read' = Touched(r)
        BY DEF Snapshot
    <2>2. QED
        BY <1>1, <2>1 DEF TypeOK, Touched
<1>3. served' \in [Runs -> Never..Retention]
    <2>1. served' = IF status[r] # "running" /\ served[r] = Never
                    THEN [served EXCEPT ![r] = 0] ELSE served
        BY DEF Snapshot
    <2>2. QED
        BY <1>1, <2>1 DEF TypeOK
<1>4. QED
    BY <1>2, <1>3

LEMMA TypeInit == Init => TypeInv
BY TimerAssumption DEF Init, TypeInv, TypeOK, CallsHoldJobs, Pending, Replied, Never

LEMMA TypeStep == TypeInv /\ [Next]_vars => TypeInv'
<1> SUFFICES ASSUME TypeInv, [Next]_vars
             PROVE  TypeInv'
    OBVIOUS
<1> USE DEF TypeInv, TypeOK, CallsHoldJobs, Active, Pending, Replied,
            vars, reqVars, jobVars, ctxVars, readVars, regVars, apiVars
<1>1. ASSUME NEW r \in Runs, Refuse(r) PROVE TypeInv'
    BY <1>1 DEF Refuse
<1>2. ASSUME NEW r \in Runs, NEW t \in ReqTimeouts, StartRun(r, t)
      PROVE  TypeInv'
    BY <1>2, RunTimeoutType DEF StartRun
<1>3. ASSUME NEW r \in Runs, PollDone(r) PROVE TypeInv'
    BY <1>3, SnapshotType DEF PollDone
<1>4. ASSUME NEW r \in Runs, Background(r) PROVE TypeInv'
    BY <1>4 DEF Background, Kept, NextId
<1>5. ASSUME NEW r \in Runs, TurnAway(r) PROVE TypeInv'
    BY <1>5 DEF TurnAway, Kept
<1>6. ASSUME NEW r \in Runs, ClientGone(r) PROVE TypeInv'
    BY <1>6 DEF ClientGone
<1>7. ASSUME NEW r \in Runs, Abandon(r) PROVE TypeInv'
    BY <1>7 DEF Abandon
<1>8. ASSUME NEW r \in Runs, ExecExits(r) \/ ExecAborted(r) PROVE TypeInv'
    BY <1>8 DEF ExecExits, ExecAborted
<1>9. ASSUME NEW r \in Runs, Judge(r) PROVE TypeInv'
    BY <1>9 DEF Judge
<1>10. ASSUME NEW r \in Runs, Finish(r) PROVE TypeInv'
    BY <1>10 DEF Finish
<1>11. ASSUME NEW r \in Runs, CloseDone(r) PROVE TypeInv'
    BY <1>11 DEF CloseDone
<1>12. ASSUME NEW c \in Callers, NEW i \in Ids,
              NEW first \in {"get", "check"}, Lookup(c, i, first)
       PROVE  TypeInv'
    BY <1>12 DEF Lookup, Answer
<1>13. ASSUME NEW c \in Callers, NEW i \in Ids, LookupMiss(c, i)
       PROVE  TypeInv'
    BY <1>13 DEF LookupMiss, Answer
<1>14. ASSUME NEW c \in Callers, GetReply(c) PROVE TypeInv'
    BY <1>14, SnapshotType DEF GetReply, Answer
<1>15. ASSUME NEW c \in Callers, DeleteCheck(c) PROVE TypeInv'
    BY <1>15 DEF DeleteCheck, Answer
<1>16. ASSUME NEW c \in Callers, KillFind(c) PROVE TypeInv'
    BY <1>16 DEF KillFind, Answer
<1>17. ASSUME NEW c \in Callers, KillCancel(c) PROVE TypeInv'
    BY <1>17 DEF KillCancel, Answer
<1>18. ASSUME NEW c \in Callers, DeleteReply(c) PROVE TypeInv'
    BY <1>18, SnapshotType DEF DeleteReply, Answer
<1>19. CASE Tick
    BY <1>19, OlderType, TimerAssumption DEF Tick, Never
<1>20. CASE UNCHANGED vars
    BY <1>20
<1>21. QED
    BY <1>1, <1>2, <1>3, <1>4, <1>5, <1>6, <1>7, <1>8, <1>9, <1>10, <1>11,
       <1>12, <1>13, <1>14, <1>15, <1>16, <1>17, <1>18, <1>19, <1>20
       DEF Next

(* Every variable keeps its type: in particular no API call ever acts on a  *)
(* null job pointer.  (handler.go:371-375 and 384-389, the nil checks.)     *)
THEOREM TypeCorrect == Spec => []TypeOK
<1>1. Spec => []TypeInv
    BY TypeInit, TypeStep, PTL DEF Spec
<1>2. TypeInv => TypeOK
    BY DEF TypeInv
<1>3. QED
    BY <1>1, <1>2, PTL

-----------------------------------------------------------------------------
(* The inductive invariant.  Its parts tie what the handler answered, what  *)
(* the goroutine has recorded, what the registry holds and what the callers *)
(* of the job API are doing to one another.                                 *)

(* A job exists once the handler waits for it, its status is terminal from  *)
(* Finish on, and whoever is refused or left behind has been cancelled.     *)
LifeInv ==
    \A r \in Runs :
        /\ job[r] = "none" <=> handler[r] \in {"new", "refused"}
        /\ status[r] = "running" <=> job[r] \notin {"finished", "done"}
        /\ handler[r] = "result" => status[r] # "running"
        /\ handler[r] \in {"full", "abandoned"} => r \in cancelled
        /\ job[r] = "none" => r \notin cancelled /\ age[r] = 0

(* Only jobs answered by id are registered, and ids are handed out once.    *)
IdInv ==
    /\ \A r \in registered : handler[r] = "background"
    /\ \A r \in Runs : id[r] <= seq
    /\ \A r \in Runs : handler[r] = "background" <=> id[r] # 0
    /\ IdNamesOneJob

(* The access time is that of the first delivery, which is of a finished    *)
(* job; what has left the registry was delivered a retention ago.           *)
ReadInv ==
    /\ read = served
    /\ \A r \in Runs : read[r] # Never => status[r] # "running"
    /\ UnreadResultKept

(* Unless a run was answered with a result or an error, its run-timeout     *)
(* context is only released by the end of the job itself, so a verdict of   *)
(* "killed" has another cause.                                              *)
Cause(r) == r \in cancelled \/ age[r] >= timeout[r]

CauseInv ==
    \A r \in Runs :
        handler[r] \in {"new", "waiting", "background"} =>
            /\ r \in released => job[r] = "done"
            /\ job[r] = "killing" \/ status[r] = "killed" => Cause(r)

(* A call under way holds a job that was answered by id.                    *)
CallInv ==
    /\ \A c \in Callers :
          call[c] \in Pending => handler[target[c]] = "background"
    /\ ConflictMeansOver
    /\ \A c \in Callers : call[c] = "conflict" => target[c] \in Runs

Inv ==
    /\ TypeInv
    /\ LifeInv
    /\ IdInv
    /\ ReadInv
    /\ CauseInv
    /\ CallInv
    /\ RegistryBounded

LEMMA InvInit == Init => Inv
<1> SUFFICES ASSUME Init PROVE Inv
    OBVIOUS
<1>1. TypeInv
    BY TypeInit
<1>2. LifeInv /\ IdInv /\ ReadInv /\ CauseInv /\ CallInv
    BY DEF Init, LifeInv, IdInv, IdNamesOneJob, ReadInv, UnreadResultKept,
           CauseInv, CallInv, Pending, ConflictMeansOver
<1>3. RegistryBounded
    BY LimitAssumption, FS_EmptySet DEF Init, RegistryBounded
<1>4. QED
    BY <1>1, <1>2, <1>3 DEF Inv

(* What is registered is a finite set, and so is what collection leaves.    *)
LEMMA FiniteRegistry ==
    ASSUME TypeOK
    PROVE  /\ IsFiniteSet(registered)
           /\ IsFiniteSet(Kept)
           /\ Cardinality(Kept) <= Cardinality(registered)
<1>1. IsFiniteSet(registered)
    BY RunsAssumption, FS_Subset DEF TypeOK
<1>2. Kept \subseteq registered
    BY DEF Kept
<1>3. QED
    BY <1>1, <1>2, FS_Subset

(* The registry keeps its bound: Add inserts only below it, and nothing     *)
(* else inserts.                                                            *)
LEMMA BoundStep ==
    ASSUME Inv, [Next]_vars
    PROVE  RegistryBounded'
<1> USE DEF Inv, TypeInv, RegistryBounded
<1>1. CASE registered' = registered
    BY <1>1
<1>2. CASE registered' = Kept
    <2>1. Cardinality(Kept) \in Nat /\ Cardinality(registered) \in Nat
        BY FiniteRegistry, FS_CardinalityType
    <2>2. QED
        BY <1>2, <2>1, FiniteRegistry, LimitAssumption
<1>3. ASSUME NEW r \in Runs, Background(r) PROVE RegistryBounded'
    <2> DEFINE rest == {q \in Kept : id[q] # NextId}
    <2>1. /\ IsFiniteSet(rest)
          /\ Cardinality(rest) <= Cardinality(Kept)
        BY FiniteRegistry, FS_Subset
    <2>2. Cardinality(rest) \in Nat /\ Cardinality(Kept) \in Nat
        BY <2>1, FiniteRegistry, FS_CardinalityType
    <2>3. Cardinality(rest \cup {r}) <= Cardinality(rest) + 1
        BY <2>1, <2>2, FS_AddElement
    <2>4. Cardinality(rest \cup {r}) \in Nat
        BY <2>1, FS_AddElement, FS_CardinalityType
    <2>5. registered' = rest \cup {r} /\ Cardinality(Kept) < MaxJobs
        BY <1>3 DEF Background, HasRoom
    <2>6. QED
        BY <2>1, <2>2, <2>3, <2>4, <2>5, LimitAssumption
<1>4. \/ registered' = registered
      \/ registered' = Kept
      \/ \E r \in Runs : Background(r)
    BY DEF Next, vars, reqVars, jobVars, ctxVars, readVars, regVars, apiVars,
           Refuse, StartRun, PollDone, TurnAway, ClientGone, Abandon,
           ExecExits, ExecAborted, Judge, Finish, CloseDone, Lookup,
           LookupMiss, GetReply, DeleteCheck, KillFind, KillCancel,
           DeleteReply, Tick
<1>5. QED
    BY <1>1, <1>2, <1>3, <1>4

LEMMA InvStep == Inv /\ [Next]_vars => Inv'
<1> SUFFICES ASSUME Inv, [Next]_vars
             PROVE  Inv'
    OBVIOUS
<1>t. TypeInv'
    BY TypeStep DEF Inv
<1>b. RegistryBounded'
    BY BoundStep
<1> DEFINE Rest == LifeInv /\ IdInv /\ ReadInv /\ CauseInv /\ CallInv
<1> USE DEF Inv, TypeInv, TypeOK, CallsHoldJobs, LifeInv, IdInv, IdNamesOneJob,
            ReadInv, UnreadResultKept, CauseInv, Cause, CallInv,
            ConflictMeansOver, Pending, Never,
            vars, reqVars, jobVars, ctxVars, readVars, regVars, apiVars
<1>1. ASSUME NEW r \in Runs, Refuse(r)
      PROVE  Rest'
    BY <1>1, <1>t, TimerAssumption, RunsAssumption DEF Refuse
<1>2. ASSUME NEW r \in Runs, NEW t \in ReqTimeouts, StartRun(r, t)
      PROVE  Rest'
    BY <1>2, <1>t, TimerAssumption, RunsAssumption DEF StartRun
<1>3. ASSUME NEW r \in Runs, PollDone(r)
      PROVE  Rest'
    BY <1>3, <1>t, TimerAssumption, RunsAssumption DEF PollDone, Snapshot, Touched, IsDone
<1>4. ASSUME NEW r \in Runs, Background(r)
      PROVE  Rest'
    BY <1>4, <1>t, TimerAssumption, RunsAssumption DEF Background, Kept, Expired, NextId
<1>5. ASSUME NEW r \in Runs, TurnAway(r)
      PROVE  Rest'
    BY <1>5, <1>t, TimerAssumption, RunsAssumption DEF TurnAway, Kept, Expired
<1>6. ASSUME NEW r \in Runs, ClientGone(r)
      PROVE  Rest'
    BY <1>6, <1>t, TimerAssumption, RunsAssumption DEF ClientGone
<1>7. ASSUME NEW r \in Runs, Abandon(r)
      PROVE  Rest'
    BY <1>7, <1>t, TimerAssumption, RunsAssumption DEF Abandon
<1>8. ASSUME NEW r \in Runs, ExecExits(r)
      PROVE  Rest'
    BY <1>8, <1>t, TimerAssumption, RunsAssumption DEF ExecExits
<1>9. ASSUME NEW r \in Runs, ExecAborted(r)
      PROVE  Rest'
    BY <1>9, <1>t, TimerAssumption, RunsAssumption DEF ExecAborted
<1>10. ASSUME NEW r \in Runs, Judge(r)
      PROVE  Rest'
    BY <1>10, <1>t, TimerAssumption, RunsAssumption DEF Judge, JobCtxErr
<1>11. ASSUME NEW r \in Runs, Finish(r)
      PROVE  Rest'
    BY <1>11, <1>t, TimerAssumption, RunsAssumption DEF Finish
<1>12. ASSUME NEW r \in Runs, CloseDone(r)
      PROVE  Rest'
    BY <1>12, <1>t, TimerAssumption, RunsAssumption DEF CloseDone
<1>13. ASSUME NEW c \in Callers, NEW i \in Ids,
              NEW first \in {"get", "check"}, Lookup(c, i, first)
      PROVE  Rest'
    BY <1>13, <1>t, TimerAssumption, RunsAssumption DEF Lookup, Answer
<1>14. ASSUME NEW c \in Callers, NEW i \in Ids, LookupMiss(c, i)
      PROVE  Rest'
    BY <1>14, <1>t, TimerAssumption, RunsAssumption DEF LookupMiss, Answer
<1>15. ASSUME NEW c \in Callers, GetReply(c)
      PROVE  Rest'
    BY <1>15, <1>t, TimerAssumption, RunsAssumption DEF GetReply, Answer, Snapshot, Touched
<1>16. ASSUME NEW c \in Callers, DeleteCheck(c)
      PROVE  Rest'
    BY <1>16, <1>t, TimerAssumption, RunsAssumption DEF DeleteCheck, Answer, IsDone
<1>17. ASSUME NEW c \in Callers, KillFind(c)
      PROVE  Rest'
    BY <1>17, <1>t, TimerAssumption, RunsAssumption DEF KillFind, Answer
<1>18. ASSUME NEW c \in Callers, KillCancel(c)
      PROVE  Rest'
    BY <1>18, <1>t, TimerAssumption, RunsAssumption DEF KillCancel, Answer, IsDone
<1>19. ASSUME NEW c \in Callers, DeleteReply(c)
      PROVE  Rest'
    BY <1>19, <1>t, TimerAssumption, RunsAssumption DEF DeleteReply, Answer, Snapshot, Touched
<1>20. ASSUME Tick PROVE Rest'
    <2>1. \A r \in Runs : age[r] <= age'[r]
        BY <1>20, TimerAssumption DEF Tick, Older
    <2>2. /\ read' = served'
          /\ \A r \in Runs : read'[r] = Never <=> read[r] = Never
          /\ \A r \in Runs : served[r] >= Retention => served'[r] >= Retention
        BY <1>20, TimerAssumption DEF Tick, Older
    <2>3. UNCHANGED <<reqVars, jobVars, cancelled, released, timeout, regVars,
                      apiVars>>
        BY <1>20 DEF Tick
    <2>4. LifeInv' /\ IdInv' /\ CallInv'
        BY <1>20, <2>3 DEF Tick, Ticking, Active
    <2>5. ReadInv'
        BY <2>2, <2>3
    <2>6. CauseInv'
        <3>1. \A r \in Runs : timeout[r] \in Int
            BY RunTimeoutIsInt
        <3>2. \A r \in Runs : age[r] \in Int
            BY TimerAssumption
        <3>3. \A r \in Runs : age'[r] \in Int
            BY <1>t, TimerAssumption
        <3>4. \A r \in Runs : Cause(r) => Cause(r)'
            BY <2>1, <2>3, <3>1, <3>2, <3>3
        <3>5. QED
            BY <2>3, <3>4
    <2>7. QED
        BY <2>4, <2>5, <2>6
<1>21. ASSUME UNCHANGED vars PROVE Rest'
    BY <1>21
<1>22. QED
    BY <1>t, <1>b, <1>1, <1>2, <1>3, <1>4, <1>5, <1>6, <1>7, <1>8, <1>9,
       <1>10, <1>11, <1>12, <1>13, <1>14, <1>15, <1>16, <1>17, <1>18,
       <1>19, <1>20, <1>21
       DEF Next

LEMMA InvCorrect == Spec => []Inv
BY InvInit, InvStep, PTL DEF Spec

-----------------------------------------------------------------------------
(* The safety properties of RunJobs.                                        *)

(* The registry never exceeds maxBackgroundJobs.  (jobs.go Add)             *)
THEOREM RegistryIsBounded == Spec => []RegistryBounded
<1>1. Inv => RegistryBounded
    BY DEF Inv
<1>2. QED
    BY <1>1, InvCorrect, PTL

(* No id is ever used for two jobs, collected jobs included.  (jobs.go Add) *)
THEOREM IdsNameOneJob == Spec => []IdNamesOneJob
<1>1. Inv => IdNamesOneJob
    BY DEF Inv, IdInv
<1>2. QED
    BY <1>1, InvCorrect, PTL

(* A promised result outlives its first delivery by the retention.          *)
(* (jobs.go isExpired, gcLocked, snapshot)                                  *)
THEOREM UnreadResultsAreKept == Spec => []UnreadResultKept
<1>1. Inv => UnreadResultKept
    BY DEF Inv, ReadInv
<1>2. QED
    BY <1>1, InvCorrect, PTL

(* A backgrounded command is killed by a DELETE or by its run timeout, not  *)
(* by the end of the request it came with.  (handler.go handleRun)          *)
THEOREM KillsHaveCauses == Spec => []KilledHasCause
<1>1. Inv => KilledHasCause
    BY DEF Inv, CauseInv, Cause, KilledHasCause
<1>2. QED
    BY <1>1, InvCorrect, PTL

(* No command runs that nobody waits for, can look up or has told to stop.  *)
(* (handler.go handleRunAutoBackground)                                     *)
THEOREM NoCommandIsOrphaned == Spec => []NoOrphan
<1>1. Inv => NoOrphan
    <2> SUFFICES ASSUME Inv, NEW r \in Runs,
                        job[r] # "none", status[r] = "running"
                 PROVE  handler[r] = "waiting" \/ r \in registered \/ JobCtxErr(r)
        BY DEF NoOrphan
    <2>1. handler[r] \in {"waiting", "background", "full", "abandoned"}
        BY DEF Inv, TypeInv, TypeOK, LifeInv
    <2>2. CASE handler[r] = "background"
        <3>1. served[r] = Never
            BY DEF Inv, ReadInv
        <3>2. ~ (served[r] >= Retention)
            BY <3>1, TimerAssumption DEF Never
        <3>3. QED
            BY <2>2, <3>2 DEF Inv, ReadInv, UnreadResultKept
    <2>3. CASE handler[r] \in {"full", "abandoned"}
        BY <2>3 DEF Inv, LifeInv, JobCtxErr
    <2>4. QED
        BY <2>1, <2>2, <2>3
<1>2. QED
    BY <1>1, InvCorrect, PTL

(* "Already completed" is never said of a job that is still running.        *)
(* (handler.go handleHTTPJobKill, jobs.go Kill)                             *)
THEOREM ConflictsAreTrue == Spec => []ConflictMeansOver
<1>1. Inv => ConflictMeansOver
    BY DEF Inv, CallInv
<1>2. QED
    BY <1>1, InvCorrect, PTL

(* Add refuses only when every slot is held by a job that runs, is unread,  *)
(* or is within its retention.  (jobs.go Add, gcLocked)                     *)
THEOREM RefusalsAreJustified == Spec => RefusedOnlyWhenHeld
<1> DEFINE Held == {q \in registered :
                       status[q] = "running" \/ served[q] < Retention}
           Justified == \A r \in Runs :
                          handler[r] # "full" /\ handler'[r] = "full"
                             => Cardinality(Held) >= MaxJobs
<1>1. Inv /\ [Next]_vars => Justified
    <2> SUFFICES ASSUME Inv, [Next]_vars, NEW r \in Runs,
                        handler[r] # "full", handler'[r] = "full"
                 PROVE  Cardinality(Held) >= MaxJobs
        OBVIOUS
    <2>1. \E q \in Runs : TurnAway(q)
        BY DEF Inv, TypeInv, TypeOK, Next, vars, reqVars, jobVars, ctxVars,
               readVars, regVars, apiVars, Refuse, StartRun, PollDone,
               Background, ClientGone, Abandon, ExecExits, ExecAborted, Judge,
               Finish, CloseDone, Lookup, LookupMiss, GetReply, DeleteCheck,
               KillFind, KillCancel, DeleteReply, Tick
    <2>2. ~ (Cardinality(Kept) < MaxJobs)
        BY <2>1 DEF TurnAway, HasRoom
    <2>3. Cardinality(Kept) \in Nat
        BY FiniteRegistry, FS_CardinalityType DEF Inv, TypeInv
    <2>4. Kept = Held
        <3>1. \A q \in registered : served[q] \in Int /\ served[q] = read[q]
            BY TimerAssumption DEF Inv, TypeInv, TypeOK, ReadInv, Never
        <3>2. QED
            BY <3>1, TimerAssumption DEF Kept, Expired, Never
    <2>5. QED
        BY <2>2, <2>3, <2>4, LimitAssumption
<1>2. QED
    BY <1>1, InvCorrect, PTL DEF Spec, RefusedOnlyWhenHeld

(* Who asks for a job answers and cancels for this one only: ids are not    *)
(* given out again.  (handler.go handleHTTPJobKill, jobs.go Kill)           *)
THEOREM DeletesStopTheirJobs == Spec => DeleteStopsItsJob
<1> DEFINE Same == \A c \in Callers :
                     call[c] = "find" /\ call'[c] = "cancel" => target'[c] = target[c]
<1>1. Inv /\ [Next]_vars => Same
    <2> SUFFICES ASSUME Inv, [Next]_vars, NEW c \in Callers,
                        call[c] = "find", call'[c] = "cancel"
                 PROVE  target'[c] = target[c]
        OBVIOUS
    <2>1. KillFind(c)
        <3>1. \E d \in Callers :
                 \/ \E i \in Ids : Lookup(d, i, "get") \/ Lookup(d, i, "check")
                                    \/ LookupMiss(d, i)
                 \/ GetReply(d) \/ DeleteCheck(d) \/ KillFind(d)
                 \/ KillCancel(d) \/ DeleteReply(d)
            BY DEF Next, vars, reqVars, jobVars, ctxVars, readVars, regVars, apiVars,
                   Refuse, StartRun, PollDone, Background, TurnAway, ClientGone,
                   Abandon, ExecExits, ExecAborted, Judge, Finish, CloseDone, Tick
        <3>2. PICK d \in Callers :
                 \/ \E i \in Ids : Lookup(d, i, "get") \/ Lookup(d, i, "check")
                                    \/ LookupMiss(d, i)
                 \/ GetReply(d) \/ DeleteCheck(d) \/ KillFind(d)
                 \/ KillCancel(d) \/ DeleteReply(d)
            BY <3>1
        <3>3. \A e \in Callers : e # d => call'[e] = call[e]
            BY <3>2 DEF Lookup, LookupMiss, GetReply, DeleteCheck, KillFind,
                        KillCancel, DeleteReply, Answer, Inv, TypeInv, TypeOK
        <3>4. QED
            BY <3>2, <3>3 DEF Lookup, LookupMiss, GetReply, DeleteCheck, KillFind,
                              KillCancel, DeleteReply, Answer, Replied,
                              Inv, TypeInv, TypeOK
    <2>2. PICK r \in registered :
              /\ id[r] = id[target[c]]
              /\ target' = [target EXCEPT ![c] = r]
        BY <2>1 DEF KillFind, Answer, Inv, TypeInv, TypeOK
    <2>3. target[c] \in Runs /\ id[target[c]] # 0
        BY DEF Inv, TypeInv, CallsHoldJobs, CallInv, IdInv, Pending
    <2>4. r = target[c]
        BY <2>2, <2>3 DEF Inv, TypeInv, TypeOK, IdInv, IdNamesOneJob
    <2>5. QED
        BY <2>2, <2>4 DEF Inv, TypeInv, TypeOK
<1>2. QED
    BY <1>1, InvCorrect, PTL DEF Spec, DeleteStopsItsJob
=============================================================================
