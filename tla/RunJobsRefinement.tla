------------------------- MODULE RunJobsRefinement -------------------------
(***************************************************************************)
(* RunJobs implements RunContract: every step of a handler, a goroutine,   *)
(* an API call or the clock is a step of the contract, or none.            *)
(***************************************************************************)
EXTENDS RunJobsProofs

reply == [r \in Runs |-> Reply(r)]

outcome == [r \in Runs |-> IF job[r] = "none" THEN "absent" ELSE status[r]]

stopped == {r \in Runs : job[r] # "none"
                           /\ (r \in cancelled \/ age[r] >= timeout[r])}

mapped == <<reply, outcome, stopped, registered, served>>

(* FiniteSets as the contract sees it is FiniteSets.                        *)
LEMMA SameCardinality ==
    ASSUME NEW S PROVE Contract!Cardinality(S) = Cardinality(S)
BY DEF Contract!Cardinality, Cardinality

LEMMA RefineInit == Init => Contract!Init
BY DEF Init, Contract!Init, Contract!Undelivered, Reply, ReplyOf, Never

(* What the contract sees of a job that nobody touches does not change.     *)
LEMMA Unseen ==
    ASSUME UNCHANGED <<handler, job, status, cancelled, timeout, age,
                       registered, served>>
    PROVE  UNCHANGED Contract!vars
BY DEF Contract!vars, Reply

(* One handler answers: the contract sees the answer of that request only.  *)
LEMMA ReplyChange ==
    ASSUME TypeOK, NEW r \in Runs, NEW to,
           handler' = [handler EXCEPT ![r] = to]
    PROVE  reply' = [reply EXCEPT ![r] = ReplyOf(to)]
<1>1. handler'[r] = to /\ \A q \in Runs \ {r} : handler'[q] = handler[q]
    BY DEF TypeOK
<1>2. Reply(r)' = ReplyOf(to) /\ \A q \in Runs \ {r} : Reply(q)' = Reply(q)
    BY <1>1 DEF Reply
<1>3. QED
    BY <1>2 DEF reply

(* What a waiting handler has answered, and each answer.                    *)
LEMMA ReplyValues ==
    /\ ReplyOf("new") = "none"
    /\ ReplyOf("waiting") = "none"
    /\ ReplyOf("result") = "result"
    /\ ReplyOf("background") = "job id"
    /\ ReplyOf("refused") = "error"
    /\ ReplyOf("full") = "error"
    /\ ReplyOf("abandoned") = "error"
BY DEF ReplyOf

(* Delivering output: what snapshot(true) does, seen by the contract.       *)
LEMMA RefineSnapshot ==
    ASSUME Inv, NEW r \in Runs, Snapshot(r),
           UNCHANGED <<handler, job, status, cancelled, timeout, age,
                       registered>>,
           handler[r] = "background"
    PROVE  Contract!ReadJob(r) \/ UNCHANGED Contract!vars
<1>1. CASE status[r] = "running"
    <2>1. served' = served
        BY <1>1 DEF Snapshot
    <2>2. QED
        BY <2>1, Unseen
<1>2. CASE status[r] # "running"
    <2>1. served' = Contract!Delivered(r)
        BY <1>2 DEF Snapshot, Contract!Delivered, Contract!Undelivered, Never,
                    Inv, TypeInv, TypeOK
    <2>2. Contract!Over(r)
        BY <1>2 DEF Contract!Over, Inv, TypeInv, TypeOK, LifeInv
    <2>3. QED
        BY <2>1, <2>2 DEF Contract!ReadJob, Reply, ReplyOf
<1>3. QED
    BY <1>1, <1>2

LEMMA RefineStep ==
    ASSUME Inv, Inv', [Next]_vars
    PROVE  [Contract!Next]_(Contract!vars)
<1> USE DEF reqVars, jobVars, ctxVars, readVars, regVars, apiVars
<1>1. ASSUME NEW r \in Runs, Refuse(r) PROVE Contract!Decline(r)
    <2>1. reply' = [reply EXCEPT ![r] = "error"] /\ reply[r] = "none"
        <3>1. /\ handler[r] \in {"new", "waiting"}
              /\ handler' = [handler EXCEPT ![r] = "refused"]
            BY <1>1 DEF Refuse
        <3>2. reply' = [reply EXCEPT ![r] = ReplyOf(handler'[r])]
            BY <3>1, ReplyChange DEF Inv, TypeInv, TypeOK
        <3>3. QED
            BY <3>1, <3>2, ReplyValues DEF reply, Reply, Inv, TypeInv, TypeOK
    <2>2. outcome[r] = "absent"
        BY <1>1 DEF Refuse, outcome, Inv, LifeInv
    <2>3. UNCHANGED <<outcome, stopped, registered, served>>
        BY <1>1 DEF Refuse, outcome, stopped
    <2>4. QED
        BY <2>1, <2>2, <2>3 DEF Contract!Decline, reply, outcome, stopped
<1>2. ASSUME NEW r \in Runs, NEW t \in ReqTimeouts, StartRun(r, t)
      PROVE  \E timedOut \in SUBSET {r} : Contract!Accept(r, timedOut)
    <2>1. job[r] = "none" /\ r \notin cancelled /\ age[r] = 0
        BY <1>2 DEF StartRun, Inv, LifeInv
    <2> DEFINE timedOut == {q \in {r} : 0 >= timeout'[r]}
    <2>2. age' = age /\ cancelled' = cancelled
        BY <1>2 DEF StartRun
    <2>3. /\ job'[r] = "exec"
          /\ \A q \in Runs \ {r} : job'[q] = job[q] /\ timeout'[q] = timeout[q]
        BY <1>2 DEF StartRun, Inv, TypeInv, TypeOK
    <2>4. stopped' = stopped \cup timedOut
        BY <2>1, <2>2, <2>3 DEF stopped
    <2>5. reply' = reply /\ reply[r] = "none"
        <3>1. reply' = [reply EXCEPT ![r] = "none"] /\ reply[r] = "none"
            <4>1. /\ handler[r] \in {"new", "waiting"}
                  /\ handler' = [handler EXCEPT ![r] = "waiting"]
                BY <1>2 DEF StartRun
            <4>2. reply' = [reply EXCEPT ![r] = ReplyOf(handler'[r])]
                BY <4>1, ReplyChange DEF Inv, TypeInv, TypeOK
            <4>3. QED
                BY <4>1, <4>2, ReplyValues DEF reply, Reply, Inv, TypeInv, TypeOK
        <3>2. QED
            BY <3>1 DEF reply
    <2>6. outcome' = [outcome EXCEPT ![r] = "running"] /\ outcome[r] = "absent"
        <3>1. status'[r] = "running" /\ job'[r] = "exec"
            BY <1>2, <2>1 DEF StartRun, Inv, TypeInv, TypeOK, LifeInv
        <3>2. \A q \in Runs \ {r} : status'[q] = status[q] /\ job'[q] = job[q]
            BY <1>2 DEF StartRun, Inv, TypeInv, TypeOK
        <3>3. QED
            BY <2>1, <3>1, <3>2 DEF outcome
    <2>7. UNCHANGED <<registered, served>>
        BY <1>2 DEF StartRun
    <2>8. QED
        BY <2>4, <2>5, <2>6, <2>7 DEF Contract!Accept, stopped, reply, outcome
<1>3. ASSUME NEW r \in Runs, PollDone(r) PROVE Contract!AnswerResult(r)
    <2>1. reply' = [reply EXCEPT ![r] = "result"] /\ reply[r] = "none"
        <3>1. /\ handler[r] \in {"new", "waiting"}
              /\ handler' = [handler EXCEPT ![r] = "result"]
            BY <1>3 DEF PollDone
        <3>2. reply' = [reply EXCEPT ![r] = ReplyOf(handler'[r])]
            BY <3>1, ReplyChange DEF Inv, TypeInv, TypeOK
        <3>3. QED
            BY <3>1, <3>2, ReplyValues DEF reply, Reply, Inv, TypeInv, TypeOK
    <2>2. status[r] \in {"completed", "killed"} /\ job[r] # "none"
        BY <1>3 DEF PollDone, IsDone, Inv, TypeInv, TypeOK, LifeInv
    <2>3. served' = Contract!Delivered(r)
        BY <1>3, <2>2 DEF PollDone, Snapshot, Contract!Delivered,
                          Contract!Undelivered, Never
    <2>4. UNCHANGED <<outcome, stopped, registered>>
        BY <1>3 DEF PollDone, outcome, stopped
    <2>5. QED
        BY <2>1, <2>2, <2>3, <2>4
           DEF Contract!AnswerResult, Contract!Over, reply, outcome, stopped
<1>4. PICK dropped \in SUBSET Contract!Droppable : Kept = registered \ dropped
    <2>1. \A q \in registered : served[q] \in Never..Retention
                                  /\ served[q] = read[q]
        BY DEF Inv, TypeInv, TypeOK, ReadInv
    <2>2. \A q \in registered : Expired(q) => served[q] = Retention
        BY <2>1, TimerAssumption DEF Expired, Never
    <2>3. {q \in registered : Expired(q)} \in SUBSET Contract!Droppable
        BY <2>2 DEF Contract!Droppable
    <2>4. Kept = registered \ {q \in registered : Expired(q)}
        BY DEF Kept
    <2>5. QED
        BY <2>3, <2>4
<1>5. ASSUME NEW r \in Runs, Background(r)
      PROVE  Contract!AnswerJobId(r, dropped)
    <2>1. registered' = (registered \ dropped) \cup {r}
        BY <1>4, <1>5 DEF Background, NextId, Inv, TypeInv, TypeOK, IdInv
    <2>2. Cardinality(registered') <= MaxJobs
        BY DEF Inv, RegistryBounded
    <2>3. reply' = [reply EXCEPT ![r] = "job id"] /\ reply[r] = "none"
        <3>1. /\ handler[r] \in {"new", "waiting"}
              /\ handler' = [handler EXCEPT ![r] = "background"]
            BY <1>5 DEF Background
        <3>2. reply' = [reply EXCEPT ![r] = ReplyOf(handler'[r])]
            BY <3>1, ReplyChange DEF Inv, TypeInv, TypeOK
        <3>3. QED
            BY <3>1, <3>2, ReplyValues DEF reply, Reply, Inv, TypeInv, TypeOK
    <2>4. outcome' = outcome /\ stopped' = stopped /\ served' = served
        BY <1>5 DEF Background, outcome, stopped
    <2>5. outcome[r] # "absent"
        BY <1>5 DEF Background, outcome, Inv, TypeInv, TypeOK, LifeInv
    <2>6. QED
        BY <2>1, <2>2, <2>3, <2>4, <2>5, SameCardinality
           DEF Contract!AnswerJobId, reply, outcome, stopped
<1>6. ASSUME NEW r \in Runs, TurnAway(r)
      PROVE  Contract!AnswerError(r, dropped)
    <2>1. registered' = registered \ dropped
        BY <1>4, <1>6 DEF TurnAway
    <2>2. reply' = [reply EXCEPT ![r] = "error"] /\ reply[r] = "none"
        <3>1. /\ handler[r] \in {"new", "waiting"}
              /\ handler' = [handler EXCEPT ![r] = "full"]
            BY <1>6 DEF TurnAway
        <3>2. reply' = [reply EXCEPT ![r] = ReplyOf(handler'[r])]
            BY <3>1, ReplyChange DEF Inv, TypeInv, TypeOK
        <3>3. QED
            BY <3>1, <3>2, ReplyValues DEF reply, Reply, Inv, TypeInv, TypeOK
    <2>3. outcome' = outcome /\ outcome[r] # "absent" /\ served' = served
        BY <1>6 DEF TurnAway, outcome, Inv, TypeInv, TypeOK, LifeInv
    <2>4. stopped' = stopped \cup {r}
        BY <1>6 DEF TurnAway, stopped, Inv, TypeInv, TypeOK, LifeInv
    <2>5. QED
        BY <2>1, <2>2, <2>3, <2>4
           DEF Contract!AnswerError, reply, outcome, stopped
<1>7. ASSUME NEW r \in Runs, Abandon(r) PROVE Contract!AnswerError(r, {})
    <2>1. registered' = registered \ {}
        BY <1>7 DEF Abandon
    <2>2. reply' = [reply EXCEPT ![r] = "error"] /\ reply[r] = "none"
        <3>1. /\ handler[r] \in {"new", "waiting"}
              /\ handler' = [handler EXCEPT ![r] = "abandoned"]
            BY <1>7 DEF Abandon
        <3>2. reply' = [reply EXCEPT ![r] = ReplyOf(handler'[r])]
            BY <3>1, ReplyChange DEF Inv, TypeInv, TypeOK
        <3>3. QED
            BY <3>1, <3>2, ReplyValues DEF reply, Reply, Inv, TypeInv, TypeOK
    <2>3. outcome' = outcome /\ outcome[r] # "absent" /\ served' = served
        BY <1>7 DEF Abandon, outcome, Inv, TypeInv, TypeOK, LifeInv
    <2>4. stopped' = stopped \cup {r}
        BY <1>7 DEF Abandon, stopped, Inv, TypeInv, TypeOK, LifeInv
    <2>5. QED
        BY <2>1, <2>2, <2>3, <2>4
           DEF Contract!AnswerError, reply, outcome, stopped
<1>8. ASSUME NEW r \in Runs, ClientGone(r) PROVE UNCHANGED Contract!vars
    BY <1>8, Unseen DEF ClientGone
<1>9. ASSUME NEW r \in Runs,
             ExecExits(r) \/ ExecAborted(r) \/ Judge(r) \/ CloseDone(r)
      PROVE  UNCHANGED Contract!vars
    <2>1. \A q \in Runs : job'[q] = "none" <=> job[q] = "none"
        BY <1>9 DEF ExecExits, ExecAborted, Judge, CloseDone,
                    Inv, TypeInv, TypeOK
    <2>2. UNCHANGED <<handler, status, cancelled, timeout, age, registered,
                      served>>
        BY <1>9 DEF ExecExits, ExecAborted, Judge, CloseDone
    <2>3. QED
        BY <2>1, <2>2 DEF Contract!vars, Reply
<1>10. ASSUME NEW r \in Runs, Finish(r)
       PROVE  \E verdict \in {"completed", "killed"} : Contract!End(r, verdict)
    <2>v. PICK verdict \in {"completed", "killed"} :
             verdict = IF job[r] = "killing" THEN "killed" ELSE "completed"
        OBVIOUS
    <2>1. verdict = "completed" \/ r \in stopped
        BY <1>10, <2>v DEF Finish, stopped, Inv, TypeInv, TypeOK, LifeInv,
                           CauseInv, Cause
    <2>2. outcome[r] = "running" /\ outcome' = [outcome EXCEPT ![r] = verdict]
        <3>1. /\ job[r] # "none" /\ status[r] = "running"
              /\ job'[r] # "none" /\ status'[r] = verdict
            BY <1>10, <2>v DEF Finish, Inv, TypeInv, TypeOK, LifeInv
        <3>2. \A q \in Runs \ {r} : status'[q] = status[q] /\ job'[q] = job[q]
            BY <1>10 DEF Finish, Inv, TypeInv, TypeOK
        <3>3. QED
            BY <3>1, <3>2 DEF outcome
    <2>3. reply' = reply /\ registered' = registered /\ served' = served
        BY <1>10 DEF Finish, reply, Reply
    <2>4. stopped' = stopped
        BY <1>10 DEF Finish, stopped, Inv, TypeInv, TypeOK
    <2>5. Contract!End(r, verdict)
        BY <2>1, <2>2, <2>3, <2>4 DEF Contract!End, reply, outcome, stopped
    <2>6. QED
        BY <2>5
<1>11. ASSUME NEW c \in Callers, NEW i \in Ids,
              NEW first \in {"get", "check"},
              Lookup(c, i, first) \/ LookupMiss(c, i)
       PROVE  UNCHANGED Contract!vars
    BY <1>11, Unseen DEF Lookup, LookupMiss
<1>12. ASSUME NEW c \in Callers, DeleteCheck(c) \/ KillFind(c)
       PROVE  UNCHANGED Contract!vars
    BY <1>12, Unseen DEF DeleteCheck, KillFind
<1>13. ASSUME NEW c \in Callers, GetReply(c) \/ DeleteReply(c)
       PROVE  (\E r \in Runs : Contract!ReadJob(r)) \/ UNCHANGED Contract!vars
    <2>1. target[c] \in Runs /\ handler[target[c]] = "background"
        BY <1>13 DEF GetReply, DeleteReply, Inv, TypeInv, CallsHoldJobs,
                     CallInv, Pending
    <2>2. /\ Snapshot(target[c])
          /\ UNCHANGED <<handler, job, status, cancelled, timeout, age,
                         registered>>
        BY <1>13 DEF GetReply, DeleteReply
    <2>3. QED
        BY <2>1, <2>2, RefineSnapshot
<1>14. ASSUME NEW c \in Callers, KillCancel(c)
       PROVE  (\E r \in Runs : Contract!StopJob(r)) \/ UNCHANGED Contract!vars
    <2>0. target[c] \in Runs /\ handler[target[c]] = "background"
        BY <1>14 DEF KillCancel, Inv, TypeInv, CallsHoldJobs, CallInv, Pending
    <2>r. PICK r \in Runs : r = target[c]
        BY <2>0
    <2>1. handler[r] = "background"
        BY <2>0, <2>r
    <2>2. UNCHANGED <<handler, job, status, timeout, age, registered, served>>
        BY <1>14 DEF KillCancel
    <2>3. CASE cancelled' = cancelled
        BY <2>2, <2>3, Unseen
    <2>4. CASE cancelled' = cancelled \cup {r}
        <3>1. stopped' = stopped \cup {r}
            BY <2>1, <2>2, <2>4 DEF stopped, Inv, TypeInv, TypeOK, LifeInv
        <3>2. reply' = reply /\ outcome' = outcome /\ reply[r] = "job id"
            BY <2>1, <2>2 DEF reply, outcome, Reply, ReplyOf
        <3>3. Contract!StopJob(r)
            BY <2>2, <3>1, <3>2 DEF Contract!StopJob, reply, outcome, stopped
        <3>4. QED
            BY <3>3
    <2>5. QED
        BY <1>14, <2>r, <2>3, <2>4 DEF KillCancel
<1>15. ASSUME Tick
       PROVE  \E timedOut \in SUBSET {r \in Runs : outcome[r] # "absent"} :
                 Contract!Pass(timedOut)
    <2>t. PICK timedOut \in SUBSET {r \in Runs : outcome[r] # "absent"} :
             timedOut = {r \in Runs : job[r] # "none" /\ age'[r] >= timeout[r]}
        <3>1. {r \in Runs : job[r] # "none" /\ age'[r] >= timeout[r]}
                \in SUBSET {r \in Runs : outcome[r] # "absent"}
            BY DEF outcome, Inv, TypeInv, TypeOK
        <3>2. QED
            BY <3>1
    <2>1. UNCHANGED <<handler, job, status, cancelled, timeout, registered>>
        BY <1>15 DEF Tick
    <2>2. \A r \in Runs : age[r] <= age'[r]
        BY <1>15, TimerAssumption DEF Tick, Older, Inv, TypeInv, TypeOK
    <2>3. \A r \in Runs : age[r] \in Int /\ age'[r] \in Int /\ timeout[r] \in Int
        BY RunTimeoutIsInt, TimerAssumption DEF Inv, TypeInv, TypeOK
    <2>4. stopped' = stopped \cup timedOut
        BY <2>t, <2>1, <2>2, <2>3 DEF stopped
    <2>5. served' = [r \in Runs |-> IF served[r] \in 0..(Retention - 1)
                                    THEN served[r] + 1 ELSE served[r]]
        BY <1>15, TimerAssumption DEF Tick, Older, Never, Inv, TypeInv, TypeOK
    <2>6. reply' = reply /\ outcome' = outcome
        BY <2>1 DEF reply, outcome, Reply
    <2>7. Contract!Pass(timedOut)
        BY <2>1, <2>4, <2>5, <2>6 DEF Contract!Pass, reply, outcome, stopped
    <2>8. QED
        BY <2>7
<1>16. CASE UNCHANGED vars
    BY <1>16, Unseen DEF vars
<1>17. {} \in SUBSET Contract!Droppable
    OBVIOUS
<1> DEFINE Goal == [Contract!Next]_(Contract!vars)
<1>18. ASSUME NEW r \in Runs,
              Refuse(r) \/ (\E t \in ReqTimeouts : StartRun(r, t)) \/ PollDone(r)
       PROVE  Goal
    BY <1>18, <1>1, <1>2, <1>3 DEF Contract!Next
<1>19. ASSUME NEW r \in Runs,
              Background(r) \/ TurnAway(r) \/ Abandon(r) \/ ClientGone(r)
       PROVE  Goal
    BY <1>19, <1>4, <1>5, <1>6, <1>7, <1>8, <1>17 DEF Contract!Next
<1>20. ASSUME NEW r \in Runs,
              ExecExits(r) \/ ExecAborted(r) \/ Judge(r) \/ CloseDone(r)
       PROVE  Goal
    BY <1>20, <1>9
<1>21. ASSUME NEW r \in Runs, Finish(r) PROVE Goal
    BY <1>21, <1>10 DEF Contract!Next
<1>22. ASSUME NEW c \in Callers, NEW i \in Ids,
              \/ Lookup(c, i, "get")
              \/ Lookup(c, i, "check")
              \/ LookupMiss(c, i)
       PROVE  Goal
    BY <1>22, <1>11
<1>23. ASSUME NEW c \in Callers,
              \/ GetReply(c) \/ DeleteCheck(c) \/ KillFind(c)
              \/ KillCancel(c) \/ DeleteReply(c)
       PROVE  Goal
    BY <1>23, <1>12, <1>13, <1>14 DEF Contract!Next
<1>24. ASSUME Tick PROVE Goal
    BY <1>24, <1>15 DEF Contract!Next, outcome
<1>25. CASE UNCHANGED vars
    BY <1>25, <1>16
<1>26. QED
    BY <1>18, <1>19, <1>20, <1>21, <1>22, <1>23, <1>24, <1>25 DEF Next

(* The clients' view of handler, goroutine, registry and job API is that of *)
(* RunContract, for any number of requests and callers.  (handler.go and    *)
(* jobs.go as a whole.)                                                     *)
THEOREM ContractIsImplemented == Spec => ImplementsContract
<1>1. Spec => []Inv
    BY InvCorrect
<1>2. QED
    BY <1>1, RefineInit, RefineStep, PTL DEF Spec, ImplementsContract, Contract!Spec
=============================================================================
