---------------------------- MODULE RunContract ----------------------------
(***************************************************************************)
(* What the daemon promises the clients of /run and /jobs/{id}, without    *)
(* goroutines, polls, contexts or locks:                                   *)
(*   - a request is answered once: with an error, a result, or a job id;   *)
(*   - a result is given only when the command is over;                    *)
(*   - after a job id, the job can be looked up until its output has been  *)
(*     delivered and the retention has passed since;                       *)
(*   - an error after the command was started means that it was stopped;   *)
(*   - a command is only killed after something stopped it, and how it     *)
(*     ended does not change any more;                                     *)
(*   - at most MaxJobs jobs are kept.                                      *)
(* RunJobs, the handler, goroutine and registry of the code, implements it. *)
(***************************************************************************)
EXTENDS Integers, FiniteSets

CONSTANTS Runs, MaxJobs, Retention

VARIABLES
    reply,      \* the answer to each /run request
    outcome,    \* the command of each request
    stopped,    \* the commands that were told to stop, or are out of time
    book,       \* the jobs that can be looked up
    delivered   \* time since the output was first delivered, -1 before

vars == <<reply, outcome, stopped, book, delivered>>

Undelivered == -1

Over(r) == outcome[r] \in {"completed", "killed"}

Init ==
    /\ reply = [r \in Runs |-> "none"]
    /\ outcome = [r \in Runs |-> "absent"]
    /\ stopped = {}
    /\ book = {}
    /\ delivered = [r \in Runs |-> Undelivered]

Decline(r) ==
    /\ reply[r] = "none" /\ outcome[r] = "absent"
    /\ reply' = [reply EXCEPT ![r] = "error"]
    /\ UNCHANGED <<outcome, stopped, book, delivered>>

(* A command may be given no time at all.                                  *)
Accept(r, timedOut) ==
    /\ reply[r] = "none" /\ outcome[r] = "absent"
    /\ outcome' = [outcome EXCEPT ![r] = "running"]
    /\ stopped' = stopped \cup timedOut
    /\ UNCHANGED <<reply, book, delivered>>

(* Which of the two an ending is may be settled before it is recorded, so  *)
(* that a command stopped meanwhile may still complete.                    *)
End(r, verdict) ==
    /\ outcome[r] = "running"
    /\ verdict = "completed" \/ r \in stopped
    /\ outcome' = [outcome EXCEPT ![r] = verdict]
    /\ UNCHANGED <<reply, stopped, book, delivered>>

Delivered(r) ==
    IF delivered[r] = Undelivered THEN [delivered EXCEPT ![r] = 0]
                                  ELSE delivered

AnswerResult(r) ==
    /\ reply[r] = "none" /\ Over(r)
    /\ reply' = [reply EXCEPT ![r] = "result"]
    /\ delivered' = Delivered(r)
    /\ UNCHANGED <<outcome, stopped, book>>

(* Jobs delivered and past the retention may be dropped, no others.        *)
Droppable == {r \in book : delivered[r] = Retention}

AnswerJobId(r, dropped) ==
    /\ reply[r] = "none" /\ outcome[r] # "absent"
    /\ book' = (book \ dropped) \cup {r}
    /\ Cardinality(book') <= MaxJobs
    /\ reply' = [reply EXCEPT ![r] = "job id"]
    /\ UNCHANGED <<outcome, stopped, delivered>>

AnswerError(r, dropped) ==
    /\ reply[r] = "none" /\ outcome[r] # "absent"
    /\ reply' = [reply EXCEPT ![r] = "error"]
    /\ stopped' = stopped \cup {r}
    /\ book' = book \ dropped
    /\ UNCHANGED <<outcome, delivered>>

(* A job can be read, and stopped, while it is in the book or shortly      *)
(* after it has left it: the caller may hold it already.                   *)
ReadJob(r) ==
    /\ reply[r] = "job id" /\ Over(r)
    /\ delivered' = Delivered(r)
    /\ UNCHANGED <<reply, outcome, stopped, book>>

StopJob(r) ==
    /\ reply[r] = "job id"
    /\ stopped' = stopped \cup {r}
    /\ UNCHANGED <<reply, outcome, book, delivered>>

(* Time passes, and the time of some commands is up.                       *)
Pass(timedOut) ==
    /\ stopped' = stopped \cup timedOut
    /\ delivered' = [r \in Runs |->
                       IF delivered[r] \in 0..(Retention - 1)
                       THEN delivered[r] + 1 ELSE delivered[r]]
    /\ UNCHANGED <<reply, outcome, book>>

Next ==
    \/ \E r \in Runs :
         \/ Decline(r)
         \/ \E timedOut \in SUBSET {r} : Accept(r, timedOut)
         \/ \E verdict \in {"completed", "killed"} : End(r, verdict)
         \/ AnswerResult(r)
         \/ \E dropped \in SUBSET Droppable : AnswerJobId(r, dropped)
         \/ \E dropped \in SUBSET Droppable : AnswerError(r, dropped)
         \/ ReadJob(r)
         \/ StopJob(r)
    \/ \E timedOut \in SUBSET {r \in Runs : outcome[r] # "absent"} :
         Pass(timedOut)

Spec == Init /\ [][Next]_vars
=============================================================================
