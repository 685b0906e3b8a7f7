------------------------------ MODULE BulkMail ------------------------------
(***************************************************************************)
(* The bulk-mail queue: addBulkEmailJob (bulkmailService.ts) splits a list *)
(* into jobs, and the worker of emailWorker.ts runs one job at a time,     *)
(* sending all its mails concurrently. The queue is BullMQ over Redis,     *)
(* modelled from the options the code gives it: a job that throws is run   *)
(* again after a backoff, `attempts` times in all, and one whose worker    *)
(* died is found stalled and run again once (BullMQ's maxStalledCount).    *)
(*                                                                         *)
(* getErrorCategory looks at `error.name`, which is "Error" for whatever   *)
(* nodemailer and the templates throw (the ECONNRESET, EENVELOPE... of     *)
(* SMTP_ERROR_CATEGORIES are in `error.code`). So a failed mail is always  *)
(* of the category UNKNOWN, the administrator is told, and the branches    *)
(* that requeue, blacklist and log are never taken.                        *)
(***************************************************************************)
EXTENDS Integers, Sequences, FiniteSets

CONSTANTS
    Destination,
    Lists,       \* the lists of (distinct) destinations given to addBulkEmailJob
    MaxBulkSize, \* 14
    Attempts,    \* 3
    MaxStalled,  \* 1
    MaxJobs      \* bound: jobs ever added

ASSUME SizesAssumption ==
    /\ MaxBulkSize \in Nat \ {0}
    /\ Attempts \in Nat \ {0}
    /\ MaxStalled \in Nat
    /\ MaxJobs \in Nat

ASSUME ListsAssumption ==
    /\ Lists \subseteq Seq(Destination)
    /\ \A list \in Lists : \A k, l \in DOMAIN list : list[k] = list[l] => k = l

VARIABLES
    jobs,   \* the jobs ever added, with their state in the queue and what became of them
    sends   \* the calls of sendEmail in progress: of the mail, or of the alert about it

vars == <<jobs, sends>>

Init == jobs = <<>> /\ sends = {}

\* A job: its destinations, its state, how often it was run, has thrown and has stalled;
\* how many mails each destination got, and whom the administrator was told about.
NewJob(chunk) ==
    [to |-> chunk, state |-> "waiting", run |-> 0, thrown |-> 0, stalled |-> 0,
     mails |-> [d \in Destination |-> 0], reported |-> {}]

\* The slice of the list that begins at position i.
Chunk(list, i) == {list[k] : k \in {k \in DOMAIN list : i <= k /\ k < i + MaxBulkSize}}

\* The loop of addBulkEmailJob.
Chunks(list) ==
    [n \in 1..((Len(list) + MaxBulkSize - 1) \div MaxBulkSize) |->
        NewJob(Chunk(list, (n - 1) * MaxBulkSize + 1))]

addBulkEmailJob(list) ==
    /\ Len(jobs) + Len(Chunks(list)) <= MaxJobs
    /\ jobs' = jobs \o Chunks(list)
    /\ UNCHANGED sends

-----------------------------------------------------------------------------
(* The worker. *)

Of(j) == {s \in sends : s.job = j /\ s.run = jobs[j].run}

\* The worker takes a job when it has none, and starts all its mails.
Take(j) ==
    /\ \A i \in DOMAIN jobs : jobs[i].state # "active"
    /\ jobs[j].state = "waiting"
    /\ jobs' = [jobs EXCEPT ![j] = [jobs[j] EXCEPT !.state = "active", !.run = @ + 1]]
    /\ sends' = sends \cup
          [job : {j}, run : {jobs[j].run + 1}, to : jobs[j].to, stage : {"mail"}]

Delivered(s) == jobs' = [jobs EXCEPT ![s.job] = [jobs[s.job] EXCEPT !.mails[s.to] = @ + 1]]

Sent(s) ==
    /\ s.stage = "mail"
    /\ Delivered(s)
    /\ sends' = sends \ {s}

\* The mail fails, or only its answer is lost; the catch block writes to the
\* administrator, which `Promise.all` waits for.
SendFails(s) ==
    /\ s.stage = "mail"
    /\ Delivered(s) \/ UNCHANGED jobs
    /\ sends' = (sends \ {s}) \cup {[s EXCEPT !.stage = "alert"]}

AlertSent(s) ==
    /\ s.stage = "alert"
    /\ jobs' = [jobs EXCEPT ![s.job] = [jobs[s.job] EXCEPT !.reported = @ \cup {s.to}]]
    /\ sends' = sends \ {s}

\* Mutant of Throw: one attempt too many.
ThrowOnceMore(j) ==
    jobs' = [jobs EXCEPT ![j] = [jobs[j] EXCEPT !.thrown = @ + 1,
                 !.state = IF jobs[j].thrown < Attempts THEN "delayed" ELSE "failed"]]

\* The job function throws: the job is tried again later, unless this was the last time.
Throw(j) ==
    jobs' = [jobs EXCEPT ![j] = [jobs[j] EXCEPT !.thrown = @ + 1,
                 !.state = IF jobs[j].thrown + 1 < Attempts THEN "delayed" ELSE "failed"]]

\* Mutant of AlertFails: the alert is not awaited.
AlertFailsUnseen(s) ==
    /\ s.stage = "alert"
    /\ sends' = sends \ {s}
    /\ UNCHANGED jobs

\* The alert fails, and with it the catch block and Promise.all: the job throws, for the
\* first such alert of a run, while the other mails of that run are still on their way.
AlertFails(s) ==
    /\ s.stage = "alert"
    /\ sends' = sends \ {s}
    /\ IF s \in Of(s.job) /\ jobs[s.job].state = "active"
       THEN Throw(s.job)
       ELSE UNCHANGED jobs

\* All mails of the run have ended, one way or the other.
Complete(j) ==
    /\ jobs[j].state = "active"
    /\ Of(j) = {}
    /\ jobs' = [jobs EXCEPT ![j] = [jobs[j] EXCEPT !.state = "completed"]]
    /\ UNCHANGED sends

\* The backoff is over.
Promote(j) ==
    /\ jobs[j].state = "delayed"
    /\ jobs' = [jobs EXCEPT ![j] = [jobs[j] EXCEPT !.state = "waiting"]]
    /\ UNCHANGED sends

\* The process dies and starts again; what it was sending is lost, and the job it ran
\* stays with a worker that is gone.
Crash ==
    /\ sends # {} \/ \E j \in DOMAIN jobs : jobs[j].state = "active"
    /\ sends' = {}
    /\ jobs' = [j \in DOMAIN jobs |->
                   [jobs[j] EXCEPT !.state = IF @ = "active" THEN "stalled" ELSE @]]

\* Mutant of Recover: a job that has stalled too often is left where it is.
RecoverOnly(j) ==
    /\ jobs[j].state = "stalled"
    /\ jobs[j].stalled < MaxStalled
    /\ jobs' = [jobs EXCEPT ![j] = [jobs[j] EXCEPT !.stalled = @ + 1, !.state = "waiting"]]
    /\ UNCHANGED sends

\* The queue's lock on the job has run out.
Recover(j) ==
    /\ jobs[j].state = "stalled"
    /\ jobs' = [jobs EXCEPT ![j] = [jobs[j] EXCEPT !.stalled = @ + 1,
                    !.state = IF jobs[j].stalled < MaxStalled THEN "waiting" ELSE "failed"]]
    /\ UNCHANGED sends

EndOfSend == \E s \in sends : Sent(s) \/ SendFails(s) \/ AlertSent(s) \/ AlertFails(s)

QueueStep == \E j \in DOMAIN jobs : Complete(j) \/ Promote(j) \/ Recover(j)

Next ==
    \/ \E list \in Lists : addBulkEmailJob(list)
    \/ \E j \in DOMAIN jobs : Take(j)
    \/ EndOfSend
    \/ QueueStep
    \/ Crash

\* The worker takes what is waiting, the SMTP server answers or nodemailer times out,
\* and the queue moves jobs on.
Spec ==
    /\ Init
    /\ [][Next]_vars
    /\ WF_vars(\E j \in DOMAIN jobs : Take(j))
    /\ WF_vars(EndOfSend)
    /\ WF_vars(QueueStep)

-----------------------------------------------------------------------------
(* Properties. *)

Ended == {"completed", "failed"}

Job == [to : SUBSET Destination,
        state : {"waiting", "active", "delayed", "stalled"} \cup Ended,
        run : Nat, thrown : 0..Attempts, stalled : 0..(MaxStalled + 1),
        mails : [Destination -> Nat], reported : SUBSET Destination]

Call == [job : Nat, run : Nat, to : Destination, stage : {"mail", "alert"}]

TypeOK ==
    /\ jobs \in Seq(Job)
    /\ sends \subseteq Call
    /\ \A s \in sends : s.job \in DOMAIN jobs /\ s.run \in 1..jobs[s.job].run

\* Every run of a job but the present one, or the one that completed it, has thrown or
\* stalled, and is accounted for as such; the last that counts is the one that fails it.
RunsCounted ==
    \A j \in DOMAIN jobs :
        LET ended == jobs[j].thrown + jobs[j].stalled
        IN  /\ jobs[j].run = IF jobs[j].state \in {"active", "stalled", "completed"}
                             THEN ended + 1 ELSE ended
            /\ ended <= Attempts + MaxStalled
            /\ jobs[j].state # "failed" =>
                   jobs[j].thrown < Attempts /\ jobs[j].stalled <= MaxStalled

\* The runs of j in which the mail to d is on its way.
Sending(j, d) == {s.run : s \in {s \in sends : s.job = j /\ s.to = d /\ s.stage = "mail"}}

\* Every mail that was delivered belongs to a run of its own, which is not sending it now.
MailsCounted ==
    \A j \in DOMAIN jobs : \A d \in Destination :
        jobs[j].mails[d] <= Cardinality((1..jobs[j].run) \ Sending(j, d))

Handled(j, d) == jobs[j].mails[d] > 0 \/ d \in jobs[j].reported

\* Whoever the present run has not dealt with is in one of its calls.
NobodyForgotten ==
    \A j \in DOMAIN jobs : jobs[j].state = "active" =>
        \A d \in jobs[j].to : Handled(j, d) \/ \E s \in Of(j) : s.to = d

\* A job is not taken to be done while one of its destinations got neither its mail nor a
\* report to the administrator, whichever mails, alerts and processes failed before.
CompletedIsHandled ==
    \A j \in DOMAIN jobs : jobs[j].state = "completed" =>
        \A d \in jobs[j].to : Handled(j, d)

\* What a run is, so that the above holds.
Consistent == TypeOK /\ RunsCounted /\ MailsCounted /\ NobodyForgotten /\ CompletedIsHandled

\* A retried job mails again to those who have their mail already, and the mails of a run
\* that threw overlap with those of the next; but nobody gets more mails of a job than it
\* may be tried and found stalled.
MailsBounded ==
    \A j \in DOMAIN jobs : \A d \in jobs[j].to : jobs[j].mails[d] <= Attempts + MaxStalled

\* Splitting a list puts every destination into one job, of at most 14.
EachInOneJob ==
    /\ \A j \in DOMAIN jobs : Cardinality(jobs[j].to) <= MaxBulkSize
    /\ \A list \in Lists : \A k \in DOMAIN list :
          Cardinality({n \in DOMAIN Chunks(list) : list[k] \in Chunks(list)[n].to}) = 1

\* Every job ends, also when the process keeps dying.
JobsEnd == \A j \in 1..MaxJobs :
    j \in DOMAIN jobs ~> (j \in DOMAIN jobs /\ jobs[j].state \in Ended)

=============================================================================
