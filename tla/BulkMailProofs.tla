--------------------------- MODULE BulkMailProofs ---------------------------
(***************************************************************************)
(* Consistent is an inductive invariant of BulkMail, for lists, jobs and   *)
(* attempts of any number. That mails are bounded although the runs of a   *)
(* job overlap takes counting: each delivered mail is charged to a run     *)
(* that has made its call (MailsCounted), and the runs are counted by what *)
(* ended them (RunsCounted).                                               *)
(***************************************************************************)
EXTENDS BulkMail, FiniteSetTheorems, SequenceTheorems, TLAPS

-----------------------------------------------------------------------------
(* Counting runs. *)

\* The fewer runs are sending, the more mails may have been delivered.
LEMMA Counting ==
    ASSUME NEW n \in Nat, NEW S, NEW T, S \subseteq T
    PROVE  /\ Cardinality((1..n) \ T) \in Nat /\ Cardinality((1..n) \ S) \in Nat
           /\ Cardinality((1..n) \ T) <= Cardinality((1..n) \ S)
           /\ \A x \in 1..n : x \in T /\ x \notin S =>
                  Cardinality((1..n) \ T) + 1 <= Cardinality((1..n) \ S)
<1>1. IsFiniteSet(1..n)
    BY FS_Interval
<1>2. IsFiniteSet((1..n) \ S) /\ IsFiniteSet((1..n) \ T)
    BY <1>1, FS_Subset
<1>3. Cardinality((1..n) \ T) \in Nat /\ Cardinality((1..n) \ S) \in Nat
    BY <1>2, FS_CardinalityType
<1>4. Cardinality((1..n) \ T) <= Cardinality((1..n) \ S)
    BY <1>2, FS_Subset
<1>5. ASSUME NEW x \in 1..n, x \in T, x \notin S
      PROVE  Cardinality((1..n) \ T) + 1 <= Cardinality((1..n) \ S)
  <2>1. Cardinality(((1..n) \ T) \cup {x}) = Cardinality((1..n) \ T) + 1
      BY <1>2, <1>5, FS_AddElement
  <2>2. ((1..n) \ T) \cup {x} \subseteq (1..n) \ S
      BY <1>5
  <2>3. QED
      BY <1>2, <2>1, <2>2, FS_Subset
<1>6. QED
    BY <1>3, <1>4, <1>5

\* A job has finitely many runs.
LEMMA RunsFinite == \A n \in Nat : IsFiniteSet(1..n)
BY FS_Interval

\* All n runs count when none is sending.
LEMMA CountAll == ASSUME NEW n \in Nat PROVE Cardinality((1..n) \ {}) = n
<1>1. (1..n) \ {} = 1..n
    OBVIOUS
<1>2. QED
    BY <1>1, FS_Interval

\* The parts of a job of the queue.
LEMMA JobsTyped ==
    ASSUME TypeOK, NEW j \in DOMAIN jobs
    PROVE  /\ jobs[j] \in Job
           /\ jobs[j].run \in Nat
           /\ jobs[j].mails \in [Destination -> Nat]
<1>1. jobs[j] \in Job
    BY LenProperties, ElementOfSeq DEF TypeOK
<1>2. QED
    BY <1>1 DEF Job

\* Nobody's mails exceed the runs.
LEMMA MailsBelowRuns ==
    ASSUME TypeOK, MailsCounted, NEW j \in DOMAIN jobs, NEW d \in Destination
    PROVE  jobs[j].mails[d] <= jobs[j].run
<1>1. jobs[j].run \in Nat /\ jobs[j].mails[d] \in Nat
    BY JobsTyped
<1>2. /\ Cardinality((1..jobs[j].run) \ Sending(j, d)) <= Cardinality((1..jobs[j].run) \ {})
      /\ Cardinality((1..jobs[j].run) \ Sending(j, d)) \in Nat
    BY <1>1, Counting
<1>3. QED
    BY <1>1, <1>2, CountAll DEF MailsCounted

-----------------------------------------------------------------------------
(* Steps that change one job. *)

\* What is true of each job by itself.
Counted(job) ==
    LET ended == job.thrown + job.stalled
    IN  /\ job.run = IF job.state \in {"active", "stalled", "completed"}
                     THEN ended + 1 ELSE ended
        /\ ended <= Attempts + MaxStalled
        /\ job.state # "failed" => job.thrown < Attempts /\ job.stalled <= MaxStalled

\* To change one job changes no other.
LEMMA JobChanges ==
    ASSUME TypeOK, NEW j \in DOMAIN jobs, NEW new \in Job, jobs' = [jobs EXCEPT ![j] = new]
    PROVE  /\ jobs' \in Seq(Job)
           /\ DOMAIN jobs' = DOMAIN jobs
           /\ \A i \in DOMAIN jobs : jobs'[i] = IF i = j THEN new ELSE jobs[i]
<1>1. jobs \in Seq(Job) /\ DOMAIN jobs = 1..Len(jobs)
    BY LenProperties DEF TypeOK
<1>2. QED
    BY <1>1, ExceptSeq

\* A call is determined by its job, its run, its destination and its stage.
LEMMA CallsAreDistinct ==
    ASSUME NEW s \in Call, NEW t \in Call,
           s.job = t.job, s.run = t.run, s.to = t.to, s.stage = t.stage
    PROVE  s = t
BY DEF Call

\* No mail is delivered, and none is sent that was not on its way.
LEMMA QuietMailsCounted ==
    ASSUME TypeOK, MailsCounted,
           DOMAIN jobs' = DOMAIN jobs,
           \A i \in DOMAIN jobs : /\ jobs'[i].mails = jobs[i].mails
                                  /\ jobs'[i].run = jobs[i].run,
           \A s \in sends' : s.stage = "mail" => s \in sends
    PROVE  MailsCounted'
<1> SUFFICES ASSUME NEW i \in DOMAIN jobs, NEW d \in Destination
             PROVE  jobs'[i].mails[d] <= Cardinality((1..jobs'[i].run) \ Sending(i, d)')
    BY DEF MailsCounted
<1>1. jobs[i].run \in Nat /\ jobs[i].mails[d] \in Nat
    BY JobsTyped
<1>2. Sending(i, d)' \subseteq Sending(i, d)
    BY DEF Sending
<1>3. /\ Cardinality((1..jobs[i].run) \ Sending(i, d)) \in Nat
      /\ Cardinality((1..jobs[i].run) \ Sending(i, d)') \in Nat
      /\ Cardinality((1..jobs[i].run) \ Sending(i, d))
            <= Cardinality((1..jobs[i].run) \ Sending(i, d)')
    BY <1>1, <1>2, Counting
<1>4. jobs[i].mails[d] <= Cardinality((1..jobs[i].run) \ Sending(i, d))
    BY DEF MailsCounted
<1>5. jobs'[i].mails[d] = jobs[i].mails[d] /\ jobs'[i].run = jobs[i].run
    OBVIOUS
<1>6. QED
    BY <1>1, <1>3, <1>4, <1>5

\* The mail of one call is delivered, and the call no longer on its way.
LEMMA DeliveredMailsCounted ==
    ASSUME TypeOK, MailsCounted, NEW s \in sends, s.stage = "mail",
           DOMAIN jobs' = DOMAIN jobs,
           \A i \in DOMAIN jobs :
               /\ jobs'[i].run = jobs[i].run
               /\ jobs'[i].mails = IF i = s.job THEN [jobs[i].mails EXCEPT ![s.to] = @ + 1]
                                                ELSE jobs[i].mails,
           \A t \in sends' : t.stage = "mail" => t \in sends \ {s}
    PROVE  MailsCounted'
<1> SUFFICES ASSUME NEW i \in DOMAIN jobs, NEW d \in Destination
             PROVE  jobs'[i].mails[d] <= Cardinality((1..jobs'[i].run) \ Sending(i, d)')
    BY DEF MailsCounted
<1>1. /\ jobs[i].run \in Nat /\ jobs[i].mails[d] \in Nat
      /\ jobs[i].mails \in [Destination -> Nat]
    BY JobsTyped
<1>2. Sending(i, d)' \subseteq Sending(i, d)
    BY DEF Sending
<1>3. /\ Cardinality((1..jobs[i].run) \ Sending(i, d)) \in Nat
      /\ Cardinality((1..jobs[i].run) \ Sending(i, d)') \in Nat
      /\ Cardinality((1..jobs[i].run) \ Sending(i, d))
            <= Cardinality((1..jobs[i].run) \ Sending(i, d)')
    BY <1>1, <1>2, Counting
<1>4. jobs[i].mails[d] <= Cardinality((1..jobs[i].run) \ Sending(i, d))
    BY DEF MailsCounted
<1>5. CASE i = s.job /\ d = s.to
  <2>1. s.run \in 1..jobs[i].run /\ s.run \in Sending(i, d)
      BY <1>5 DEF TypeOK, Sending
  <2>2. s.run \notin Sending(i, d)'
    <3> SUFFICES ASSUME NEW t \in sends', t.stage = "mail", t.job = i, t.to = d,
                        t.run = s.run
                 PROVE  FALSE
        BY DEF Sending
    <3>1. t \in sends \ {s}
        OBVIOUS
    <3>2. QED
        BY <1>5, <3>1, CallsAreDistinct DEF TypeOK
  <2>3. Cardinality((1..jobs[i].run) \ Sending(i, d)) + 1
            <= Cardinality((1..jobs[i].run) \ Sending(i, d)')
      BY <1>1, <1>2, <2>1, <2>2, Counting
  <2>4. jobs'[i].mails[d] = jobs[i].mails[d] + 1 /\ jobs'[i].run = jobs[i].run
      BY <1>1, <1>5
  <2>5. QED
      BY <1>1, <1>3, <1>4, <2>3, <2>4
<1>6. CASE ~(i = s.job /\ d = s.to)
  <2>1. jobs'[i].mails[d] = jobs[i].mails[d] /\ jobs'[i].run = jobs[i].run
      BY <1>1, <1>6
  <2>2. QED
      BY <1>1, <1>3, <1>4, <2>1
<1>7. QED
    BY <1>5, <1>6

-----------------------------------------------------------------------------
(* New jobs. *)

\* The jobs of a list are new jobs of slices of it.
LEMMA ChunksTyped ==
    ASSUME NEW list \in Lists
    PROVE  /\ Chunks(list) \in Seq(Job)
           /\ \A n \in DOMAIN Chunks(list) :
                  \E i \in Int : Chunks(list)[n] = NewJob(Chunk(list, i))
<1> DEFINE N == (Len(list) + MaxBulkSize - 1) \div MaxBulkSize
<1>1. list \in Seq(Destination) /\ Len(list) \in Nat /\ DOMAIN list = 1..Len(list)
    BY ListsAssumption, LenProperties
<1>2. \A k \in DOMAIN list : list[k] \in Destination
    BY <1>1, ElementOfSeq
<1>3. N \in Nat
    BY <1>1, SizesAssumption
<1>4. \A i \in Int : NewJob(Chunk(list, i)) \in Job
    BY <1>2, SizesAssumption DEF NewJob, Chunk, Job
<1>5. Chunks(list) = [n \in 1..N |-> NewJob(Chunk(list, (n - 1) * MaxBulkSize + 1))]
    BY DEF Chunks
<1> HIDE DEF N
<1>6. \A n \in 1..N : (n - 1) * MaxBulkSize + 1 \in Int
    BY <1>3, SizesAssumption
<1>7. Chunks(list) \in [1..N -> Job]
    BY <1>4, <1>5, <1>6
<1>8. Chunks(list) \in Seq(Job)
    BY <1>3, <1>7
<1>9. QED
    BY <1>5, <1>6, <1>8

\* addBulkEmailJob appends jobs nobody has run.
LEMMA AddConsistent ==
    ASSUME Consistent, NEW list \in Lists, addBulkEmailJob(list)
    PROVE  Consistent'
<1>1. /\ jobs \in Seq(Job) /\ Chunks(list) \in Seq(Job)
      /\ jobs' = jobs \o Chunks(list) /\ sends' = sends
    BY ChunksTyped DEF addBulkEmailJob, Consistent, TypeOK
<1>2. /\ jobs' \in Seq(Job)
      /\ Len(jobs') = Len(jobs) + Len(Chunks(list))
      /\ \A i \in 1..Len(jobs') : jobs'[i] = IF i <= Len(jobs) THEN jobs[i]
                                               ELSE Chunks(list)[i - Len(jobs)]
    BY <1>1, ConcatProperties
<1>3. /\ DOMAIN jobs = 1..Len(jobs) /\ Len(jobs) \in Nat
      /\ DOMAIN jobs' = 1..Len(jobs')
      /\ DOMAIN Chunks(list) = 1..Len(Chunks(list)) /\ Len(Chunks(list)) \in Nat
    BY <1>1, <1>2, LenProperties
<1>4. \A i \in DOMAIN jobs : i \in DOMAIN jobs' /\ jobs'[i] = jobs[i]
    BY <1>2, <1>3
<1>5. ASSUME NEW i \in DOMAIN jobs', i \notin DOMAIN jobs
      PROVE  /\ jobs'[i].state = "waiting" /\ jobs'[i].run = 0
             /\ jobs'[i].thrown = 0 /\ jobs'[i].stalled = 0
             /\ \A d \in Destination : jobs'[i].mails[d] = 0
  <2>1. i - Len(jobs) \in DOMAIN Chunks(list) /\ jobs'[i] = Chunks(list)[i - Len(jobs)]
      BY <1>2, <1>3, <1>5
  <2>2. QED
      BY <2>1, ChunksTyped DEF NewJob
<1>6. TypeOK'
    BY <1>1, <1>2, <1>4 DEF Consistent, TypeOK
<1>7. RunsCounted'
    BY <1>4, <1>5, SizesAssumption DEF Consistent, RunsCounted
<1>8. MailsCounted'
  <2> SUFFICES ASSUME NEW i \in DOMAIN jobs', NEW d \in Destination
               PROVE  jobs'[i].mails[d] <= Cardinality((1..jobs'[i].run) \ Sending(i, d)')
      BY DEF MailsCounted
  <2>1. Sending(i, d)' = Sending(i, d)
      BY <1>1 DEF Sending
  <2>2. CASE i \in DOMAIN jobs
      BY <1>4, <2>1, <2>2 DEF Consistent, MailsCounted
  <2>3. CASE i \notin DOMAIN jobs
    <3>1. (1..0) \ Sending(i, d)' = {} /\ jobs'[i].mails[d] = 0 /\ jobs'[i].run = 0
        BY <1>5, <2>3
    <3>2. QED
        BY <3>1, FS_EmptySet
  <2>4. QED
      BY <2>2, <2>3
<1>9. NobodyForgotten' /\ CompletedIsHandled'
    BY <1>1, <1>4, <1>5 DEF Consistent, NobodyForgotten, CompletedIsHandled, Handled, Of
<1>10. QED
    BY <1>6, <1>7, <1>8, <1>9 DEF Consistent

-----------------------------------------------------------------------------
(* What the steps make of a job. *)

Taken(job) == [job EXCEPT !.state = "active", !.run = @ + 1]
Mailed(job, d) == [job EXCEPT !.mails[d] = @ + 1]
Reported(job, d) == [job EXCEPT !.reported = @ \cup {d}]
Thrown(job) ==
    [job EXCEPT !.thrown = @ + 1,
                !.state = IF job.thrown + 1 < Attempts THEN "delayed" ELSE "failed"]
Recovered(job) ==
    [job EXCEPT !.stalled = @ + 1,
                !.state = IF job.stalled < MaxStalled THEN "waiting" ELSE "failed"]
Moved(job, state) == [job EXCEPT !.state = state]

\* All but the mails, which only grow, and the state.
SameButState(job, new) ==
    /\ new \in Job
    /\ new.to = job.to /\ new.run = job.run
    /\ job.reported \subseteq new.reported
    /\ \A d \in Destination : job.mails[d] <= new.mails[d]

\* A job whose state or count changes is a job.
LEMMA FieldsChange ==
    ASSUME NEW job \in Job
    PROVE  /\ \A s \in {"waiting", "active", "delayed", "stalled", "completed", "failed"} :
                  [job EXCEPT !.state = s] \in Job
           /\ \A n \in Nat : [job EXCEPT !.run = n] \in Job
           /\ \A n \in 0..Attempts : [job EXCEPT !.thrown = n] \in Job
           /\ \A n \in 0..(MaxStalled + 1) : [job EXCEPT !.stalled = n] \in Job
BY DEF Job, Ended

\* What Take makes of a job.
LEMMA TakenJob ==
    ASSUME NEW job \in Job
    PROVE  /\ Taken(job) \in Job
           /\ Taken(job).state = "active" /\ Taken(job).run = job.run + 1
           /\ Taken(job).to = job.to /\ Taken(job).mails = job.mails
           /\ Taken(job).thrown = job.thrown /\ Taken(job).stalled = job.stalled
<1>1. PICK new : new = [job EXCEPT !.state = "active"]
    OBVIOUS
<1>2. new \in Job
    BY <1>1, FieldsChange
<1>3. Taken(job) = [new EXCEPT !.run = job.run + 1]
    BY <1>1 DEF Taken
<1>4. job.run + 1 \in Nat
    BY DEF Job
<1>5. Taken(job) \in Job
    BY <1>2, <1>3, <1>4, FieldsChange
<1>6. /\ Taken(job).state = "active" /\ Taken(job).run = job.run + 1
      /\ Taken(job).to = job.to /\ Taken(job).mails = job.mails
      /\ Taken(job).thrown = job.thrown /\ Taken(job).stalled = job.stalled
    BY DEF Job, Ended, Taken
<1>7. QED
    BY <1>5, <1>6

\* What a delivered mail makes of a job.
LEMMA MailedJob ==
    ASSUME NEW job \in Job, NEW d \in Destination
    PROVE  /\ SameButState(job, Mailed(job, d))
           /\ Mailed(job, d).state = job.state
           /\ Mailed(job, d).thrown = job.thrown /\ Mailed(job, d).stalled = job.stalled
           /\ Mailed(job, d).mails = [job.mails EXCEPT ![d] = @ + 1]
           /\ Mailed(job, d).mails[d] > 0
BY DEF Job, Ended, Mailed, SameButState

\* What an alert makes of a job.
LEMMA ReportedJob ==
    ASSUME NEW job \in Job, NEW d \in Destination
    PROVE  /\ SameButState(job, Reported(job, d))
           /\ Reported(job, d).state = job.state /\ d \in Reported(job, d).reported
           /\ Reported(job, d).thrown = job.thrown /\ Reported(job, d).stalled = job.stalled
           /\ Reported(job, d).mails = job.mails
BY DEF Job, Ended, Reported, SameButState

\* A job that throws is counted for it, and fails at its last attempt.
LEMMA ThrownJob ==
    ASSUME NEW job \in Job, Counted(job), job.state = "active"
    PROVE  /\ SameButState(job, Thrown(job)) /\ Counted(Thrown(job))
           /\ Thrown(job).state \in {"delayed", "failed"}
           /\ Thrown(job).mails = job.mails
<1>1. job.thrown < Attempts /\ job.run = job.thrown + job.stalled + 1
      /\ job.stalled <= MaxStalled
    BY DEF Counted
<1>2. job.thrown \in Nat /\ job.stalled \in Nat
    BY SizesAssumption DEF Job
<1>3. PICK new : new = [job EXCEPT !.thrown = job.thrown + 1]
    OBVIOUS
<1>4. new \in Job
  <2>1. job.thrown + 1 \in 0..Attempts
      BY <1>1, <1>2, SizesAssumption
  <2>2. QED
      BY <1>3, <2>1, FieldsChange
<1>5. PICK s : s = IF job.thrown + 1 < Attempts THEN "delayed" ELSE "failed"
    OBVIOUS
<1>6. Thrown(job) = [new EXCEPT !.state = s]
    BY <1>3, <1>5 DEF Thrown
<1>7. Thrown(job) \in Job
    BY <1>4, <1>5, <1>6, FieldsChange
<1>8. /\ Thrown(job).to = job.to /\ Thrown(job).run = job.run
      /\ Thrown(job).mails = job.mails /\ Thrown(job).reported = job.reported
      /\ Thrown(job).thrown = job.thrown + 1 /\ Thrown(job).stalled = job.stalled
    BY DEF Job, Ended, Thrown
<1>9. Thrown(job).state = IF job.thrown + 1 < Attempts THEN "delayed" ELSE "failed"
    BY DEF Job, Ended, Thrown
<1>10. Counted(Thrown(job))
    BY <1>1, <1>2, <1>8, <1>9, SizesAssumption DEF Counted
<1>11. SameButState(job, Thrown(job))
    BY <1>7, <1>8 DEF SameButState, Job
<1>12. QED
    BY <1>8, <1>9, <1>10, <1>11

\* A stalled job is counted for it, and fails when it has stalled too often.
LEMMA RecoveredJob ==
    ASSUME NEW job \in Job, Counted(job), job.state = "stalled"
    PROVE  /\ SameButState(job, Recovered(job)) /\ Counted(Recovered(job))
           /\ Recovered(job).state \in {"waiting", "failed"}
           /\ Recovered(job).mails = job.mails
<1>1. job.thrown < Attempts /\ job.run = job.thrown + job.stalled + 1
      /\ job.stalled <= MaxStalled
    BY DEF Counted
<1>2. job.thrown \in Nat /\ job.stalled \in Nat
    BY SizesAssumption DEF Job
<1>3. PICK new : new = [job EXCEPT !.stalled = job.stalled + 1]
    OBVIOUS
<1>4. new \in Job
  <2>1. job.stalled + 1 \in 0..(MaxStalled + 1)
      BY <1>1, <1>2, SizesAssumption
  <2>2. QED
      BY <1>3, <2>1, FieldsChange
<1>5. PICK s : s = IF job.stalled < MaxStalled THEN "waiting" ELSE "failed"
    OBVIOUS
<1>6. Recovered(job) = [new EXCEPT !.state = s]
    BY <1>3, <1>5 DEF Recovered
<1>7. Recovered(job) \in Job
    BY <1>4, <1>5, <1>6, FieldsChange
<1>8. /\ Recovered(job).to = job.to /\ Recovered(job).run = job.run
      /\ Recovered(job).mails = job.mails /\ Recovered(job).reported = job.reported
      /\ Recovered(job).stalled = job.stalled + 1 /\ Recovered(job).thrown = job.thrown
    BY DEF Job, Ended, Recovered
<1>9. Recovered(job).state = IF job.stalled < MaxStalled THEN "waiting" ELSE "failed"
    BY DEF Job, Ended, Recovered
<1>10. Counted(Recovered(job))
    BY <1>1, <1>2, <1>8, <1>9, SizesAssumption DEF Counted
<1>11. SameButState(job, Recovered(job))
    BY <1>7, <1>8 DEF SameButState, Job
<1>12. QED
    BY <1>8, <1>9, <1>10, <1>11

\* A job in another state is otherwise the same.
LEMMA MovedJob ==
    ASSUME NEW job \in Job, NEW state \in {"waiting", "active", "delayed", "stalled"} \cup Ended
    PROVE  /\ SameButState(job, Moved(job, state))
           /\ Moved(job, state).state = state
           /\ Moved(job, state).thrown = job.thrown /\ Moved(job, state).stalled = job.stalled
           /\ Moved(job, state).mails = job.mails
BY DEF Job, Moved, SameButState

-----------------------------------------------------------------------------
(* The worker. *)

\* The worker takes a job: each of its destinations has a call of the new run.
LEMMA TakeConsistent ==
    ASSUME Consistent, NEW j \in DOMAIN jobs, Take(j)
    PROVE  Consistent'
<1> DEFINE calls == [job : {j}, run : {jobs[j].run + 1}, to : jobs[j].to, stage : {"mail"}]
           new == Taken(jobs[j])
<1>1. /\ jobs[j] \in Job /\ jobs[j].run \in Nat /\ jobs[j].state = "waiting"
      /\ j \in Nat
      /\ \A i \in DOMAIN jobs : jobs[i].state # "active"
    BY JobsTyped, LenProperties DEF Take, Consistent, TypeOK
<1>2. /\ new \in Job
      /\ new.state = "active" /\ new.run = jobs[j].run + 1 /\ new.to = jobs[j].to
      /\ new.thrown = jobs[j].thrown /\ new.stalled = jobs[j].stalled
      /\ new.mails = jobs[j].mails
    BY <1>1, TakenJob
<1>3. jobs' = [jobs EXCEPT ![j] = new] /\ sends' = sends \cup calls
    BY DEF Take, Taken
<1> HIDE DEF new
<1>4. /\ jobs' \in Seq(Job)
      /\ DOMAIN jobs' = DOMAIN jobs
      /\ \A i \in DOMAIN jobs : jobs'[i] = IF i = j THEN new ELSE jobs[i]
    BY <1>2, <1>3, JobChanges DEF Consistent
<1>5. calls \subseteq Call
    BY <1>1 DEF Call, Job
<1>6. TypeOK'
    BY <1>1, <1>2, <1>3, <1>4, <1>5 DEF Consistent, TypeOK
<1>7. RunsCounted'
  <2>1. Counted(new)
    <3>1. jobs[j].thrown \in Nat /\ jobs[j].stalled \in Nat
        BY <1>1, SizesAssumption DEF Job
    <3>2. QED
        BY <1>1, <1>2, <3>1, SizesAssumption DEF Consistent, RunsCounted, Counted
  <2>2. QED
      BY <1>4, <2>1 DEF Consistent, RunsCounted, Counted
<1>8. MailsCounted'
  <2> SUFFICES ASSUME NEW i \in DOMAIN jobs, NEW d \in Destination
               PROVE  jobs'[i].mails[d] <= Cardinality((1..jobs'[i].run) \ Sending(i, d)')
      BY <1>4 DEF MailsCounted
  <2> DEFINE before == (1..jobs[i].run) \ Sending(i, d)
             after == (1..jobs'[i].run) \ Sending(i, d)'
  <2>1. /\ jobs'[i].mails = jobs[i].mails
        /\ jobs'[i].run = IF i = j THEN jobs[i].run + 1 ELSE jobs[i].run
      BY <1>2, <1>4
  <2>2. jobs[i].run \in Nat /\ jobs'[i].run \in Nat /\ jobs[i].mails[d] \in Nat
      BY <2>1, JobsTyped DEF Consistent
  <2>3. Sending(i, d)' \subseteq Sending(i, d) \cup {jobs[i].run + 1}
        /\ (i # j => Sending(i, d)' = Sending(i, d))
      BY <1>3 DEF Sending
  <2>4. before \subseteq after
      BY <2>1, <2>2, <2>3
  <2>5. IsFiniteSet(after) /\ IsFiniteSet(before)
    <3>1. IsFiniteSet(1..jobs[i].run) /\ IsFiniteSet(1..jobs'[i].run)
        BY <2>2, RunsFinite
    <3>2. QED
        BY <3>1, FS_Subset
  <2>6. /\ Cardinality(before) <= Cardinality(after)
        /\ Cardinality(before) \in Nat /\ Cardinality(after) \in Nat
      BY <2>4, <2>5, FS_Subset, FS_CardinalityType
  <2>7. jobs[i].mails[d] <= Cardinality(before)
      BY DEF Consistent, MailsCounted
  <2> HIDE DEF before, after
  <2>8. jobs'[i].mails[d] <= Cardinality(after)
      BY <2>1, <2>2, <2>6, <2>7
  <2>9. QED
      BY <2>8 DEF after
<1>9. NobodyForgotten'
  <2>1. ASSUME NEW d \in jobs[j].to
        PROVE  \E s \in sends' : s.job = j /\ s.run = jobs[j].run + 1 /\ s.to = d
    <3>1. PICK s : s = [job |-> j, run |-> jobs[j].run + 1, to |-> d, stage |-> "mail"]
        OBVIOUS
    <3>2. s \in calls
        BY <3>1
    <3>3. QED
        BY <1>3, <3>1, <3>2
  <2>2. jobs'[j] = new
      BY <1>4
  <2>3. ASSUME NEW d \in jobs[j].to
        PROVE  \E s \in Of(j)' : s.to = d
      BY <1>2, <2>1, <2>2 DEF Of
  <2> SUFFICES ASSUME NEW i \in DOMAIN jobs', jobs'[i].state = "active", NEW d \in jobs'[i].to
               PROVE  \E s \in Of(i)' : s.to = d
      BY DEF NobodyForgotten
  <2>4. i = j
      BY <1>1, <1>4
  <2>5. QED
      BY <1>2, <2>2, <2>3, <2>4
<1>10. CompletedIsHandled'
    BY <1>1, <1>2, <1>4 DEF Consistent, CompletedIsHandled, Handled
<1>11. QED
    BY <1>6, <1>7, <1>8, <1>9, <1>10 DEF Consistent

\* A step of job j: it keeps its destinations and its run, whoever is not dealt with is
\* still in a call, and no call is added.
LEMMA JobStepConsistent ==
    ASSUME Consistent, NEW j \in DOMAIN jobs, NEW new,
           jobs' = [jobs EXCEPT ![j] = new],
           SameButState(jobs[j], new), Counted(new), MailsCounted',
           sends' \subseteq Call,
           \A s \in sends' : \E t \in sends : s.job = t.job /\ s.run = t.run,
           \A s \in sends : s.job # j => s \in sends',
           new.state = "active" => \A d \in new.to :
               \/ new.mails[d] > 0 \/ d \in new.reported
               \/ \E s \in sends' : s.job = j /\ s.run = new.run /\ s.to = d,
           new.state = "completed" => \A d \in new.to : new.mails[d] > 0 \/ d \in new.reported
    PROVE  Consistent'
<1>1. new \in Job
    BY DEF SameButState
<1>2. /\ jobs' \in Seq(Job)
      /\ DOMAIN jobs' = DOMAIN jobs
      /\ \A i \in DOMAIN jobs : jobs'[i] = IF i = j THEN new ELSE jobs[i]
    BY <1>1, JobChanges DEF Consistent
<1>3. TypeOK'
    BY <1>2 DEF Consistent, TypeOK, SameButState
<1>4. RunsCounted'
    BY <1>2 DEF Consistent, RunsCounted, Counted
<1>5. NobodyForgotten'
  <2> SUFFICES ASSUME NEW i \in DOMAIN jobs, jobs'[i].state = "active", NEW d \in jobs'[i].to
               PROVE  \/ jobs'[i].mails[d] > 0 \/ d \in jobs'[i].reported
                      \/ \E s \in sends' : s.job = i /\ s.run = jobs'[i].run /\ s.to = d
      BY <1>2 DEF NobodyForgotten, Handled, Of
  <2>1. CASE i = j
      BY <1>2, <2>1
  <2>2. CASE i # j
    <3>1. jobs'[i] = jobs[i]
        BY <1>2, <2>2
    <3>2. \/ jobs[i].mails[d] > 0 \/ d \in jobs[i].reported
          \/ \E s \in sends : s.job = i /\ s.run = jobs[i].run /\ s.to = d
        BY <3>1 DEF Consistent, NobodyForgotten, Handled, Of
    <3>3. QED
        BY <2>2, <3>1, <3>2
  <2>3. QED
      BY <2>1, <2>2
<1>6. CompletedIsHandled'
    BY <1>2 DEF Consistent, CompletedIsHandled, Handled
<1>7. QED
    BY <1>3, <1>4, <1>5, <1>6 DEF Consistent

\* A call of sendEmail ends, whether its run is still the present one or not.
LEMMA SendConsistent ==
    ASSUME Consistent, NEW s \in sends,
           Sent(s) \/ SendFails(s) \/ AlertSent(s) \/ AlertFails(s)
    PROVE  Consistent'
<1> DEFINE j == s.job
           d == s.to
<1>1. /\ j \in DOMAIN jobs /\ jobs[j] \in Job /\ d \in Destination /\ s \in Call
      /\ Counted(jobs[j])
    BY JobsTyped DEF Consistent, TypeOK, Call, RunsCounted, Counted
<1>2. \A e \in jobs[j].to : jobs[j].state = "active" =>
          \/ jobs[j].mails[e] > 0 \/ e \in jobs[j].reported
          \/ \E t \in sends : t.job = j /\ t.run = jobs[j].run /\ t.to = e
    BY <1>1 DEF Consistent, NobodyForgotten, Handled, Of
<1>3. \A e \in jobs[j].to : jobs[j].state = "completed" =>
          jobs[j].mails[e] > 0 \/ e \in jobs[j].reported
    BY <1>1 DEF Consistent, CompletedIsHandled, Handled
<1>4. SameButState(jobs[j], jobs[j])
    BY <1>1 DEF SameButState, Job
<1> HIDE DEF j, d
<1>5. ASSUME NEW new, SameButState(jobs[j], new), new.mails = jobs[j].mails,
             jobs' = [jobs EXCEPT ![j] = new],
             \A t \in sends' : t.stage = "mail" => t \in sends
      PROVE  MailsCounted'
  <2>1. /\ DOMAIN jobs' = DOMAIN jobs
        /\ \A i \in DOMAIN jobs : jobs'[i] = IF i = j THEN new ELSE jobs[i]
      BY <1>1, <1>5, JobChanges DEF Consistent, SameButState
  <2>2. QED
      BY <1>5, <2>1, QuietMailsCounted DEF Consistent, SameButState
<1>6. ASSUME jobs' = [jobs EXCEPT ![j] = Mailed(jobs[j], d)], s.stage = "mail",
             \A t \in sends' : t.stage = "mail" => t \in sends \ {s}
      PROVE  MailsCounted'
  <2>1. /\ Mailed(jobs[j], d) \in Job /\ Mailed(jobs[j], d).run = jobs[j].run
        /\ Mailed(jobs[j], d).mails = [jobs[j].mails EXCEPT ![d] = @ + 1]
      BY <1>1, MailedJob DEF SameButState
  <2>2. /\ DOMAIN jobs' = DOMAIN jobs
        /\ \A i \in DOMAIN jobs : jobs'[i] = IF i = j THEN Mailed(jobs[j], d) ELSE jobs[i]
      BY <1>1, <1>6, <2>1, JobChanges DEF Consistent
  <2>3. QED
      BY <1>6, <2>1, <2>2, DeliveredMailsCounted DEF Consistent, j, d
<1>7. ASSUME NEW new, SameButState(jobs[j], new), Counted(new), new.state = jobs[j].state,
             jobs' = [jobs EXCEPT ![j] = new], MailsCounted',
             sends \ {s} \subseteq sends', sends' \subseteq Call,
             \A t \in sends' : t \in sends \/ (t.job = j /\ t.run = s.run),
             new.state = "active" /\ s.run = new.run =>
                 \/ new.mails[d] > 0 \/ d \in new.reported
                 \/ \E t \in sends' : t.job = j /\ t.run = s.run /\ t.to = d
      PROVE  Consistent'
  <2>1. /\ new.to = jobs[j].to /\ new.run = jobs[j].run
        /\ \A e \in jobs[j].to : jobs[j].mails[e] > 0 => new.mails[e] > 0
        /\ jobs[j].reported \subseteq new.reported
      BY <1>1, <1>7 DEF SameButState, Job
  <2>2. \A t \in sends' : \E u \in sends : t.job = u.job /\ t.run = u.run
      BY <1>7 DEF j
  <2>3. \A t \in sends : t.job # j => t \in sends'
      BY <1>7 DEF j
  <2>4. ASSUME new.state = "active", NEW e \in new.to
        PROVE  \/ new.mails[e] > 0 \/ e \in new.reported
               \/ \E t \in sends' : t.job = j /\ t.run = new.run /\ t.to = e
    <3>1. CASE jobs[j].mails[e] > 0 \/ e \in jobs[j].reported
        BY <2>1, <2>4, <3>1
    <3>2. CASE \E t \in sends : t.job = j /\ t.run = jobs[j].run /\ t.to = e
      <4>1. PICK t \in sends : t.job = j /\ t.run = jobs[j].run /\ t.to = e
          BY <3>2
      <4>2. CASE t = s
          BY <1>7, <2>1, <2>4, <4>1, <4>2 DEF d
      <4>3. CASE t # s
          BY <1>7, <2>1, <4>1, <4>3
      <4>4. QED
          BY <4>2, <4>3
    <3>3. QED
        BY <1>2, <1>7, <2>1, <2>4, <3>1, <3>2
  <2>5. new.state = "completed" => \A e \in new.to : new.mails[e] > 0 \/ e \in new.reported
      BY <1>3, <1>7, <2>1
  <2>6. QED
      BY <1>1, <1>7, <2>2, <2>3, <2>4, <2>5, JobStepConsistent
<1>8. sends \subseteq Call
    BY DEF Consistent, TypeOK
<1>9. CASE Sent(s)
  <2>1. /\ jobs' = [jobs EXCEPT ![j] = Mailed(jobs[j], d)] /\ s.stage = "mail"
        /\ sends' = sends \ {s}
      BY <1>9 DEF Sent, Delivered, Mailed, j, d
  <2>2. MailsCounted'
      BY <1>6, <2>1
  <2>3. Counted(Mailed(jobs[j], d))
      BY <1>1, MailedJob DEF Counted, SameButState
  <2>4. QED
      BY <1>1, <1>7, <1>8, <2>1, <2>2, <2>3, MailedJob
<1>10. CASE AlertSent(s)
  <2>1. /\ jobs' = [jobs EXCEPT ![j] = Reported(jobs[j], d)] /\ s.stage = "alert"
        /\ sends' = sends \ {s}
      BY <1>10 DEF AlertSent, Reported, j, d
  <2>2. MailsCounted'
      BY <1>1, <1>5, <2>1, ReportedJob
  <2>3. Counted(Reported(jobs[j], d))
      BY <1>1, ReportedJob DEF Counted, SameButState
  <2>4. QED
      BY <1>1, <1>7, <1>8, <2>1, <2>2, <2>3, ReportedJob
<1>11. CASE SendFails(s)
  <2>1. PICK t : t = [s EXCEPT !.stage = "alert"]
      OBVIOUS
  <2>2. t \in Call /\ t.stage = "alert" /\ t.job = j /\ t.run = s.run /\ t.to = d
      BY <1>1, <2>1 DEF Call, j, d
  <2>3. s.stage = "mail" /\ sends' = (sends \ {s}) \cup {t}
      BY <1>11, <2>1 DEF SendFails
  <2>4. CASE Delivered(s)
    <3>1. jobs' = [jobs EXCEPT ![j] = Mailed(jobs[j], d)]
        BY <2>4 DEF Delivered, Mailed, j, d
    <3>2. MailsCounted'
        BY <1>6, <2>2, <2>3, <3>1
    <3>3. Counted(Mailed(jobs[j], d))
        BY <1>1, MailedJob DEF Counted, SameButState
    <3>4. QED
        BY <1>1, <1>7, <1>8, <2>2, <2>3, <3>1, <3>2, <3>3, MailedJob
  <2>5. CASE UNCHANGED jobs
    <3>1. jobs' = [jobs EXCEPT ![j] = jobs[j]]
        BY <1>1, <2>5, LenProperties DEF Consistent, TypeOK
    <3>2. MailsCounted'
        BY <1>4, <1>5, <2>2, <2>3, <3>1
    <3>3. QED
        BY <1>1, <1>4, <1>7, <1>8, <2>2, <2>3, <3>1, <3>2
  <2>6. QED
      BY <1>11, <2>4, <2>5 DEF SendFails
<1>12. CASE AlertFails(s)
  <2>1. s.stage = "alert" /\ sends' = sends \ {s}
      BY <1>12 DEF AlertFails
  <2>2. CASE s \in Of(j) /\ jobs[j].state = "active"
    <3>1. jobs' = [jobs EXCEPT ![j] = Thrown(jobs[j])]
        BY <1>12, <2>2 DEF AlertFails, Throw, Thrown, j
    <3>2. MailsCounted'
        BY <1>1, <1>5, <2>1, <2>2, <3>1, ThrownJob
    <3>3. QED
        BY <1>1, <2>1, <2>2, <3>1, <3>2, ThrownJob, JobStepConsistent
           DEF Consistent, TypeOK, j
  <2>3. CASE ~(s \in Of(j) /\ jobs[j].state = "active")
    <3>1. jobs' = [jobs EXCEPT ![j] = jobs[j]]
        BY <1>1, <1>12, <2>3, LenProperties DEF AlertFails, Consistent, TypeOK, j
    <3>2. MailsCounted'
        BY <1>4, <1>5, <2>1, <3>1
    <3>3. QED
        BY <1>1, <1>4, <1>7, <1>8, <2>1, <2>3, <3>1, <3>2 DEF Of, j
  <2>4. QED
      BY <2>2, <2>3
<1>13. QED
    BY <1>9, <1>10, <1>11, <1>12

\* The queue completes a job, promotes a delayed one or recovers a stalled one.
LEMMA QueueConsistent ==
    ASSUME Consistent, NEW j \in DOMAIN jobs, Complete(j) \/ Promote(j) \/ Recover(j)
    PROVE  Consistent'
<1>1. jobs[j] \in Job /\ Counted(jobs[j]) /\ sends' = sends
    BY JobsTyped DEF Consistent, RunsCounted, Counted, Complete, Promote, Recover
<1>2. ASSUME NEW new, SameButState(jobs[j], new), new.mails = jobs[j].mails, Counted(new),
             jobs' = [jobs EXCEPT ![j] = new], new.state # "active",
             new.state = "completed" =>
                 \A d \in new.to : new.mails[d] > 0 \/ d \in new.reported
      PROVE  Consistent'
  <2>1. /\ DOMAIN jobs' = DOMAIN jobs
        /\ \A i \in DOMAIN jobs : jobs'[i] = IF i = j THEN new ELSE jobs[i]
      BY <1>2, JobChanges DEF Consistent, SameButState
  <2>2. MailsCounted'
      BY <1>1, <1>2, <2>1, QuietMailsCounted DEF Consistent, SameButState
  <2>3. QED
      BY <1>1, <1>2, <2>2, JobStepConsistent DEF Consistent, TypeOK
<1>3. CASE Complete(j)
  <2>1. /\ jobs[j].state = "active" /\ Of(j) = {}
        /\ jobs' = [jobs EXCEPT ![j] = Moved(jobs[j], "completed")]
      BY <1>3 DEF Complete, Moved
  <2>2. /\ SameButState(jobs[j], Moved(jobs[j], "completed"))
        /\ Moved(jobs[j], "completed").state = "completed"
        /\ Moved(jobs[j], "completed").mails = jobs[j].mails
        /\ Counted(Moved(jobs[j], "completed"))
      BY <1>1, <2>1, MovedJob DEF Ended, Counted, SameButState
  <2>3. \A d \in jobs[j].to : jobs[j].mails[d] > 0 \/ d \in jobs[j].reported
      BY <2>1 DEF Consistent, NobodyForgotten, Handled
  <2>4. QED
      BY <1>2, <2>1, <2>2, <2>3 DEF SameButState
<1>4. CASE Promote(j)
  <2>1. /\ jobs[j].state = "delayed"
        /\ jobs' = [jobs EXCEPT ![j] = Moved(jobs[j], "waiting")]
      BY <1>4 DEF Promote, Moved
  <2>2. /\ SameButState(jobs[j], Moved(jobs[j], "waiting"))
        /\ Moved(jobs[j], "waiting").state = "waiting"
        /\ Moved(jobs[j], "waiting").mails = jobs[j].mails
        /\ Counted(Moved(jobs[j], "waiting"))
      BY <1>1, <2>1, MovedJob DEF Counted, SameButState
  <2>3. QED
      BY <1>2, <2>1, <2>2
<1>5. CASE Recover(j)
  <2>1. /\ jobs[j].state = "stalled"
        /\ jobs' = [jobs EXCEPT ![j] = Recovered(jobs[j])]
      BY <1>5 DEF Recover, Recovered
  <2>2. QED
      BY <1>1, <1>2, <2>1, RecoveredJob
<1>6. QED
    BY <1>3, <1>4, <1>5

\* The process dies: its calls are gone, and the active job is stalled.
LEMMA CrashConsistent ==
    ASSUME Consistent, Crash
    PROVE  Consistent'
<1> DEFINE new(job) == Moved(job, IF job.state = "active" THEN "stalled" ELSE job.state)
<1>1. /\ jobs' = [j \in DOMAIN jobs |-> new(jobs[j])] /\ sends' = {}
    BY DEF Crash, Moved
<1>2. ASSUME NEW j \in DOMAIN jobs
      PROVE  /\ jobs'[j] \in Job /\ SameButState(jobs[j], jobs'[j])
             /\ jobs'[j].mails = jobs[j].mails
             /\ jobs'[j].thrown = jobs[j].thrown /\ jobs'[j].stalled = jobs[j].stalled
             /\ jobs'[j].state = IF jobs[j].state = "active" THEN "stalled" ELSE jobs[j].state
  <2>1. jobs[j] \in Job /\ jobs'[j] = new(jobs[j])
      BY <1>1, JobsTyped DEF Consistent
  <2>2. jobs[j].state \in {"waiting", "active", "delayed", "stalled"} \cup Ended
      BY <2>1 DEF Job
  <2>3. PICK state \in {"waiting", "active", "delayed", "stalled"} \cup Ended :
            /\ state = IF jobs[j].state = "active" THEN "stalled" ELSE jobs[j].state
            /\ jobs'[j] = Moved(jobs[j], state)
      BY <2>1, <2>2
  <2> HIDE DEF new
  <2>4. /\ SameButState(jobs[j], Moved(jobs[j], state))
        /\ Moved(jobs[j], state).state = state
        /\ Moved(jobs[j], state).thrown = jobs[j].thrown
        /\ Moved(jobs[j], state).stalled = jobs[j].stalled
        /\ Moved(jobs[j], state).mails = jobs[j].mails
      BY <2>1, MovedJob
  <2>5. QED
      BY <2>3, <2>4 DEF SameButState
<1> HIDE DEF new
<1>3. DOMAIN jobs' = DOMAIN jobs
    BY <1>1
<1>4. jobs' \in Seq(Job)
  <2>1. jobs \in Seq(Job) /\ DOMAIN jobs = 1..Len(jobs) /\ Len(jobs) \in Nat
      BY LenProperties DEF Consistent, TypeOK
  <2>2. jobs' \in [1..Len(jobs) -> Job]
      BY <1>1, <1>2, <2>1
  <2>3. QED
      BY <2>1, <2>2
<1>5. TypeOK'
    BY <1>1, <1>4 DEF TypeOK
<1>6. RunsCounted'
    BY <1>2, <1>3 DEF Consistent, RunsCounted, SameButState
<1>7. MailsCounted'
    BY <1>1, <1>2, <1>3, QuietMailsCounted DEF Consistent, SameButState
<1>8. NobodyForgotten' /\ CompletedIsHandled'
    BY <1>2, <1>3
       DEF Consistent, NobodyForgotten, CompletedIsHandled, Handled, SameButState
<1>9. QED
    BY <1>5, <1>6, <1>7, <1>8 DEF Consistent

\* An empty queue is consistent.
LEMMA InitConsistent == Init => Consistent
BY EmptySeq
   DEF Init, Consistent, TypeOK, RunsCounted, MailsCounted, NobodyForgotten, CompletedIsHandled

\* Every step of worker, queue and process keeps the queue consistent.
LEMMA NextConsistent == Consistent /\ [Next]_vars => Consistent'
<1> SUFFICES ASSUME Consistent, [Next]_vars
             PROVE  Consistent'
    OBVIOUS
<1>1. CASE UNCHANGED vars
    BY <1>1
       DEF vars, Consistent, TypeOK, RunsCounted, MailsCounted, Sending, NobodyForgotten,
           CompletedIsHandled, Handled, Of
<1>2. QED
    BY <1>1, AddConsistent, TakeConsistent, SendConsistent, QueueConsistent, CrashConsistent
       DEF Next, EndOfSend, QueueStep

-----------------------------------------------------------------------------

\* The inductive invariant.
THEOREM QueueIsConsistent == Spec => []Consistent
<1>1. Spec => Init /\ [][Next]_vars
    BY PTL DEF Spec
<1>2. QED
    BY <1>1, InitConsistent, NextConsistent, PTL

\* No destination is lost by a job that is taken to be done.
THEOREM NobodyIsLost == Spec => []CompletedIsHandled
<1>1. Consistent => CompletedIsHandled
    BY DEF Consistent
<1>2. QED
    BY <1>1, QueueIsConsistent, PTL

\* Retries and crashes do not multiply mails beyond their number, although runs overlap.
THEOREM RetriesAreBounded == Spec => []MailsBounded
<1>1. Consistent => MailsBounded
  <2> SUFFICES ASSUME Consistent, NEW j \in DOMAIN jobs, NEW d \in jobs[j].to
               PROVE  jobs[j].mails[d] <= Attempts + MaxStalled
      BY DEF MailsBounded
  <2>1. /\ jobs[j] \in Job /\ d \in Destination
        /\ jobs[j].thrown \in Nat /\ jobs[j].stalled \in Nat
        /\ jobs[j].run \in Nat /\ jobs[j].mails[d] \in Nat
      BY JobsTyped, SizesAssumption DEF Consistent, Job
  <2>2. jobs[j].run <= Attempts + MaxStalled
      BY <2>1, SizesAssumption DEF Consistent, RunsCounted
  <2>3. jobs[j].mails[d] <= jobs[j].run
      BY <2>1, MailsBelowRuns DEF Consistent
  <2>4. QED
      BY <2>1, <2>2, <2>3, SizesAssumption
<1>2. QED
    BY <1>1, QueueIsConsistent, PTL

-----------------------------------------------------------------------------
(* How a list is split. *)

\* What integer division is.
LEMMA Division ==
    ASSUME NEW x \in Nat, NEW m \in Nat \ {0}
    PROVE  x \div m \in Nat /\ (x \div m) * m <= x /\ x < (x \div m) * m + m
OBVIOUS

\* Multiples are ordered as their factors are.
LEMMA Monotony ==
    ASSUME NEW a \in Int, NEW b \in Int, NEW m \in Nat \ {0}, a * m < b * m
    PROVE  a < b
OBVIOUS

\* A slice has at most MaxBulkSize destinations.
LEMMA ChunkIsSmall ==
    ASSUME NEW list \in Lists, NEW i \in Int
    PROVE  Cardinality(Chunk(list, i)) <= MaxBulkSize
<1> DEFINE I == {k \in DOMAIN list : i <= k /\ k < i + MaxBulkSize}
           f == [k \in I |-> list[k]]
<1>1. IsFiniteSet(i..(i + MaxBulkSize - 1))
      /\ Cardinality(i..(i + MaxBulkSize - 1)) = MaxBulkSize
    BY FS_Interval, SizesAssumption
<1>2. I \subseteq i..(i + MaxBulkSize - 1)
  <2>1. DOMAIN list \subseteq Int
      BY ListsAssumption, LenProperties
  <2>2. QED
      BY <2>1, SizesAssumption
<1>3. IsFiniteSet(I) /\ Cardinality(I) <= MaxBulkSize
    BY <1>1, <1>2, FS_Subset
<1>4. f \in Surjection(I, Chunk(list, i))
    BY DEF Surjection, Chunk
<1>5. IsFiniteSet(Chunk(list, i)) /\ Cardinality(Chunk(list, i)) <= Cardinality(I)
    BY <1>3, <1>4, FS_Surjection
<1>6. Cardinality(I) \in Nat /\ Cardinality(Chunk(list, i)) \in Nat
    BY <1>3, <1>5, FS_CardinalityType
<1>7. QED
    BY <1>3, <1>5, <1>6, SizesAssumption

\* The position k is in the slice number (k - 1) \div MaxBulkSize + 1 and in no other.
LEMMA ChunksPartition ==
    ASSUME NEW list \in Lists, NEW k \in DOMAIN list
    PROVE  Cardinality({n \in DOMAIN Chunks(list) : list[k] \in Chunks(list)[n].to}) = 1
<1> DEFINE L == Len(list)
           M == MaxBulkSize
           N == (L + M - 1) \div M
           q == (k - 1) \div M
<1>1. L \in Nat /\ DOMAIN list = 1..L /\ k \in 1..L /\ M \in Nat \ {0}
    BY ListsAssumption, SizesAssumption, LenProperties
<1>2. Chunks(list) = [n \in 1..N |-> NewJob(Chunk(list, (n - 1) * M + 1))]
    BY DEF Chunks
<1>3. q \in Nat /\ q * M <= k - 1 /\ k - 1 < q * M + M
  <2>1. k - 1 \in Nat
      BY <1>1
  <2>2. QED
      BY <1>1, <2>1, Division
<1>4. N \in Nat /\ L + M - 1 < N * M + M
    BY <1>1, Division
<1> HIDE DEF L, M, N, q
<1>5. q < N
  <2>1. q * M < N * M
      BY <1>1, <1>3, <1>4
  <2>2. QED
      BY <1>1, <1>3, <1>4, <2>1, Monotony
<1>6. ASSUME NEW n \in 1..N
      PROVE  list[k] \in Chunks(list)[n].to <=> n = q + 1
  <2>1. Chunks(list)[n].to = Chunk(list, (n - 1) * M + 1)
      BY <1>2 DEF NewJob
  <2>2. list[k] \in Chunk(list, (n - 1) * M + 1)
        <=> (n - 1) * M + 1 <= k /\ k < (n - 1) * M + 1 + M
    <3>1. \A l \in DOMAIN list : list[l] = list[k] => l = k
        BY ListsAssumption
    <3>2. QED
        BY <3>1 DEF Chunk, M
  <2>3. n \in Nat /\ n - 1 \in Int /\ n * M = (n - 1) * M + M /\ (n - 1) * M \in Int
        /\ (q + 1) * M = q * M + M /\ q * M \in Int
      BY <1>1, <1>3, <1>4
  <2>4. ASSUME (n - 1) * M + 1 <= k, k < (n - 1) * M + 1 + M
        PROVE  n = q + 1
    <3>1. (n - 1) * M < (q + 1) * M /\ q * M < n * M
        BY <1>1, <1>3, <2>3, <2>4
    <3>2. n - 1 < q + 1 /\ q < n
        BY <1>1, <1>3, <2>3, <3>1, Monotony
    <3>3. QED
        BY <1>3, <2>3, <3>2
  <2>5. ASSUME n = q + 1
        PROVE  (n - 1) * M + 1 <= k /\ k < (n - 1) * M + 1 + M
    <3>1. n - 1 = q
        BY <1>3, <2>5
    <3>2. QED
        BY <1>1, <1>3, <2>3, <3>1
  <2>6. QED
      BY <2>1, <2>2, <2>4, <2>5
<1>7. DOMAIN Chunks(list) = 1..N
    BY <1>2
<1>8. {n \in DOMAIN Chunks(list) : list[k] \in Chunks(list)[n].to} = {q + 1}
    BY <1>3, <1>4, <1>5, <1>6, <1>7
<1>9. QED
    BY <1>8, FS_Singleton

\* Jobs keep their destinations.
LEMMA JobsStay ==
    ASSUME Consistent, [Next]_vars, NEW j \in DOMAIN jobs',
           ~ \E list \in Lists : addBulkEmailJob(list)
    PROVE  j \in DOMAIN jobs /\ jobs'[j].to = jobs[j].to
<1>1. \A i \in DOMAIN jobs : jobs[i] \in Job
    BY JobsTyped DEF Consistent
<1>2. \A s \in sends : s.job \in DOMAIN jobs
    BY DEF Consistent, TypeOK
<1>3. ASSUME NEW i \in DOMAIN jobs, NEW new \in Job, new.to = jobs[i].to,
             jobs' = [jobs EXCEPT ![i] = new]
      PROVE  j \in DOMAIN jobs /\ jobs'[j].to = jobs[j].to
    BY <1>3, JobChanges DEF Consistent
<1>4. ASSUME NEW i \in DOMAIN jobs, Take(i) \/ Complete(i) \/ Promote(i) \/ Recover(i)
      PROVE  j \in DOMAIN jobs /\ jobs'[j].to = jobs[j].to
  <2>1. CASE Take(i)
    <3>1. jobs' = [jobs EXCEPT ![i] = Taken(jobs[i])]
        BY <2>1 DEF Take, Taken
    <3>2. QED
        BY <1>1, <1>3, <3>1, TakenJob
  <2>2. CASE Complete(i)
    <3>1. jobs' = [jobs EXCEPT ![i] = Moved(jobs[i], "completed")]
        BY <2>2 DEF Complete, Moved
    <3>2. QED
        BY <1>1, <1>3, <3>1, MovedJob DEF SameButState, Ended
  <2>3. CASE Promote(i)
    <3>1. jobs' = [jobs EXCEPT ![i] = Moved(jobs[i], "waiting")]
        BY <2>3 DEF Promote, Moved
    <3>2. QED
        BY <1>1, <1>3, <3>1, MovedJob DEF SameButState
  <2>4. CASE Recover(i)
    <3>1. jobs' = [jobs EXCEPT ![i] = Recovered(jobs[i])] /\ jobs[i].state = "stalled"
        BY <2>4 DEF Recover, Recovered
    <3>2. Counted(jobs[i])
        BY DEF Consistent, RunsCounted, Counted
    <3>3. QED
        BY <1>1, <1>3, <3>1, <3>2, RecoveredJob DEF SameButState
  <2>5. QED
      BY <1>4, <2>1, <2>2, <2>3, <2>4
<1>5. ASSUME NEW s \in sends, Sent(s) \/ SendFails(s) \/ AlertSent(s) \/ AlertFails(s)
      PROVE  j \in DOMAIN jobs /\ jobs'[j].to = jobs[j].to
  <2>1. s.job \in DOMAIN jobs /\ s.to \in Destination
      BY <1>2 DEF Consistent, TypeOK, Call
  <2>2. CASE Delivered(s)
    <3>1. jobs' = [jobs EXCEPT ![s.job] = Mailed(jobs[s.job], s.to)]
        BY <2>2 DEF Delivered, Mailed
    <3>2. SameButState(jobs[s.job], Mailed(jobs[s.job], s.to))
        BY <1>1, <2>1, MailedJob
    <3>3. QED
        BY <1>3, <2>1, <3>1, <3>2 DEF SameButState
  <2>3. CASE UNCHANGED jobs
      BY <2>3
  <2>4. CASE AlertSent(s)
    <3>1. jobs' = [jobs EXCEPT ![s.job] = Reported(jobs[s.job], s.to)]
        BY <2>4 DEF AlertSent, Reported
    <3>2. QED
        BY <1>1, <1>3, <2>1, <3>1, ReportedJob DEF SameButState
  <2>5. CASE AlertFails(s) /\ jobs[s.job].state = "active" /\ Throw(s.job)
    <3>1. jobs' = [jobs EXCEPT ![s.job] = Thrown(jobs[s.job])]
        BY <2>5 DEF Throw, Thrown
    <3>2. Counted(jobs[s.job])
        BY <2>1 DEF Consistent, RunsCounted, Counted
    <3>3. QED
        BY <1>1, <1>3, <2>1, <2>5, <3>1, <3>2, ThrownJob DEF SameButState
  <2>6. QED
      BY <1>5, <2>2, <2>3, <2>4, <2>5 DEF Sent, SendFails, AlertFails
<1>6. CASE Crash
    BY <1>1, <1>6 DEF Job, Crash
<1>7. CASE UNCHANGED vars
    BY <1>7 DEF vars
<1>8. QED
    BY <1>4, <1>5, <1>6, <1>7 DEF Next, EndOfSend, QueueStep

\* Every destination of a list is in one job of at most MaxBulkSize.
THEOREM ListsAreSplit == Spec => []EachInOneJob
<1> DEFINE Small == \A j \in DOMAIN jobs : Cardinality(jobs[j].to) <= MaxBulkSize
<1>1. Init => Small
    BY DEF Init
<1>2. ASSUME Small, Consistent, [Next]_vars
      PROVE  Small'
  <2> SUFFICES ASSUME NEW j \in DOMAIN jobs'
               PROVE  Cardinality(jobs'[j].to) <= MaxBulkSize
      OBVIOUS
  <2>1. ASSUME NEW list \in Lists, addBulkEmailJob(list)
        PROVE  Cardinality(jobs'[j].to) <= MaxBulkSize
    <3>1. jobs \in Seq(Job) /\ Chunks(list) \in Seq(Job) /\ jobs' = jobs \o Chunks(list)
        BY <1>2, <2>1, ChunksTyped DEF addBulkEmailJob, Consistent, TypeOK
    <3>2. jobs' \in Seq(Job) /\ j \in 1..(Len(jobs) + Len(Chunks(list)))
          /\ jobs'[j] = IF j <= Len(jobs) THEN jobs[j] ELSE Chunks(list)[j - Len(jobs)]
        BY <3>1, ConcatProperties, LenProperties
    <3>3. /\ DOMAIN jobs = 1..Len(jobs) /\ Len(jobs) \in Nat
          /\ DOMAIN Chunks(list) = 1..Len(Chunks(list)) /\ Len(Chunks(list)) \in Nat
        BY <3>1, LenProperties
    <3>4. CASE j <= Len(jobs)
        BY <1>2, <3>2, <3>3, <3>4
    <3>5. CASE ~(j <= Len(jobs))
      <4>1. j - Len(jobs) \in DOMAIN Chunks(list)
          BY <3>2, <3>3, <3>5
      <4>2. PICK i \in Int : jobs'[j] = NewJob(Chunk(list, i))
          BY <3>2, <3>5, <4>1, ChunksTyped
      <4>3. QED
          BY <4>2, ChunkIsSmall DEF NewJob
    <3>6. QED
        BY <3>4, <3>5
  <2>2. QED
      BY <1>2, <2>1, JobsStay
<1>3. Small => EachInOneJob
    BY ChunksPartition DEF EachInOneJob
<1>4. QED
    BY <1>1, <1>2, <1>3, QueueIsConsistent, PTL DEF Spec

=============================================================================
