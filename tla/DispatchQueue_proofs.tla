------------------------ MODULE DispatchQueue_proofs ------------------------
(***************************************************************************)
(* What DispatchQueue guarantees for any number of jobs, server processes, *)
(* direct dispatches and recipients.                                       *)
(***************************************************************************)
EXTENDS DispatchQueue, FiniteSetTheorems, TLAPS

CoreStage == {"begin", "loop", "sending", "accepted", "rejected", "counted"}
Stage == CoreStage \cup {"idle", "picked", "done"}
Local == [stage : Stage, job : Run \cup {NoJob}, next : 1 .. Taken + 1,
          sent : 0 .. Taken, failed : 0 .. Taken]

(* Which runs a process may hold: a request only its own. *)
RunsOf(w) == IF w \in Direct THEN {w} ELSE Job

(* How far a run in this stage at recipient n has come, by its logs l and  *)
(* its deliveries d: whatever follows n is untouched, and only what is     *)
(* being sent may be logged as QUEUED.                                     *)
Reached(stage, n, l, d) ==
  \A x \in Recipient :
    /\ x > n => d[x] = 0 /\ l[x] = "none"
    /\ x = n =>
         /\ stage \in {"begin", "loop"} => d[x] = 0 /\ l[x] = "none"
         /\ stage = "sending" => d[x] = 0 /\ l[x] # "SENT"
         /\ stage = "accepted" => d[x] = 1 /\ l[x] # "SENT"
         /\ stage = "rejected" => l[x] # "SENT"
    /\ l[x] = "QUEUED" => x = n /\ stage \in {"sending", "accepted", "rejected"}

(* Its counters: every recipient before n is counted, and n in the end.    *)
CountsAgree(stage, n, sent, failed, l) ==
  /\ stage = "begin" => n = 1
  /\ stage \in {"sending", "accepted", "rejected", "counted"} => n <= Taken
  /\ sent + failed = IF stage = "counted" THEN n ELSE n - 1
  /\ campaign # "gone" => sent = Cardinality({x \in Recipient : l[x] = "SENT"})

(* A process that works off a run. *)
Progress(w) ==
  worker[w].stage \in CoreStage =>
    /\ Held(w) \in RunsOf(w)
    /\ job[Held(w)] \in {"RUNNING", "deleted"}
    /\ Reached(worker[w].stage, Current(w), log[Held(w)], delivered[Held(w)])
    /\ CountsAgree(worker[w].stage, Current(w), worker[w].sent, worker[w].failed, log[Held(w)])

(* A process outside of the core has nothing under way. *)
Rested(w) ==
  /\ worker[w].stage \in {"idle", "picked", "done"} =>
       Current(w) = 1 /\ worker[w].sent = 0 /\ worker[w].failed = 0
  /\ At(w, "picked") => w \in Worker /\ Held(w) \in Job
  /\ w \in Direct /\ At(w, "idle") => job[w] = "none"

(* A run that nobody has begun has sent nothing. *)
Fresh(j) ==
  job[j] \in {"none", "QUEUED"} => \A x \in Recipient : delivered[j][x] = 0 /\ log[j][x] = "none"

(* What was logged as sent was delivered, and nothing more than once. *)
Once(l, d) == \A x \in Recipient : d[x] <= 1 /\ (l[x] = "SENT" => d[x] = 1)
SentOnce(j) == Once(log[j], delivered[j])

(* The conjunct of CompletedIsAccountedFor for one run. *)
Accounted(j) ==
  job[j] = "COMPLETED" =>
    /\ tally[j].processed = Taken /\ tally[j].sent + tally[j].failed = Taken
    /\ campaign # "gone" =>
         /\ tally[j].sent = Cardinality(Logged(j, "SENT"))
         /\ \A x \in Logged(j, "SENT") : delivered[j][x] = 1
         /\ Logged(j, "QUEUED") = {}

(* Two processes never work off the same run. *)
Exclusive ==
  \A v, w \in Process : InCore(v) /\ InCore(w) /\ Held(v) = Held(w) => v = w

(* Nothing is dispatched before the campaign has its recipients, or queued *)
(* after it is gone.                                                       *)
Lifetime ==
  /\ campaign \in {"none", "recorded"} => recipients.count = 0 /\ \A j \in Run : job[j] = "none"
  /\ campaign = "gone" => \A j \in Job : job[j] # "QUEUED"

(* Who has sent a message too late does not come to send another. *)
Late(stage, m) == m <= 1 /\ (m = 1 => campaign = "gone" /\ stage # "sending")
LateOnce(w) == Late(worker[w].stage, late[w])

ProcessOK(w) == Progress(w) /\ Rested(w) /\ LateOnce(w)
RunOK(j) == Fresh(j) /\ SentOnce(j) /\ Accounted(j)

IInv ==
  /\ TypeOK /\ Exclusive /\ Lifetime
  /\ \A w \in Process : ProcessOK(w)
  /\ \A j \in Run : RunOK(j)

------------------------------------------------------------------------------
(* Types *)

LEMMA Numbers ==
  /\ Recipients \in Nat /\ MaxPerRun \in Nat /\ MaxCrashes \in Nat
  /\ \A w \in Process : RunsOf(w) \subseteq Run
  /\ Job \cap Direct = {} /\ Worker \cap Direct = {}
  /\ NoJob \notin Run
  BY SizesAreNat, NoJobIsNoJob, DirectIsNoJob DEF Process, Run, RunsOf

(* The loop runs over recipients of the campaign. *)
LEMMA TakenTyped ==
  ASSUME TypeOK
  PROVE  /\ Taken \in Nat
         /\ 1 .. Taken \subseteq Recipient
  BY Numbers DEF TypeOK, Taken, Recipient

LEMMA LocalTyped ==
  ASSUME TypeOK, NEW w \in Process
  PROVE  /\ worker[w] \in Local
         /\ worker[w] = [stage |-> worker[w].stage, job |-> Held(w), next |-> Current(w),
                         sent |-> worker[w].sent, failed |-> worker[w].failed]
  BY DEF TypeOK, Local, Stage, CoreStage, Held, Current

LEMMA InCoreIsCoreStage ==
  ASSUME TypeOK, NEW w \in Process
  PROVE  InCore(w) <=> worker[w].stage \in CoreStage
  BY DEF TypeOK, InCore, CoreStage

------------------------------------------------------------------------------
(* What a step of process w on run j leaves alone *)

RowsKept(j) ==
  job'[j] = job[j] /\ tally'[j] = tally[j] /\ log'[j] = log[j] /\ delivered'[j] = delivered[j]

Acts(w, j) ==
  /\ UNCHANGED <<campaign, recipients>>
  /\ \A v \in Process \ {w} : worker'[v] = worker[v] /\ late'[v] = late[v]
  /\ \A k \in Run \ {j} : RowsKept(k)

(* Nobody but w works on j. *)
Sole(w, j) == \A v \in Process \ {w} : InCore(v) => Held(v) # j

LEMMA OthersKept ==
  ASSUME IInv, TypeOK', NEW w \in Process, NEW j \in Run, Acts(w, j),
         RowsKept(j) \/ (j \in RunsOf(w) /\ Sole(w, j)),
         NEW v \in Process \ {w}
  PROVE  ProcessOK(v)'
<1>1. worker'[v] = worker[v] /\ late'[v] = late[v] /\ Taken' = Taken /\ campaign' = campaign
  BY DEF Acts, Taken
<1>2. worker[v].stage \in CoreStage => Held(v) \in Run /\ RowsKept(Held(v))
  BY Numbers, InCoreIsCoreStage DEF IInv, ProcessOK, Progress, Acts, Sole
<1>3. v \in Direct => RowsKept(v)
  BY Numbers DEF Acts, Sole, RunsOf, Run, Process
<1>4. Progress(v)'
  BY <1>1, <1>2 DEF IInv, ProcessOK, Progress, CountsAgree, Held, Current, At, RowsKept
<1>5. Rested(v)' /\ LateOnce(v)'
  BY <1>1, <1>3 DEF IInv, ProcessOK, Rested, LateOnce, Late, Held, Current, At, RowsKept
<1> QED
  BY <1>4, <1>5 DEF ProcessOK

LEMMA StepKeepsOthers ==
  ASSUME IInv, TypeOK', NEW w \in Process, NEW j \in Run, Acts(w, j),
         RowsKept(j) \/ (j \in RunsOf(w) /\ Sole(w, j)),
         InCore(w)' => Held(w)' = j /\ Sole(w, j),
         ProcessOK(w)', RunOK(j)', Lifetime'
  PROVE  IInv'
<1>1. \A v \in Process : ProcessOK(v)'
  BY OthersKept
<1>2. ASSUME NEW k \in Run, k # j
      PROVE  RunOK(k)'
  <2>1. RowsKept(k) /\ Taken' = Taken /\ campaign' = campaign
    BY <1>2 DEF Acts, Taken
  <2>2. \A status : Logged(k, status)' = Logged(k, status)
    BY <2>1 DEF RowsKept, Logged
  <2> QED
    BY <2>1, <2>2 DEF IInv, RunOK, Fresh, SentOnce, Accounted, RowsKept
<1>3. Exclusive'
  BY DEF IInv, Exclusive, Acts, Sole, InCore, Held
<1> QED
  BY <1>1, <1>2, <1>3 DEF IInv

------------------------------------------------------------------------------
(* dispatchCampaignCore: each step of a process that works off a run. *)

LEMMA CoreFacts ==
  ASSUME IInv, NEW w \in Process, InCore(w)
  PROVE  /\ worker[w].stage \in CoreStage
         /\ Held(w) \in Run /\ Held(w) \in RunsOf(w) /\ Sole(w, Held(w))
         /\ job[Held(w)] \in {"RUNNING", "deleted"}
         /\ campaign \in {"there", "checked", "gone"}
         /\ Taken \in Nat /\ Current(w) \in 1 .. Taken + 1 /\ 1 .. Taken \subseteq Recipient
<1>1. worker[w].stage \in CoreStage
  BY InCoreIsCoreStage DEF IInv
<1>2. Held(w) \in RunsOf(w) /\ job[Held(w)] \in {"RUNNING", "deleted"}
  BY <1>1 DEF IInv, ProcessOK, Progress
<1>3. Held(w) \in Run
  BY <1>2, Numbers
<1>4. Sole(w, Held(w))
  BY DEF IInv, Exclusive, Sole
<1>5. campaign \in {"there", "checked", "gone"}
  BY <1>2, <1>3 DEF IInv, Lifetime, TypeOK
<1>6. Current(w) \in 1 .. Taken + 1
  BY DEF IInv, TypeOK, Current
<1> QED
  BY <1>1, <1>2, <1>3, <1>4, <1>5, <1>6, TakenTyped DEF IInv

LEMMA CoreStep ==
  ASSUME IInv, TypeOK', NEW w \in Process, NEW j \in Run, InCore(w), Held(w) = j, Acts(w, j),
         Held(w)' = j \/ ~InCore(w)',
         job'[j] \notin {"none", "QUEUED"},
         Progress(w)', Rested(w)', LateOnce(w)', SentOnce(j)', Accounted(j)'
  PROVE  IInv'
<1>1. j \in RunsOf(w) /\ Sole(w, j) /\ campaign \notin {"none", "recorded"}
  BY CoreFacts
<1>2. Lifetime'
  BY <1>1 DEF IInv, Lifetime, Acts, RowsKept, Run
<1>3. ProcessOK(w)'
  BY DEF ProcessOK
<1>4. RunOK(j)'
  BY DEF RunOK, Fresh
<1> QED
  BY <1>1, <1>2, <1>3, <1>4, StepKeepsOthers

Counter == [processed : 0 .. Taken, sent : 0 .. Taken, failed : 0 .. Taken]
LogStatus == {"none", "QUEUED", "SENT", "FAILED"}

State(stage, j, n, sent, failed) ==
  [stage |-> stage, job |-> j, next |-> n, sent |-> sent, failed |-> failed]

(* A step that goes on with the same run: it leaves process w in the given *)
(* stage, at recipient n, with these counters and m late messages, and run *)
(* j with this tally t, log l and deliveries d.                            *)
GoesOn(w, j, stage, n, sent, failed, t, l, d, m) ==
  /\ worker' = [worker EXCEPT ![w] = State(stage, j, n, sent, failed)]
  /\ tally' = [tally EXCEPT ![j] = t]
  /\ log' = [log EXCEPT ![j] = l]
  /\ delivered' = [delivered EXCEPT ![j] = d]
  /\ late' = [late EXCEPT ![w] = m]
  /\ UNCHANGED <<job, campaign, recipients, crashes>>

(* What has to be typed for such a step, and what holds after it. *)
Typed(stage, n, sent, failed, t, l, d, m) ==
  /\ stage \in CoreStage /\ n \in 1 .. Taken + 1 /\ sent \in 0 .. Taken /\ failed \in 0 .. Taken
  /\ t \in Counter /\ l \in [Recipient -> LogStatus] /\ d \in [Recipient -> Nat] /\ m \in Nat
Consistent(stage, n, sent, failed, l, d, m) ==
  /\ Reached(stage, n, l, d) /\ CountsAgree(stage, n, sent, failed, l)
  /\ Once(l, d) /\ Late(stage, m)

LEMMA StateTyped ==
  ASSUME NEW stage \in CoreStage, NEW j \in Run,
         NEW n \in 1 .. Taken + 1, NEW sent \in 0 .. Taken, NEW failed \in 0 .. Taken
  PROVE  /\ State(stage, j, n, sent, failed) \in Local
         /\ State(stage, j, n, sent, failed).stage = stage /\ State(stage, j, n, sent, failed).job = j
         /\ State(stage, j, n, sent, failed).next = n
         /\ State(stage, j, n, sent, failed).sent = sent /\ State(stage, j, n, sent, failed).failed = failed
  BY DEF State, Local, Stage

LEMMA CoreGoesOn ==
  ASSUME IInv, NEW w \in Process, NEW j \in Run, InCore(w), Held(w) = j,
         NEW stage, NEW n, NEW sent, NEW failed, NEW t, NEW l, NEW d, NEW m,
         stage # "begin",
         GoesOn(w, j, stage, n, sent, failed, t, l, d, m),
         Typed(stage, n, sent, failed, t, l, d, m),
         Consistent(stage, n, sent, failed, l, d, m)
  PROVE  IInv'
<1> DEFINE r == State(stage, j, n, sent, failed)
<1>0. r \in Local /\ r.stage = stage /\ r.job = j /\ r.next = n /\ r.sent = sent /\ r.failed = failed
  BY StateTyped DEF Typed
<1>1. j \in RunsOf(w) /\ job[j] \in {"RUNNING", "deleted"} /\ Taken \in Nat
  BY CoreFacts
<1> HIDE DEF r
<1>2. worker'[w] = r
  BY DEF IInv, TypeOK, GoesOn, r
<1>3. /\ tally'[j] = t /\ log'[j] = l /\ delivered'[j] = d /\ late'[w] = m /\ job'[j] = job[j]
      /\ Taken' = Taken /\ campaign' = campaign
  BY DEF IInv, TypeOK, Taken, GoesOn
<1>4. Held(w)' = j /\ Current(w)' = n /\ (\A st : At(w, st)' <=> stage = st)
      /\ worker'[w].stage = stage /\ worker'[w].sent = sent /\ worker'[w].failed = failed
  BY <1>0, <1>2 DEF Held, Current, At
<1>5. Progress(w)'
  <2>1. log'[Held(w)'] = l /\ delivered'[Held(w)'] = d /\ job'[Held(w)'] = job[j]
    BY <1>3, <1>4
  <2>2. CountsAgree(worker[w].stage, Current(w), worker[w].sent, worker[w].failed, log[Held(w)])'
    BY <1>3, <1>4, <2>1 DEF CountsAgree, Consistent
  <2>3. Reached(worker[w].stage, Current(w), log[Held(w)], delivered[Held(w)])'
    BY <1>4, <2>1 DEF Consistent
  <2> QED
    BY <1>1, <1>4, <2>1, <2>2, <2>3 DEF Progress
<1>6. Rested(w)'
  BY <1>1, <1>4 DEF Rested, CoreStage, Typed
<1>7. LateOnce(w)'
  BY <1>3, <1>4 DEF LateOnce, Late, Consistent
<1>8. SentOnce(j)' /\ Accounted(j)'
  BY <1>1, <1>3 DEF SentOnce, Accounted, Consistent
<1>9. TypeOK'
  <2>2. worker' \in [Process -> Local]
    BY <1>0 DEF IInv, TypeOK, Local, Stage, CoreStage, GoesOn, r
  <2> QED
    BY <1>3, <2>2 DEF IInv, TypeOK, Local, Stage, CoreStage, Counter, LogStatus, GoesOn, Typed
<1>10. Acts(w, j)
  BY DEF Acts, RowsKept, IInv, TypeOK, GoesOn
<1>11. job'[j] \notin {"none", "QUEUED"}
  BY <1>1, <1>3
<1> QED
  BY <1>4, <1>5, <1>6, <1>7, <1>8, <1>9, <1>10, <1>11, CoreStep

(* All that is known of process w in the core and of its run j. *)
LEMMA CoreWorks ==
  ASSUME IInv, NEW w \in Process, NEW j \in Run, InCore(w), Held(w) = j
  PROVE  LET stage == worker[w].stage
             n == Current(w)
             s == worker[w].sent
             f == worker[w].failed
         IN  /\ Typed(stage, n, s, f, tally[j], log[j], delivered[j], late[w])
             /\ Consistent(stage, n, s, f, log[j], delivered[j], late[w])
<1>1. SentOnce(j) /\ LateOnce(w) /\ TypeOK /\ Progress(w)
  BY DEF IInv, RunOK, ProcessOK
<1>2. worker[w].sent \in 0 .. Taken /\ worker[w].failed \in 0 .. Taken
  BY <1>1, LocalTyped DEF Local
<1>3. /\ tally[j] \in Counter /\ log[j] \in [Recipient -> LogStatus]
      /\ delivered[j] \in [Recipient -> Nat] /\ late[w] \in Nat
  BY <1>1 DEF TypeOK, Counter, LogStatus
<1>4. worker[w].stage \in CoreStage /\ Current(w) \in 1 .. Taken + 1
  BY CoreFacts
<1>5. Typed(worker[w].stage, Current(w), worker[w].sent, worker[w].failed, tally[j], log[j], delivered[j], late[w])
  BY <1>2, <1>3, <1>4 DEF Typed
<1>6. Consistent(worker[w].stage, Current(w), worker[w].sent, worker[w].failed, log[j], delivered[j], late[w])
  BY <1>1, <1>4 DEF Consistent, Progress, SentOnce, LateOnce
<1> QED
  BY <1>5, <1>6

LEMMA RowsSame ==
  ASSUME TypeOK, NEW w \in Process, NEW j \in Run
  PROVE  /\ tally = [tally EXCEPT ![j] = tally[j]] /\ log = [log EXCEPT ![j] = log[j]]
         /\ delivered = [delivered EXCEPT ![j] = delivered[j]]
         /\ late = [late EXCEPT ![w] = late[w]]
  BY DEF TypeOK

(* The counters of a process in the core, in numbers. *)
LEMMA CoreCounts ==
  ASSUME IInv, NEW w \in Process, InCore(w)
  PROVE  /\ Taken \in Nat /\ 1 .. Taken \subseteq Recipient
         /\ Current(w) \in 1 .. Taken + 1
         /\ worker[w].sent \in 0 .. Taken /\ worker[w].failed \in 0 .. Taken
         /\ At(w, "begin") => Current(w) = 1
         /\ worker[w].stage \in {"sending", "accepted", "rejected", "counted"} =>
              Current(w) \in 1 .. Taken /\ Current(w) \in Recipient
         /\ worker[w].sent + worker[w].failed = IF At(w, "counted") THEN Current(w) ELSE Current(w) - 1
         /\ campaign # "gone" =>
              worker[w].sent = Cardinality({x \in Recipient : log[Held(w)][x] = "SENT"})
<1>1. /\ Taken \in Nat /\ 1 .. Taken \subseteq Recipient /\ Current(w) \in 1 .. Taken + 1
      /\ worker[w].stage \in CoreStage
  BY CoreFacts
<1>2. worker[w].sent \in 0 .. Taken /\ worker[w].failed \in 0 .. Taken
  BY LocalTyped DEF Local, IInv
<1>3. CountsAgree(worker[w].stage, Current(w), worker[w].sent, worker[w].failed, log[Held(w)])
  BY <1>1 DEF IInv, ProcessOK, Progress
<1> QED
  BY <1>1, <1>2, <1>3 DEF CountsAgree, At

(* The records that Move, Count and UpdateJob put in place of worker[w]. *)
Row == [stage : Stage, job : Run \cup {NoJob}, next : Nat, sent : Nat, failed : Nat]

LEMMA StageAmended ==
  ASSUME NEW r \in Row, NEW stage
  PROVE  [r EXCEPT !.stage = stage] = State(stage, r.job, r.next, r.sent, r.failed)
  BY DEF State, Row

LEMMA SentAmended ==
  ASSUME NEW r \in Row, NEW stage, NEW y \in Nat
  PROVE  [r EXCEPT !.stage = stage, !.sent = y] = State(stage, r.job, r.next, y, r.failed)
<1> DEFINE q == [r EXCEPT !.stage = stage, !.sent = y]
<1>1. /\ q \in [stage : Stage \cup {stage}, job : Run \cup {NoJob}, next : Nat, sent : Nat, failed : Nat]
      /\ q.stage = stage /\ q.job = r.job /\ q.next = r.next /\ q.sent = y /\ q.failed = r.failed
  BY DEF Row
<1> HIDE DEF q
<1>2. q = State(stage, r.job, r.next, y, r.failed)
  BY <1>1 DEF State
<1> QED
  BY <1>2 DEF q

LEMMA FailedAmended ==
  ASSUME NEW r \in Row, NEW stage, NEW y \in Nat
  PROVE  [r EXCEPT !.stage = stage, !.failed = y] = State(stage, r.job, r.next, r.sent, y)
<1> DEFINE q == [r EXCEPT !.stage = stage, !.failed = y]
<1>1. /\ q \in [stage : Stage \cup {stage}, job : Run \cup {NoJob}, next : Nat, sent : Nat, failed : Nat]
      /\ q.stage = stage /\ q.job = r.job /\ q.next = r.next /\ q.sent = r.sent /\ q.failed = y
  BY DEF Row
<1> HIDE DEF q
<1>2. q = State(stage, r.job, r.next, r.sent, y)
  BY <1>1 DEF State
<1> QED
  BY <1>2 DEF q

LEMMA NextAmended ==
  ASSUME NEW r \in Row, NEW stage, NEW y \in Nat
  PROVE  [r EXCEPT !.stage = stage, !.next = y] = State(stage, r.job, y, r.sent, r.failed)
<1> DEFINE q == [r EXCEPT !.stage = stage, !.next = y]
<1>1. /\ q \in [stage : Stage \cup {stage}, job : Run \cup {NoJob}, next : Nat, sent : Nat, failed : Nat]
      /\ q.stage = stage /\ q.job = r.job /\ q.next = y /\ q.sent = r.sent /\ q.failed = r.failed
  BY DEF Row
<1> HIDE DEF q
<1>2. q = State(stage, r.job, y, r.sent, r.failed)
  BY <1>1 DEF State
<1> QED
  BY <1>2 DEF q

LEMMA JobAmended ==
  ASSUME NEW r \in Row, NEW stage, NEW j \in Run
  PROVE  [r EXCEPT !.stage = stage, !.job = j] = State(stage, j, r.next, r.sent, r.failed)
<1> DEFINE q == [r EXCEPT !.stage = stage, !.job = j]
<1>1. /\ q \in [stage : Stage \cup {stage}, job : Run \cup {NoJob}, next : Nat, sent : Nat, failed : Nat]
      /\ q.stage = stage /\ q.job = j /\ q.next = r.next /\ q.sent = r.sent /\ q.failed = r.failed
  BY DEF Row
<1> HIDE DEF q
<1>2. q = State(stage, j, r.next, r.sent, r.failed)
  BY <1>1 DEF State
<1> QED
  BY <1>2 DEF q

LEMMA Amended ==
  ASSUME TypeOK, NEW w \in Process
  PROVE  LET r == worker[w] IN
         /\ \A stage : Move(w, stage) =>
              worker' = [worker EXCEPT ![w] = State(stage, Held(w), Current(w), r.sent, r.failed)]
         /\ Count(w, "sent") =>
              worker' = [worker EXCEPT ![w] = State("counted", Held(w), Current(w), r.sent + 1, r.failed)]
         /\ Count(w, "failed") =>
              worker' = [worker EXCEPT ![w] = State("counted", Held(w), Current(w), r.sent, r.failed + 1)]
         /\ worker' = [worker EXCEPT ![w].stage = "loop", ![w].next = @ + 1] =>
              worker' = [worker EXCEPT ![w] = State("loop", Held(w), Current(w) + 1, r.sent, r.failed)]
<1> DEFINE r == worker[w]
<1>1. r \in Row
  BY TakenTyped DEF TypeOK, Row, Stage, CoreStage
<1>2. r.sent + 1 \in Nat /\ r.failed + 1 \in Nat /\ r.next + 1 \in Nat
  BY <1>1 DEF Row
<1> HIDE DEF r
<1>3. \A stage : [r EXCEPT !.stage = stage] = State(stage, r.job, r.next, r.sent, r.failed)
  BY <1>1, StageAmended
<1>4. [r EXCEPT !.stage = "counted", !.sent = r.sent + 1] = State("counted", r.job, r.next, r.sent + 1, r.failed)
  BY <1>1, <1>2, SentAmended
<1>5. [r EXCEPT !.stage = "counted", !.failed = r.failed + 1] = State("counted", r.job, r.next, r.sent, r.failed + 1)
  BY <1>1, <1>2, FailedAmended
<1>6. [r EXCEPT !.stage = "loop", !.next = r.next + 1] = State("loop", r.job, r.next + 1, r.sent, r.failed)
  BY <1>1, <1>2, NextAmended
<1>7. \A stage : Move(w, stage) => worker' = [worker EXCEPT ![w] = [r EXCEPT !.stage = stage]]
  BY DEF Move, TypeOK, r
<1>8. Count(w, "sent") => worker' = [worker EXCEPT ![w] = [r EXCEPT !.stage = "counted", !.sent = r.sent + 1]]
  BY DEF Count, TypeOK, r
<1>9. Count(w, "failed") => worker' = [worker EXCEPT ![w] = [r EXCEPT !.stage = "counted", !.failed = r.failed + 1]]
  BY DEF Count, TypeOK, r
<1>10. worker' = [worker EXCEPT ![w].stage = "loop", ![w].next = @ + 1]
        => worker' = [worker EXCEPT ![w] = [r EXCEPT !.stage = "loop", !.next = r.next + 1]]
  BY DEF TypeOK, r
<1> QED
  BY <1>3, <1>4, <1>5, <1>6, <1>7, <1>8, <1>9, <1>10 DEF Held, Current, r

LEMMA BeginStep ==
  ASSUME IInv, NEW w \in Process, NEW j \in Run, Held(w) = j, Begin(w)
  PROVE  IInv'
<1> DEFINE s == worker[w].sent
           f == worker[w].failed
<1>1. worker[w].stage = "begin" /\ At(w, "begin") /\ InCore(w) /\ TypeOK
  BY DEF Begin, At, InCore, IInv
<1>c. /\ Taken \in Nat /\ Current(w) \in 1 .. Taken + 1
      /\ worker[w].sent \in 0 .. Taken /\ worker[w].failed \in 0 .. Taken
      /\ worker[w].sent + worker[w].failed = Current(w) - 1
      /\ Current(w) = 1
      /\ campaign # "gone" => worker[w].sent = Cardinality({x \in Recipient : log[j][x] = "SENT"})
  BY <1>1, CoreCounts DEF At
<1>w. /\ Typed(worker[w].stage, Current(w), worker[w].sent, worker[w].failed,
              tally[j], log[j], delivered[j], late[w])
      /\ Consistent(worker[w].stage, Current(w), worker[w].sent, worker[w].failed,
                   log[j], delivered[j], late[w])
  BY <1>1, CoreWorks
<1>2. Typed("loop", 1, s, f, Zero, log[j], delivered[j], late[w]) /\ Current(w) = 1
  BY <1>1, <1>c, <1>w DEF Typed, Consistent, CountsAgree, Zero, Counter, CoreStage
<1>3. Consistent("loop", 1, s, f, log[j], delivered[j], late[w])
  BY <1>1, <1>2, <1>c, <1>w DEF Consistent, CountsAgree, Reached, Late
<1>4. worker' = [worker EXCEPT ![w] = State("loop", j, 1, s, f)]
  BY <1>1, <1>c, Amended DEF Begin
<1>5. GoesOn(w, j, "loop", 1, s, f, Zero, log[j], delivered[j], late[w])
  BY <1>1, <1>4, RowsSame DEF Begin, GoesOn
<1> QED
  BY <1>1, <1>2, <1>3, <1>5, CoreGoesOn

LEMMA SkipStep ==
  ASSUME IInv, NEW w \in Process, NEW j \in Run, Held(w) = j, SkipRecipient(w)
  PROVE  IInv'
<1> DEFINE n == Current(w)
           s == worker[w].sent
           f == worker[w].failed + 1
<1>1. worker[w].stage = "loop" /\ ~At(w, "counted") /\ InCore(w) /\ TypeOK /\ n \in 1 .. Taken
  BY DEF SkipRecipient, At, InCore, IInv
<1>c. /\ Taken \in Nat /\ Current(w) \in 1 .. Taken + 1
      /\ worker[w].sent \in 0 .. Taken /\ worker[w].failed \in 0 .. Taken
      /\ worker[w].sent + worker[w].failed = Current(w) - 1
      /\ campaign # "gone" => worker[w].sent = Cardinality({x \in Recipient : log[j][x] = "SENT"})
  BY <1>1, CoreCounts
<1>w. /\ Typed(worker[w].stage, Current(w), worker[w].sent, worker[w].failed,
              tally[j], log[j], delivered[j], late[w])
      /\ Consistent(worker[w].stage, Current(w), worker[w].sent, worker[w].failed,
                   log[j], delivered[j], late[w])
  BY <1>1, CoreWorks
<1>2. Typed("counted", n, s, f, tally[j], log[j], delivered[j], late[w])
  BY <1>1, <1>c, <1>w DEF Typed, Consistent, CountsAgree, CoreStage
<1>3. Consistent("counted", n, s, f, log[j], delivered[j], late[w])
  BY <1>1, <1>c, <1>w DEF Typed, Consistent, CountsAgree, Reached, Late
<1>4. GoesOn(w, j, "counted", n, s, f, tally[j], log[j], delivered[j], late[w])
  BY <1>1, <1>c, RowsSame, Amended DEF SkipRecipient, rows, GoesOn
<1> QED
  BY <1>1, <1>2, <1>3, <1>4, CoreGoesOn

LEMMA LogQueuedStep ==
  ASSUME IInv, NEW w \in Process, NEW j \in Run, Held(w) = j, LogQueued(w)
  PROVE  IInv'
<1> DEFINE n == Current(w)
           s == worker[w].sent
           f == worker[w].failed
           l == [log[j] EXCEPT ![n] = "QUEUED"]
<1>1. worker[w].stage = "loop" /\ ~At(w, "counted") /\ InCore(w) /\ TypeOK
      /\ n \in 1 .. Taken /\ n \in Recipient /\ campaign # "gone"
  BY TakenTyped DEF LogQueued, At, InCore, IInv
<1>c. /\ Taken \in Nat /\ Current(w) \in 1 .. Taken + 1
      /\ worker[w].sent \in 0 .. Taken /\ worker[w].failed \in 0 .. Taken
      /\ worker[w].sent + worker[w].failed = Current(w) - 1
      /\ campaign # "gone" => worker[w].sent = Cardinality({x \in Recipient : log[j][x] = "SENT"})
  BY <1>1, CoreCounts
<1>w. /\ Typed(worker[w].stage, Current(w), worker[w].sent, worker[w].failed,
              tally[j], log[j], delivered[j], late[w])
      /\ Consistent(worker[w].stage, Current(w), worker[w].sent, worker[w].failed,
                   log[j], delivered[j], late[w])
  BY <1>1, CoreWorks
<1>2. Typed("sending", n, s, f, tally[j], l, delivered[j], late[w])
  BY <1>1, <1>c, <1>w DEF Typed, LogStatus, CoreStage
<1>3. l[n] = "QUEUED" /\ \A x \in Recipient : x # n => l[x] = log[j][x]
  BY <1>1, <1>c, <1>w DEF Typed
<1>4. log[j][n] = "none" /\ delivered[j][n] = 0
  BY <1>1, <1>c, <1>w DEF Consistent, Reached
<1> HIDE DEF l
<1>5. {x \in Recipient : l[x] = "SENT"} = {x \in Recipient : log[j][x] = "SENT"}
  BY <1>3, <1>4
<1>6. Reached("sending", n, l, delivered[j]) /\ Once(l, delivered[j])
  BY <1>1, <1>3, <1>4, <1>c, <1>w DEF Consistent, Reached, Once
<1>s. campaign # "gone" => s = Cardinality({x \in Recipient : l[x] = "SENT"})
  BY <1>c, <1>5
<1>7. CountsAgree("sending", n, s, f, l) /\ Late("sending", late[w])
  BY <1>1, <1>c, <1>s, <1>w DEF Consistent, CountsAgree, Late
<1>8. GoesOn(w, j, "sending", n, s, f, tally[j], l, delivered[j], late[w])
  BY <1>1, <1>c, RowsSame, Amended DEF LogQueued, GoesOn, l
<1> QED
  BY <1>1, <1>2, <1>6, <1>7, <1>8, CoreGoesOn DEF Consistent

LEMMA SendStep ==
  ASSUME IInv, NEW w \in Process, NEW j \in Run, Held(w) = j,
         NEW taken \in BOOLEAN, NEW answered \in BOOLEAN, Send(w, taken, answered)
  PROVE  IInv'
<1> DEFINE n == Current(w)
           s == worker[w].sent
           f == worker[w].failed
           d == [delivered[j] EXCEPT ![n] = IF taken THEN @ + 1 ELSE @]
           m == IF taken /\ campaign = "gone" THEN late[w] + 1 ELSE late[w]
           stage == IF answered THEN "accepted" ELSE "rejected"
<1>1. worker[w].stage = "sending" /\ ~At(w, "counted") /\ InCore(w) /\ TypeOK /\ (answered => taken)
  BY DEF Send, At, InCore, IInv
<1>c. /\ Taken \in Nat /\ Current(w) \in 1 .. Taken + 1
      /\ worker[w].sent \in 0 .. Taken /\ worker[w].failed \in 0 .. Taken
      /\ worker[w].sent + worker[w].failed = Current(w) - 1
      /\ Current(w) \in 1 .. Taken /\ Current(w) \in Recipient
      /\ campaign # "gone" => worker[w].sent = Cardinality({x \in Recipient : log[j][x] = "SENT"})
  BY <1>1, CoreCounts
<1>w. /\ Typed(worker[w].stage, Current(w), worker[w].sent, worker[w].failed,
              tally[j], log[j], delivered[j], late[w])
      /\ Consistent(worker[w].stage, Current(w), worker[w].sent, worker[w].failed,
                   log[j], delivered[j], late[w])
  BY <1>1, CoreWorks
<1>2. n \in 1 .. Taken /\ n \in Recipient
  BY <1>1, <1>c
<1>3. log[j][n] # "SENT" /\ delivered[j][n] = 0 /\ late[w] = 0
  BY <1>1, <1>2, <1>c, <1>w DEF Consistent, Reached, Typed, Late
<1>4. stage \in CoreStage /\ stage \in {"accepted", "rejected"} /\ (stage = "accepted" => taken)
  BY <1>1 DEF CoreStage
<1>5. d \in [Recipient -> Nat] /\ d[n] = (IF taken THEN 1 ELSE 0) /\ \A x \in Recipient : x # n => d[x] = delivered[j][x]
  BY <1>1, <1>2, <1>3, <1>c, <1>w DEF Typed
<1>6. m \in Nat /\ Late(stage, m)
  BY <1>3, <1>4 DEF Late
<1>7. GoesOn(w, j, stage, n, s, f, tally[j], log[j], d, m)
  BY <1>1, <1>c, RowsSame, Amended DEF Send, GoesOn
<1> HIDE DEF d, m, stage
<1>8. Typed(stage, n, s, f, tally[j], log[j], d, m)
  BY <1>1, <1>4, <1>5, <1>6, <1>c, <1>w DEF Typed
<1>9. Reached(stage, n, log[j], d) /\ Once(log[j], d)
  BY <1>1, <1>2, <1>3, <1>4, <1>5, <1>c, <1>w DEF Consistent, Reached, Once
<1>10. CountsAgree(stage, n, s, f, log[j])
  BY <1>1, <1>2, <1>4, <1>c, <1>w DEF Typed, Consistent, CountsAgree
<1>11. stage # "begin"
  BY <1>4
<1> QED
  BY <1>1, <1>6, <1>7, <1>8, <1>9, <1>10, <1>11, CoreGoesOn DEF Consistent

(* A message marked sent is one more. *)
LEMMA OneMoreSent ==
  ASSUME NEW l \in [Recipient -> LogStatus], NEW n \in Recipient, l[n] # "SENT"
  PROVE  Cardinality({x \in Recipient : [l EXCEPT ![n] = "SENT"][x] = "SENT"}) =
           Cardinality({x \in Recipient : l[x] = "SENT"}) + 1
<1> DEFINE S == {x \in Recipient : l[x] = "SENT"}
<1>1. {x \in Recipient : [l EXCEPT ![n] = "SENT"][x] = "SENT"} = S \cup {n}
  OBVIOUS
<1>2. IsFiniteSet(Recipient)
  BY FS_Interval, Numbers DEF Recipient
<1>3. IsFiniteSet(S)
  BY <1>2, FS_Subset
<1>4. n \notin S
  OBVIOUS
<1> HIDE DEF S
<1>5. Cardinality(S \cup {n}) = Cardinality(S) + 1
  BY <1>3, <1>4, FS_AddElement
<1> QED
  BY <1>1, <1>5 DEF S

LEMMA MarkSentStep ==
  ASSUME IInv, NEW w \in Process, NEW j \in Run, Held(w) = j, MarkSent(w)
  PROVE  IInv'
<1> DEFINE n == Current(w)
           s == worker[w].sent + 1
           f == worker[w].failed
           l == [log[j] EXCEPT ![n] = "SENT"]
<1>1. worker[w].stage = "accepted" /\ ~At(w, "counted") /\ InCore(w) /\ TypeOK /\ campaign # "gone"
  BY DEF MarkSent, At, InCore, IInv
<1>c. /\ Taken \in Nat /\ Current(w) \in 1 .. Taken + 1
      /\ worker[w].sent \in 0 .. Taken /\ worker[w].failed \in 0 .. Taken
      /\ worker[w].sent + worker[w].failed = Current(w) - 1
      /\ Current(w) \in 1 .. Taken /\ Current(w) \in Recipient
      /\ campaign # "gone" => worker[w].sent = Cardinality({x \in Recipient : log[j][x] = "SENT"})
  BY <1>1, CoreCounts
<1>w. /\ Typed(worker[w].stage, Current(w), worker[w].sent, worker[w].failed,
              tally[j], log[j], delivered[j], late[w])
      /\ Consistent(worker[w].stage, Current(w), worker[w].sent, worker[w].failed,
                   log[j], delivered[j], late[w])
  BY <1>1, CoreWorks
<1>2. n \in 1 .. Taken /\ n \in Recipient /\ log[j] \in [Recipient -> LogStatus]
  BY <1>1, <1>c, <1>w DEF Typed, Consistent, CountsAgree
<1>3. log[j][n] # "SENT" /\ delivered[j][n] = 1
  BY <1>1, <1>2, <1>c, <1>w DEF Consistent, Reached
<1>4. l[n] = "SENT" /\ \A x \in Recipient : x # n => l[x] = log[j][x]
  BY <1>2
<1>5. Typed("counted", n, s, f, tally[j], l, delivered[j], late[w])
  BY <1>1, <1>2, <1>c, <1>w DEF Typed, Consistent, CountsAgree, LogStatus, CoreStage
<1>6. Cardinality({x \in Recipient : l[x] = "SENT"}) = s
  BY <1>1, <1>2, <1>3, OneMoreSent, <1>c, <1>w DEF Consistent, CountsAgree
<1> HIDE DEF l
<1>7. Reached("counted", n, l, delivered[j]) /\ Once(l, delivered[j])
  BY <1>1, <1>2, <1>3, <1>4, <1>c, <1>w DEF Consistent, Reached, Once
<1>8. CountsAgree("counted", n, s, f, l) /\ Late("counted", late[w])
  BY <1>1, <1>2, <1>6, <1>c, <1>w DEF Typed, Consistent, CountsAgree, Late
<1>9. GoesOn(w, j, "counted", n, s, f, tally[j], l, delivered[j], late[w])
  BY <1>1, <1>c, RowsSame, Amended DEF MarkSent, GoesOn, l
<1> QED
  BY <1>1, <1>5, <1>7, <1>8, <1>9, CoreGoesOn DEF Consistent

LEMMA MarkSentThrowsStep ==
  ASSUME IInv, NEW w \in Process, NEW j \in Run, Held(w) = j, MarkSentThrows(w)
  PROVE  IInv'
<1> DEFINE n == Current(w)
           s == worker[w].sent
           f == worker[w].failed
<1>1. worker[w].stage = "accepted" /\ ~At(w, "counted") /\ InCore(w) /\ TypeOK
  BY DEF MarkSentThrows, At, InCore, IInv
<1>c. /\ Taken \in Nat /\ Current(w) \in 1 .. Taken + 1
      /\ worker[w].sent \in 0 .. Taken /\ worker[w].failed \in 0 .. Taken
      /\ worker[w].sent + worker[w].failed = Current(w) - 1
      /\ Current(w) \in 1 .. Taken /\ Current(w) \in Recipient
      /\ campaign # "gone" => worker[w].sent = Cardinality({x \in Recipient : log[j][x] = "SENT"})
  BY <1>1, CoreCounts
<1>w. /\ Typed(worker[w].stage, Current(w), worker[w].sent, worker[w].failed,
              tally[j], log[j], delivered[j], late[w])
      /\ Consistent(worker[w].stage, Current(w), worker[w].sent, worker[w].failed,
                   log[j], delivered[j], late[w])
  BY <1>1, CoreWorks
<1>2. Typed("rejected", n, s, f, tally[j], log[j], delivered[j], late[w])
  BY <1>1, <1>c, <1>w DEF Typed, CoreStage
<1>3. Consistent("rejected", n, s, f, log[j], delivered[j], late[w])
  BY <1>1, <1>c, <1>w DEF Typed, Consistent, CountsAgree, Reached, Late
<1>4. GoesOn(w, j, "rejected", n, s, f, tally[j], log[j], delivered[j], late[w])
  BY <1>1, <1>c, RowsSame, Amended DEF MarkSentThrows, rows, GoesOn
<1> QED
  BY <1>1, <1>2, <1>3, <1>4, CoreGoesOn

LEMMA MarkFailedStep ==
  ASSUME IInv, NEW w \in Process, NEW j \in Run, Held(w) = j, MarkFailed(w)
  PROVE  IInv'
<1> DEFINE n == Current(w)
           s == worker[w].sent
           f == worker[w].failed + 1
           l == [log[j] EXCEPT ![n] = "FAILED"]
<1>1. worker[w].stage = "rejected" /\ ~At(w, "counted") /\ InCore(w) /\ TypeOK /\ campaign # "gone"
  BY DEF MarkFailed, At, InCore, IInv
<1>c. /\ Taken \in Nat /\ Current(w) \in 1 .. Taken + 1
      /\ worker[w].sent \in 0 .. Taken /\ worker[w].failed \in 0 .. Taken
      /\ worker[w].sent + worker[w].failed = Current(w) - 1
      /\ Current(w) \in 1 .. Taken /\ Current(w) \in Recipient
      /\ campaign # "gone" => worker[w].sent = Cardinality({x \in Recipient : log[j][x] = "SENT"})
  BY <1>1, CoreCounts
<1>w. /\ Typed(worker[w].stage, Current(w), worker[w].sent, worker[w].failed,
              tally[j], log[j], delivered[j], late[w])
      /\ Consistent(worker[w].stage, Current(w), worker[w].sent, worker[w].failed,
                   log[j], delivered[j], late[w])
  BY <1>1, CoreWorks
<1>2. n \in 1 .. Taken /\ n \in Recipient /\ log[j] \in [Recipient -> LogStatus]
  BY <1>1, <1>c, <1>w DEF Typed, Consistent, CountsAgree
<1>3. log[j][n] # "SENT"
  BY <1>1, <1>2, <1>c, <1>w DEF Consistent, Reached
<1>4. l[n] = "FAILED" /\ \A x \in Recipient : x # n => l[x] = log[j][x]
  BY <1>2
<1>5. Typed("counted", n, s, f, tally[j], l, delivered[j], late[w])
  BY <1>1, <1>2, <1>c, <1>w DEF Typed, Consistent, CountsAgree, LogStatus, CoreStage
<1> HIDE DEF l
<1>6. {x \in Recipient : l[x] = "SENT"} = {x \in Recipient : log[j][x] = "SENT"}
  BY <1>3, <1>4
<1>7. Reached("counted", n, l, delivered[j]) /\ Once(l, delivered[j])
  BY <1>1, <1>2, <1>3, <1>4, <1>c, <1>w DEF Consistent, Reached, Once
<1>s. campaign # "gone" => s = Cardinality({x \in Recipient : l[x] = "SENT"})
  BY <1>c, <1>6
<1>8. CountsAgree("counted", n, s, f, l) /\ Late("counted", late[w])
  BY <1>1, <1>c, <1>s, <1>w DEF Consistent, CountsAgree, Late
<1>9. GoesOn(w, j, "counted", n, s, f, tally[j], l, delivered[j], late[w])
  BY <1>1, <1>c, RowsSame, Amended DEF MarkFailed, GoesOn, l
<1> QED
  BY <1>1, <1>5, <1>7, <1>8, <1>9, CoreGoesOn DEF Consistent

LEMMA UpdateJobStep ==
  ASSUME IInv, NEW w \in Process, NEW j \in Run, Held(w) = j, UpdateJob(w)
  PROVE  IInv'
<1> DEFINE n == Current(w) + 1
           s == worker[w].sent
           f == worker[w].failed
           t == Counts(w, Current(w))
<1>1. worker[w].stage = "counted" /\ At(w, "counted") /\ InCore(w) /\ TypeOK
  BY DEF UpdateJob, At, InCore, IInv
<1>c. /\ Taken \in Nat /\ Current(w) \in 1 .. Taken + 1
      /\ worker[w].sent \in 0 .. Taken /\ worker[w].failed \in 0 .. Taken
      /\ worker[w].sent + worker[w].failed = Current(w)
      /\ Current(w) \in 1 .. Taken /\ Current(w) \in Recipient
      /\ campaign # "gone" => worker[w].sent = Cardinality({x \in Recipient : log[j][x] = "SENT"})
  BY <1>1, CoreCounts
<1>w. /\ Typed(worker[w].stage, Current(w), worker[w].sent, worker[w].failed,
              tally[j], log[j], delivered[j], late[w])
      /\ Consistent(worker[w].stage, Current(w), worker[w].sent, worker[w].failed,
                   log[j], delivered[j], late[w])
  BY <1>1, CoreWorks
<1>2. Current(w) \in 1 .. Taken
  BY <1>1, <1>c
<1>3. t \in Counter
  BY <1>1, <1>2, <1>c, <1>w DEF Counts, Counter, Typed
<1>4. GoesOn(w, j, "loop", n, s, f, t, log[j], delivered[j], late[w])
  BY <1>1, <1>c, RowsSame, Amended DEF UpdateJob, GoesOn
<1> HIDE DEF t
<1>5. Typed("loop", n, s, f, t, log[j], delivered[j], late[w])
  BY <1>1, <1>2, <1>3, <1>c, <1>w DEF Typed, CoreStage
<1>6. Reached("loop", n, log[j], delivered[j])
  BY <1>1, <1>2, <1>c, <1>w DEF Consistent, Reached, Recipient
<1>7. CountsAgree("loop", n, s, f, log[j]) /\ Late("loop", late[w]) /\ Once(log[j], delivered[j])
  BY <1>1, <1>2, <1>c, <1>w DEF Typed, Consistent, CountsAgree, Late
<1> QED
  BY <1>1, <1>4, <1>5, <1>6, <1>7, CoreGoesOn DEF Consistent

(* A step by which a process leaves the core, its run ending as st with    *)
(* tally t.                                                                *)
LEMMA CoreLeft ==
  ASSUME IInv, NEW w \in Process, NEW j \in Run, InCore(w), Held(w) = j,
         NEW st \in {"RUNNING", "COMPLETED", "FAILED", "deleted"}, NEW t \in Counter,
         Rest(w), job' = [job EXCEPT ![j] = st], tally' = [tally EXCEPT ![j] = t],
         UNCHANGED <<log, delivered, campaign, recipients, crashes, late>>,
         st = "COMPLETED" =>
           /\ t.processed = Taken /\ t.sent + t.failed = Taken
           /\ campaign # "gone" => t.sent = Cardinality(Logged(j, "SENT")) /\ Logged(j, "QUEUED") = {}
  PROVE  IInv'
<1>1. worker'[w] = (IF w \in Direct THEN Done ELSE Idle) /\ worker' = [worker EXCEPT ![w] = worker'[w]]
  BY DEF Rest, IInv, TypeOK
<1>2. /\ worker'[w].stage = (IF w \in Direct THEN "done" ELSE "idle")
      /\ worker'[w].next = 1 /\ worker'[w].sent = 0 /\ worker'[w].failed = 0
      /\ worker'[w] \in Local
  BY <1>1, TakenTyped DEF Done, Idle, Local, Stage, IInv
<1>3. Taken' = Taken /\ job'[j] = st /\ tally'[j] = t
  BY DEF Taken, IInv, TypeOK
<1>4. Acts(w, j)
  BY <1>1 DEF Acts, RowsKept, IInv, TypeOK
<1>5. ~InCore(w)' /\ Progress(w)' /\ Rested(w)'
  BY <1>2 DEF InCore, Progress, Rested, CoreStage, At, Current
<1>6. LateOnce(w)'
  BY <1>2 DEF LateOnce, Late, IInv, ProcessOK
<1>7. SentOnce(j)'
  BY DEF SentOnce, IInv, RunOK
<1>8. Accounted(j)'
  <2>1. \A status : Logged(j, status)' = Logged(j, status)
    BY DEF Logged
  <2>2. \A x \in Logged(j, "SENT") : delivered[j][x] = 1
    BY DEF Logged, IInv, RunOK, SentOnce, Once
  <2> QED
    BY <1>3, <2>1, <2>2 DEF Accounted
<1>9. TypeOK'
  <2>1. worker' \in [Process -> Local]
    BY <1>1, <1>2 DEF IInv, TypeOK, Local, Stage, CoreStage
  <2> QED
    BY <1>3, <2>1 DEF IInv, TypeOK, Local, Stage, CoreStage, Counter
<1>10. job'[j] \notin {"none", "QUEUED"}
  BY <1>3
<1> QED
  BY <1>4, <1>5, <1>6, <1>7, <1>8, <1>9, <1>10, CoreStep

LEMMA CompleteStep ==
  ASSUME IInv, NEW w \in Process, NEW j \in Run, Held(w) = j, Complete(w)
  PROVE  IInv'
<1> DEFINE t == Counts(w, Taken)
<1>1. worker[w].stage = "loop" /\ ~At(w, "counted") /\ InCore(w) /\ Current(w) > Taken
  BY DEF Complete, At, InCore
<1>2. /\ Taken \in Nat /\ Current(w) \in 1 .. Taken + 1
      /\ worker[w].sent \in 0 .. Taken /\ worker[w].failed \in 0 .. Taken
      /\ worker[w].sent + worker[w].failed = Current(w) - 1
      /\ campaign # "gone" => worker[w].sent = Cardinality(Logged(j, "SENT"))
  BY <1>1, CoreCounts DEF Logged
<1>3. t \in Counter /\ t.processed = Taken /\ t.sent + t.failed = Taken /\ t.sent = worker[w].sent
  BY <1>1, <1>2 DEF Counts, Counter
<1>4. Logged(j, "QUEUED") = {}
  BY <1>1, CoreWorks DEF Logged, Consistent, Reached
<1>5. /\ Rest(w) /\ job' = [job EXCEPT ![j] = "COMPLETED"] /\ tally' = [tally EXCEPT ![j] = t]
      /\ UNCHANGED <<log, delivered, campaign, recipients, crashes, late>>
  BY DEF Complete
<1> HIDE DEF t
<1> QED
  BY <1>1, <1>2, <1>3, <1>4, <1>5, CoreLeft

LEMMA AbortStep ==
  ASSUME IInv, NEW w \in Process, NEW j \in Run, Held(w) = j, Abort(w)
  PROVE  IInv'
<1> DEFINE st == IF RowExists(j) THEN "FAILED" ELSE job[j]
<1>1. InCore(w)
  BY DEF Abort, InCore
<1>2. st \in {"FAILED", "deleted"}
  BY <1>1, CoreFacts DEF RowExists
<1>3. tally[j] \in Counter /\ tally = [tally EXCEPT ![j] = tally[j]]
  BY <1>1, CoreWorks, RowsSame DEF Typed, IInv
<1>4. /\ Rest(w) /\ job' = [job EXCEPT ![j] = st] /\ tally' = [tally EXCEPT ![j] = tally[j]]
      /\ UNCHANGED <<log, delivered, campaign, recipients, crashes, late>>
  BY <1>3 DEF Abort
<1> HIDE DEF st
<1>5. st # "COMPLETED" /\ st \in {"RUNNING", "COMPLETED", "FAILED", "deleted"}
  BY <1>2
<1> QED
  BY <1>1, <1>3, <1>4, <1>5, CoreLeft

------------------------------------------------------------------------------
(* Outside of the core *)

(* A step that leaves process w without a run, or with one it only picked. *)
LEMMA OutsideStep ==
  ASSUME IInv, NEW w \in Process, NEW j \in Run,
         NEW st \in {"idle", "picked", "done"}, NEW k \in Run \cup {NoJob},
         worker' = [worker EXCEPT ![w] = State(st, k, 1, 0, 0)],
         UNCHANGED <<rows, campaign, late>>, crashes' \in 0 .. MaxCrashes,
         st = "picked" => w \in Worker /\ k \in Job,
         st = "idle" => w \notin Direct
  PROVE  IInv'
<1> DEFINE r == State(st, k, 1, 0, 0)
<1>1. r \in Local /\ r.stage = st /\ r.job = k /\ r.next = 1 /\ r.sent = 0 /\ r.failed = 0
  BY TakenTyped DEF State, Local, Stage, IInv
<1> HIDE DEF r
<1>2. worker'[w] = r /\ Taken' = Taken
  BY DEF IInv, TypeOK, Taken, rows, r
<1>3. Acts(w, j) /\ RowsKept(j)
  BY DEF Acts, RowsKept, IInv, TypeOK, rows
<1>4. ~InCore(w)' /\ Progress(w)' /\ Rested(w)'
  BY <1>1, <1>2 DEF InCore, Progress, Rested, CoreStage, At, Current, Held
<1>5. LateOnce(w)'
  BY <1>1, <1>2 DEF LateOnce, Late, IInv, ProcessOK
<1>6. RunOK(j)' /\ Lifetime'
  <2>1. \A status : Logged(j, status)' = Logged(j, status)
    BY DEF Logged, rows
  <2> QED
    BY <1>2, <2>1 DEF IInv, RunOK, Fresh, SentOnce, Accounted, Lifetime, rows
<1>7. TypeOK'
  <2>1. worker' \in [Process -> Local]
    BY <1>1 DEF IInv, TypeOK, Local, Stage, CoreStage, r
  <2> QED
    BY <1>2, <2>1 DEF IInv, TypeOK, Local, Stage, CoreStage, rows
<1> QED
  BY <1>3, <1>4, <1>5, <1>6, <1>7, StepKeepsOthers DEF ProcessOK

(* A step by which process w begins run j. *)
LEMMA RunBegins ==
  ASSUME IInv, NEW w \in Process, NEW j \in Run, j \in RunsOf(w), job[j] \in {"none", "QUEUED"},
         ~At(w, "sending"), campaign \notin {"none", "recorded"},
         job' = [job EXCEPT ![j] = "RUNNING"],
         worker' = [worker EXCEPT ![w] = State("begin", j, 1, 0, 0)],
         UNCHANGED <<tally, log, delivered, campaign, recipients, crashes, late>>
  PROVE  IInv'
<1> DEFINE r == State("begin", j, 1, 0, 0)
<1>1. r \in Local /\ r.stage = "begin" /\ r.job = j /\ r.next = 1 /\ r.sent = 0 /\ r.failed = 0
  BY TakenTyped DEF State, Local, Stage, CoreStage, IInv
<1> HIDE DEF r
<1>2. worker'[w] = r /\ Taken' = Taken /\ job'[j] = "RUNNING" /\ log' = log /\ delivered' = delivered
  BY DEF IInv, TypeOK, Taken, r
<1>3. Acts(w, j)
  BY DEF Acts, RowsKept, IInv, TypeOK
<1>4. Sole(w, j)
  BY CoreFacts DEF Sole
<1>5. Held(w)' = j /\ Current(w)' = 1 /\ worker'[w].stage = "begin" /\ worker'[w].sent = 0 /\ worker'[w].failed = 0
  BY <1>1, <1>2 DEF Held, Current
<1>6. \A x \in Recipient : delivered[j][x] = 0 /\ log[j][x] = "none"
  BY DEF IInv, RunOK, Fresh
<1>7. Progress(w)'
  <2>1. {x \in Recipient : log[j][x] = "SENT"} = {}
    BY <1>6
  <2>2. Cardinality({x \in Recipient : log[j][x] = "SENT"}) = 0
    BY <2>1, FS_EmptySet
  <2>3. Reached("begin", 1, log[j], delivered[j])
    BY <1>6 DEF Reached
  <2>4. Reached(worker[w].stage, Current(w), log[Held(w)], delivered[Held(w)])'
    BY <1>2, <1>5, <2>3
  <2>5. CountsAgree(worker[w].stage, Current(w), worker[w].sent, worker[w].failed, log[Held(w)])'
    BY <1>2, <1>5, <2>2 DEF CountsAgree
  <2> QED
    BY <1>2, <1>5, <2>4, <2>5 DEF Progress
<1>8. Rested(w)' /\ LateOnce(w)'
  BY <1>5 DEF Rested, LateOnce, Late, At, IInv, ProcessOK
<1>9. RunOK(j)'
  BY <1>2 DEF IInv, RunOK, Fresh, SentOnce, Accounted
<1>10. Lifetime'
  BY DEF IInv, Lifetime, Run, TypeOK
<1>11. TypeOK'
  <2>1. worker' \in [Process -> Local]
    BY <1>1 DEF IInv, TypeOK, Local, Stage, CoreStage, r
  <2> QED
    BY <1>2, <2>1 DEF IInv, TypeOK, Local, Stage, CoreStage
<1> QED
  BY <1>3, <1>4, <1>5, <1>7, <1>8, <1>9, <1>10, <1>11, StepKeepsOthers DEF ProcessOK

TakesUp(w, st, j) == worker' = [worker EXCEPT ![w].stage = st, ![w].job = j]

LEMMA OutsideFacts ==
  ASSUME IInv, NEW w \in Process, worker[w].stage \in {"idle", "picked", "done"}
  PROVE  /\ Current(w) = 1 /\ worker[w].sent = 0 /\ worker[w].failed = 0 /\ ~At(w, "sending")
         /\ At(w, "picked") => w \in Worker /\ Held(w) \in Job
         /\ w \in Direct /\ At(w, "idle") => job[w] = "none"
         /\ \A stage : Move(w, stage) => worker' = [worker EXCEPT ![w] = State(stage, Held(w), 1, 0, 0)]
         /\ \A stage : \A j \in Run : TakesUp(w, stage, j) =>
              worker' = [worker EXCEPT ![w] = State(stage, j, 1, 0, 0)]
<1>1. Rested(w) /\ TypeOK
  BY DEF IInv, ProcessOK
<1>2. Current(w) = 1 /\ worker[w].sent = 0 /\ worker[w].failed = 0 /\ ~At(w, "sending")
  BY <1>1 DEF Rested, At
<1>3. \A stage : Move(w, stage) => worker' = [worker EXCEPT ![w] = State(stage, Held(w), 1, 0, 0)]
  BY <1>1, <1>2, Amended
<1>4. ASSUME NEW stage, NEW j \in Run, TakesUp(w, stage, j)
      PROVE  worker' = [worker EXCEPT ![w] = State(stage, j, 1, 0, 0)]
  <2> DEFINE r == worker[w]
  <2>1. r \in Row /\ r.next = 1 /\ r.sent = 0 /\ r.failed = 0
    BY <1>1, <1>2, TakenTyped DEF TypeOK, Row, Stage, CoreStage, Current
  <2>2. worker' = [worker EXCEPT ![w] = [r EXCEPT !.stage = stage, !.job = j]]
    BY <1>1, <1>4 DEF TypeOK, TakesUp
  <2> HIDE DEF r
  <2>3. [r EXCEPT !.stage = stage, !.job = j] = State(stage, j, r.next, r.sent, r.failed)
    BY <2>1, JobAmended
  <2> QED
    BY <2>1, <2>2, <2>3
<1> QED
  BY <1>1, <1>2, <1>3, <1>4 DEF Rested

LEMMA PollStep ==
  ASSUME IInv, NEW w \in Worker, Poll(w)
  PROVE  IInv'
<1>1. PICK j \in Job : TakesUp(w, "picked", j)
  BY DEF Poll, TakesUp
<1>2. w \in Process /\ j \in Run /\ w \notin Direct /\ worker[w].stage = "idle"
  BY Numbers DEF Process, Run, Poll, At
<1>3. worker' = [worker EXCEPT ![w] = State("picked", j, 1, 0, 0)]
  BY <1>1, <1>2, OutsideFacts
<1>4. UNCHANGED <<rows, campaign, late>> /\ crashes' \in 0 .. MaxCrashes
  BY DEF Poll, IInv, TypeOK
<1> QED
  BY <1>2, <1>3, <1>4, OutsideStep

LEMMA ClaimStep ==
  ASSUME IInv, NEW w \in Process, Claim(w)
  PROVE  IInv'
<1> DEFINE j == Held(w)
<1>1. worker[w].stage = "picked" /\ At(w, "picked")
  BY DEF Claim, At
<1>2. w \in Worker /\ j \in Job /\ job[j] = "QUEUED"
  BY <1>1, OutsideFacts DEF Claim
<1>3. j \in Run /\ j \in RunsOf(w)
  BY <1>2, Numbers DEF Run, RunsOf
<1>4. worker' = [worker EXCEPT ![w] = State("begin", j, 1, 0, 0)] /\ ~At(w, "sending")
  BY <1>1, OutsideFacts DEF Claim
<1>5. campaign \notin {"none", "recorded"}
  BY <1>2, <1>3 DEF IInv, Lifetime
<1> QED
  BY <1>2, <1>3, <1>4, <1>5, RunBegins DEF Claim

LEMMA ClaimLostStep ==
  ASSUME IInv, NEW w \in Process, ClaimLost(w)
  PROVE  IInv'
<1>1. w \in Worker /\ Held(w) \in Job
  BY OutsideFacts DEF ClaimLost, At
<1>2. w \notin Direct /\ Held(w) \in Run
  BY <1>1, Numbers DEF Run
<1>3. worker' = [worker EXCEPT ![w] = State("idle", NoJob, 1, 0, 0)]
  BY DEF ClaimLost, Idle, State
<1>4. UNCHANGED <<rows, campaign, late>> /\ crashes' \in 0 .. MaxCrashes
  BY DEF ClaimLost, IInv, TypeOK
<1> QED
  BY <1>2, <1>3, <1>4, OutsideStep

LEMMA CrashStep ==
  ASSUME IInv, NEW w \in Process, Crash(w)
  PROVE  IInv'
<1> DEFINE st == IF w \in Direct THEN "done" ELSE "idle"
<1>1. Held(w) \in Run
  BY CoreFacts, OutsideFacts DEF Crash, InCore, At, Run, IInv, TypeOK
<1>2. worker' = [worker EXCEPT ![w] = State(st, NoJob, 1, 0, 0)]
  <2>1. Idle = State("idle", NoJob, 1, 0, 0) /\ Done = State("done", NoJob, 1, 0, 0)
    BY DEF Done, Idle, State
  <2> QED
    BY <2>1 DEF Crash, Rest
<1>3. UNCHANGED <<rows, campaign, late>> /\ crashes' \in 0 .. MaxCrashes
  BY Numbers DEF Crash, IInv, TypeOK
<1>4. st \in {"idle", "picked", "done"} /\ st # "picked" /\ (st = "idle" => w \notin Direct)
  OBVIOUS
<1> HIDE DEF st
<1> QED
  BY <1>1, <1>2, <1>3, <1>4, OutsideStep

LEMMA DispatchStep ==
  ASSUME IInv, NEW d \in Direct, Dispatch(d)
  PROVE  IInv'
<1>1. /\ d \in Process /\ d \in Run /\ d \in RunsOf(d) /\ worker[d].stage = "idle" /\ At(d, "idle")
      /\ TakesUp(d, "begin", d)
  BY DEF Process, Run, RunsOf, Dispatch, At, TakesUp
<1>2. job[d] = "none" /\ ~At(d, "sending") /\ worker' = [worker EXCEPT ![d] = State("begin", d, 1, 0, 0)]
  BY <1>1, OutsideFacts
<1>3. campaign \notin {"none", "recorded"}
  BY DEF Dispatch, Asking
<1> QED
  BY <1>1, <1>2, <1>3, RunBegins DEF Dispatch

------------------------------------------------------------------------------
(* The campaign and its jobs *)

LEMMA EnqueueStep ==
  ASSUME IInv, NEW j \in Job, Enqueue(j)
  PROVE  IInv'
<1>1. /\ j \in Run /\ j \notin Direct /\ job[j] = "none" /\ job' = [job EXCEPT ![j] = "QUEUED"]
      /\ UNCHANGED <<tally, log, delivered, worker, campaign, recipients, crashes, late>>
      /\ campaign \in {"there", "checked"}
  BY Numbers DEF Enqueue, Asking, Run
<1>2. TypeOK' /\ Taken' = Taken
  BY <1>1 DEF IInv, TypeOK, Taken
<1>3. ASSUME NEW w \in Process
      PROVE  ProcessOK(w)'
  <2>1. InCore(w) => Held(w) \in Run /\ Held(w) # j
    BY <1>1, CoreFacts
  <2>2. worker[w].stage \in CoreStage => InCore(w)
    BY InCoreIsCoreStage DEF IInv
  <2>5. worker[w].stage \in CoreStage => job'[Held(w)] = job[Held(w)]
    BY <1>1, <2>1, <2>2 DEF IInv, TypeOK
  <2>3. Progress(w)'
    BY <1>1, <1>2, <2>5 DEF IInv, ProcessOK, Progress, CountsAgree, Held, Current
  <2>4. Rested(w)'
    BY <1>1, Numbers DEF IInv, TypeOK, ProcessOK, Rested, At, Held, Current, Run
  <2> QED
    BY <1>1, <2>3, <2>4 DEF IInv, ProcessOK, LateOnce, Late
<1>4. ASSUME NEW k \in Run
      PROVE  RunOK(k)'
  <2>1. job'[k] = (IF k = j THEN "QUEUED" ELSE job[k])
    BY <1>1 DEF IInv, TypeOK
  <2>2. \A status : Logged(k, status)' = Logged(k, status)
    BY <1>1 DEF Logged
  <2> QED
    BY <1>1, <1>2, <2>1, <2>2 DEF IInv, RunOK, Fresh, SentOnce, Accounted
<1>5. Exclusive' /\ Lifetime'
  BY <1>1 DEF IInv, Exclusive, Lifetime, InCore, Held
<1> QED
  BY <1>2, <1>3, <1>4, <1>5 DEF IInv

(* Creating the campaign, and giving it its recipients. *)
LEMMA CampaignStep ==
  ASSUME IInv, campaign \in {"none", "recorded"}, campaign' \in {"recorded", "there"},
         recipients' \in [count : 0 .. Recipients, noTarget : SUBSET Nat],
         campaign' = "recorded" => recipients'.count = 0,
         UNCHANGED <<job, tally, log, delivered, worker, crashes, late>>
  PROVE  IInv'
<1>1. Taken = 0 /\ Taken' \in Nat /\ \A j \in Run : job[j] = "none"
  BY Numbers DEF IInv, Lifetime, Taken
<1>2. \A w \in Process : ~InCore(w)
  BY <1>1, CoreFacts
<1>3. TypeOK'
  <2>1. \A m \in Nat : 0 .. 0 \subseteq 0 .. m /\ 1 .. 0 + 1 \subseteq 1 .. m + 1
    OBVIOUS
  <2>2. 0 .. Taken \subseteq 0 .. Taken' /\ 1 .. Taken + 1 \subseteq 1 .. Taken' + 1
    BY <1>1, <2>1
  <2> QED
    BY <2>2 DEF IInv, TypeOK
<1>4. ASSUME NEW w \in Process
      PROVE  ProcessOK(w)'
  <2>1. worker[w].stage \notin CoreStage
    BY <1>2, InCoreIsCoreStage DEF IInv
  <2> QED
    BY <2>1 DEF IInv, ProcessOK, Progress, Rested, LateOnce, Late, Held, Current, At
<1>5. ASSUME NEW j \in Run
      PROVE  RunOK(j)'
  BY <1>1 DEF IInv, RunOK, Fresh, SentOnce, Accounted
<1>6. Exclusive' /\ Lifetime'
  BY <1>1 DEF IInv, Exclusive, Lifetime, InCore, Held
<1> QED
  BY <1>3, <1>4, <1>5, <1>6 DEF IInv

LEMMA CheckDeleteStep ==
  ASSUME IInv, CheckDelete
  PROVE  IInv'
<1>1. UNCHANGED <<rows, worker, crashes, late>> /\ campaign = "there" /\ campaign' = "checked" /\ Taken' = Taken
  BY DEF CheckDelete, rows, Taken
<1>2. TypeOK' /\ Exclusive' /\ Lifetime'
  BY <1>1 DEF IInv, TypeOK, Exclusive, Lifetime, InCore, Held, rows
<1>3. ASSUME NEW w \in Process
      PROVE  ProcessOK(w)'
  BY <1>1 DEF IInv, ProcessOK, Progress, CountsAgree, Rested, LateOnce, Late, Held, Current, At, rows
<1>4. ASSUME NEW j \in Run
      PROVE  RunOK(j)'
  <2>1. \A status : Logged(j, status)' = Logged(j, status)
    BY <1>1 DEF Logged, rows
  <2> QED
    BY <1>1, <2>1 DEF IInv, RunOK, Fresh, SentOnce, Accounted, rows
<1> QED
  BY <1>2, <1>3, <1>4 DEF IInv

LEMMA CommitDeleteStep ==
  ASSUME IInv, CommitDelete
  PROVE  IInv'
<1> DEFINE st(j) == IF job[j] = "none" \/ j \in Direct THEN job[j] ELSE "deleted"
<1>1. /\ campaign = "checked" /\ campaign' = "gone" /\ Taken' = Taken
      /\ \A j \in Run : job'[j] = st(j)
      /\ \A j \in Run, x \in Recipient : log'[j][x] = "none"
      /\ UNCHANGED <<tally, delivered, worker, recipients, crashes, late>>
  BY DEF CommitDelete, Taken
<1>2. TypeOK'
  BY <1>1 DEF CommitDelete, IInv, TypeOK
<1>3. ASSUME NEW w \in Process
      PROVE  ProcessOK(w)'
  <2> DEFINE j == Held(w)
             n == Current(w)
             stage == worker[w].stage
  <2>1. ASSUME stage \in CoreStage
        PROVE  /\ j \in Run /\ j \in RunsOf(w) /\ job'[j] \in {"RUNNING", "deleted"}
               /\ Reached(stage, n, log'[j], delivered[j])
               /\ stage = "begin" => n = 1
               /\ stage \in {"sending", "accepted", "rejected", "counted"} => n <= Taken
               /\ worker[w].sent + worker[w].failed = IF stage = "counted" THEN n ELSE n - 1
    <3>1. InCore(w)
      BY <2>1, InCoreIsCoreStage DEF IInv
    <3>2. j \in Run /\ j \in RunsOf(w) /\ job'[j] \in {"RUNNING", "deleted"}
      BY <1>1, <3>1, CoreFacts
    <3>3. Reached(stage, n, log[j], delivered[j])
         /\ CountsAgree(stage, n, worker[w].sent, worker[w].failed, log[j])
      BY <2>1 DEF IInv, ProcessOK, Progress
    <3>4. Reached(stage, n, log'[j], delivered[j])
      BY <1>1, <3>2, <3>3 DEF Reached
    <3> QED
      BY <3>2, <3>3, <3>4 DEF CountsAgree
  <2>2. Progress(w)'
    BY <1>1, <2>1 DEF Progress, CountsAgree, Held, Current, At
  <2>3. Rested(w)'
    BY <1>1 DEF IInv, ProcessOK, Rested, Held, Current, At, Run
  <2>4. LateOnce(w)'
    BY <1>1 DEF IInv, ProcessOK, LateOnce, Late
  <2> QED
    BY <2>2, <2>3, <2>4 DEF ProcessOK
<1>4. ASSUME NEW j \in Run
      PROVE  RunOK(j)'
  <2>1. job'[j] \in {"none", "QUEUED"} => job[j] \in {"none", "QUEUED"}
    BY <1>1
  <2>2. job'[j] = "COMPLETED" => job[j] = "COMPLETED"
    BY <1>1
  <2>3. Fresh(j)'
    BY <1>1, <2>1 DEF IInv, RunOK, Fresh
  <2>4. SentOnce(j)'
    BY <1>1 DEF IInv, RunOK, SentOnce, Once
  <2>5. Accounted(j)'
    BY <1>1, <2>2 DEF IInv, RunOK, Accounted
  <2> QED
    BY <2>3, <2>4, <2>5 DEF RunOK
<1>5. Exclusive' /\ Lifetime'
  BY <1>1, Numbers DEF IInv, Exclusive, Lifetime, InCore, Held, Run
<1> QED
  BY <1>2, <1>3, <1>4, <1>5 DEF IInv

------------------------------------------------------------------------------
(* Induction *)

LEMMA InitIInv == ASSUME Init PROVE IInv
<1>1. Taken = 0
  BY Numbers DEF Init, Taken
<1>2. TypeOK
  BY <1>1, Numbers DEF Init, TypeOK, Idle, Zero
<1>3. \A w \in Process : worker[w].stage = "idle" /\ worker[w].next = 1 /\ worker[w].sent = 0 /\ worker[w].failed = 0
  BY DEF Init, Idle
<1>4. Exclusive /\ Lifetime
  BY <1>3 DEF Init, Exclusive, Lifetime, InCore
<1>5. \A w \in Process : ProcessOK(w)
  BY <1>3 DEF Init, ProcessOK, Progress, Rested, LateOnce, Late, CoreStage, At, Current, Run
<1>6. \A j \in Run : RunOK(j)
  BY DEF Init, RunOK, Fresh, SentOnce, Once, Accounted
<1> QED
  BY <1>2, <1>4, <1>5, <1>6 DEF IInv

LEMMA CoreStays ==
  ASSUME IInv, NEW w \in Process, Core(w)
  PROVE  IInv'
<1> DEFINE j == Held(w)
<1>1. InCore(w)
  BY DEF Core, Begin, SkipRecipient, LogQueued, Send, MarkSent, MarkSentThrows, MarkFailed,
         UpdateJob, Complete, Abort, At, InCore
<1>2. j \in Run
  BY <1>1, CoreFacts
<1> QED
  BY <1>2, BeginStep, SkipStep, LogQueuedStep, SendStep, MarkSentStep, MarkSentThrowsStep,
     MarkFailedStep, UpdateJobStep, CompleteStep, AbortStep DEF Core

LEMMA IInvStep == ASSUME IInv, [Next]_vars PROVE IInv'
<1>1. CASE CreateCampaign \/ CreateCampaignForClients
  <2>1. PICK noTarget \in SUBSET Nat : Record(noTarget)
    BY <1>1, RecipientsAreNumbered DEF CreateCampaign, CreateCampaignForClients
  <2>2. recipients' \in [count : 0 .. Recipients, noTarget : SUBSET Nat] /\ recipients'.count = 0
    BY <2>1, Numbers DEF Record
  <2> QED
    BY <2>1, <2>2, CampaignStep DEF Record
<1>2. CASE FinalizeCampaignCreation
  <2>1. recipients' \in [count : 0 .. Recipients, noTarget : SUBSET Nat]
    <3>1. PICK count \in Resolved : recipients' = [recipients EXCEPT !.count = count]
      BY <1>2 DEF FinalizeCampaignCreation
    <3>2. count \in 0 .. Recipients /\ recipients \in [count : 0 .. Recipients, noTarget : SUBSET Nat]
      BY Numbers DEF Resolved, IInv, TypeOK
    <3> QED
      BY <3>1, <3>2
  <2> QED
    BY <1>2, <2>1, CampaignStep DEF FinalizeCampaignCreation
<1>3. CASE \E j \in Job : Enqueue(j)
  BY <1>3, EnqueueStep
<1>4. CASE \E w \in Worker : Work(w)
  BY <1>4, PollStep, ClaimStep, ClaimLostStep, CoreStays DEF Work, Process
<1>5. CASE \E d \in Direct : Dispatch(d) \/ Core(d)
  BY <1>5, DispatchStep, CoreStays DEF Process
<1>6. CASE \E w \in Process : Crash(w)
  BY <1>6, CrashStep
<1>7. CASE CheckDelete
  BY <1>7, CheckDeleteStep
<1>8. CASE CommitDelete
  BY <1>8, CommitDeleteStep
<1>9. CASE UNCHANGED vars
  <2>1. Taken' = Taken /\ \A j, status : Logged(j, status)' = Logged(j, status)
    BY <1>9 DEF vars, Taken, Logged
  <2>2. TypeOK' /\ Exclusive' /\ Lifetime'
    BY <1>9 DEF vars, IInv, TypeOK, Taken, Exclusive, Lifetime, InCore, Held
  <2>3. ASSUME NEW w \in Process
        PROVE  ProcessOK(w)'
    BY <1>9, <2>1 DEF vars, IInv, ProcessOK, Progress, CountsAgree, Rested, LateOnce, Late, Held, Current, At
  <2>4. ASSUME NEW j \in Run
        PROVE  RunOK(j)'
    BY <1>9, <2>1 DEF vars, IInv, RunOK, Fresh, SentOnce, Accounted
  <2> QED
    BY <2>2, <2>3, <2>4 DEF IInv
<1> QED
  BY <1>1, <1>2, <1>3, <1>4, <1>5, <1>6, <1>7, <1>8, <1>9 DEF Next

LEMMA Invariance == Spec => []IInv
<1>1. Init => IInv
  BY InitIInv
<1>2. IInv /\ [Next]_vars => IInv'
  BY IInvStep
<1> QED
  BY <1>1, <1>2, PTL DEF Spec

(* Every variable keeps its type: in particular a run never takes more     *)
(* recipients than the campaign has or a run may take.                     *)
THEOREM TypeInvariant == Spec => []TypeOK
<1>1. IInv => TypeOK
  BY DEF IInv
<1> QED
  BY <1>1, Invariance, PTL

(* Whatever polls together, crashes, loses an answer or is deleted, a      *)
(* dispatch sends each recipient at most one message.                      *)
THEOREM AtMostOnce == Spec => []AtMostOncePerRun
<1>1. IInv => AtMostOncePerRun
  BY DEF IInv, RunOK, SentOnce, Once, AtMostOncePerRun
<1> QED
  BY <1>1, Invariance, PTL

(* The counts of a completed dispatch are those of its logs, and each      *)
(* recipient logged as SENT was sent the message.                          *)
THEOREM CompletedAccounted == Spec => []CompletedIsAccountedFor
<1>1. IInv => CompletedIsAccountedFor
  BY DEF IInv, RunOK, Accounted, CompletedIsAccountedFor
<1> QED
  BY <1>1, Invariance, PTL

(* A process that deleteCampaign overtakes sends at most one more message. *)
THEOREM OneLateMessage == Spec => []AtMostOneLateMessage
<1>1. IInv => AtMostOneLateMessage
  BY DEF IInv, ProcessOK, LateOnce, Late, AtMostOneLateMessage
<1> QED
  BY <1>1, Invariance, PTL

------------------------------------------------------------------------------
(* JobBoard: job j is owned by the worker in whose core it is. *)

OwnersFound ==
  \A j \in Job :
    /\ \A w \in Worker : InCore(w) /\ Held(w) = j => OwnerOf(j) = w
    /\ (\A w \in Worker : InCore(w) => Held(w) # j) => OwnerOf(j) = NoWorker

LEMMA Owners == Exclusive => OwnersFound
<1> SUFFICES ASSUME Exclusive, NEW j \in Job
             PROVE  /\ \A w \in Worker : InCore(w) /\ Held(w) = j => OwnerOf(j) = w
                    /\ (\A w \in Worker : InCore(w) => Held(w) # j) => OwnerOf(j) = NoWorker
  BY DEF OwnersFound
<1>1. ASSUME NEW w \in Worker, InCore(w), Held(w) = j
      PROVE  OwnerOf(j) = w
  <2> DEFINE v == CHOOSE v \in Worker : InCore(v) /\ Held(v) = j
  <2>1. v \in Worker /\ InCore(v) /\ Held(v) = j
    BY <1>1
  <2>2. v = w
    BY <1>1, <2>1 DEF Exclusive, Process
  <2> QED
    BY <1>1, <2>2 DEF OwnerOf
<1>2. (\A w \in Worker : InCore(w) => Held(w) # j) => OwnerOf(j) = NoWorker
  BY DEF OwnerOf
<1> QED
  BY <1>1, <1>2

LEMMA OwnersAfter == IInv /\ IInv' => OwnersFound /\ OwnersFound'
<1>1. IInv => Exclusive
  BY DEF IInv
<1> QED
  BY <1>1, Owners, PTL

LEMMA OwnerKept ==
  ASSUME OwnersFound, OwnersFound', NEW k \in Job,
         \A v \in Worker : InCore(v)' /\ Held(v)' = k <=> InCore(v) /\ Held(v) = k
  PROVE  OwnerOf(k)' = OwnerOf(k)
  BY DEF OwnersFound

LEMMA NothingMoves ==
  ASSUME IInv, IInv', \A j \in Job : job'[j] = job[j],
         \A v \in Worker : \A k \in Job : InCore(v)' /\ Held(v)' = k <=> InCore(v) /\ Held(v) = k
  PROVE  UNCHANGED Board!vars
<1>1. OwnersFound /\ OwnersFound'
  BY OwnersAfter
<1>2. \A k \in Job : OwnerOf(k)' = OwnerOf(k)
  BY <1>1, OwnerKept
<1> QED
  BY <1>2 DEF Board!vars

(* What a step of worker w does to the owners of jobs. *)
LEMMA OthersKeepOwner ==
  ASSUME IInv, IInv', NEW w \in Worker, \A v \in Worker \ {w} : worker'[v] = worker[v],
         NEW k \in Job, InCore(w) => Held(w) # k, InCore(w)' => Held(w)' # k
  PROVE  OwnerOf(k)' = OwnerOf(k)
<1>1. \A v \in Worker : InCore(v)' /\ Held(v)' = k <=> InCore(v) /\ Held(v) = k
  BY DEF InCore, Held
<1> QED
  BY <1>1, OwnersAfter, OwnerKept

(* A worker that leaves the core leaves its job without an owner. *)
LEMMA OwnerLeaves ==
  ASSUME IInv, IInv', NEW w \in Worker, NEW j \in Job, InCore(w), Held(w) = j, Rest(w)
  PROVE  /\ OwnerOf(j) = w /\ w # NoWorker
         /\ [k \in Job |-> OwnerOf(k)]' = [[k \in Job |-> OwnerOf(k)] EXCEPT ![j] = NoWorker]
<1>1. \A v \in Worker \ {w} : worker'[v] = worker[v]
  BY DEF Rest, IInv, TypeOK, Process
<1>2. ~InCore(w)'
  BY DEF Rest, Done, Idle, InCore, IInv, TypeOK, Process
<1>3. OwnersFound /\ OwnersFound'
  BY OwnersAfter
<1>4. OwnerOf(j) = w /\ w # NoWorker
  BY <1>3, NoJobIsNoJob DEF OwnersFound
<1>5. OwnerOf(j)' = NoWorker
  <2>1. \A v \in Worker : InCore(v)' => Held(v)' # j
    BY <1>1, <1>2 DEF IInv, Exclusive, InCore, Held, Process
  <2> QED
    BY <2>1, <1>3 DEF OwnersFound
<1>6. \A k \in Job : k # j => OwnerOf(k)' = OwnerOf(k)
  BY <1>1, <1>2, OthersKeepOwner
<1> QED
  BY <1>4, <1>5, <1>6

LEMMA WorkerIsProcess ==
  /\ Worker \subseteq Process /\ Direct \subseteq Process /\ Job \subseteq Run
  /\ \A w \in Worker : RunsOf(w) = Job
  /\ \A d \in Direct : d \notin Job /\ d \notin Worker /\ RunsOf(d) = {d}
  BY Numbers DEF Process, Run, RunsOf

LEMMA ClaimTakes ==
  ASSUME IInv, IInv', NEW w \in Worker, Claim(w)
  PROVE  Board!Next
<1>1. w \in Process /\ worker[w].stage = "picked" /\ At(w, "picked") /\ ~InCore(w)
  BY WorkerIsProcess DEF Claim, At, InCore
<1>j. PICK j \in Job : Held(w) = j
  BY <1>1, OutsideFacts
<1>2. j \in Run /\ job[j] = "QUEUED"
  BY <1>j, WorkerIsProcess DEF Claim
<1>3. worker' = [worker EXCEPT ![w] = State("begin", j, 1, 0, 0)]
  BY <1>1, <1>j, OutsideFacts DEF Claim
<1>4. worker'[w].stage = "begin" /\ worker'[w].job = j /\ \A v \in Worker \ {w} : worker'[v] = worker[v]
  BY <1>1, <1>3, WorkerIsProcess DEF State, IInv, TypeOK
<1>5. InCore(w)' /\ Held(w)' = j
  BY <1>4 DEF InCore, Held
<1>6. OwnersFound /\ OwnersFound'
  BY OwnersAfter
<1>7. \A k \in Job : OwnerOf(k) # w
  <2> SUFFICES ASSUME NEW k \in Job PROVE OwnerOf(k) # w
    OBVIOUS
  <2>1. CASE \E v \in Worker : InCore(v) /\ Held(v) = k
    BY <2>1, <1>1, <1>6 DEF OwnersFound
  <2>2. CASE \A v \in Worker : InCore(v) => Held(v) # k
    BY <2>2, <1>6, NoJobIsNoJob DEF OwnersFound
  <2> QED
    BY <2>1, <2>2
<1>8. OwnerOf(j)' = w
  BY <1>2, <1>5, <1>6 DEF OwnersFound
<1>9. \A k \in Job : k # j => OwnerOf(k)' = OwnerOf(k)
  BY <1>1, <1>4, <1>5, OthersKeepOwner
<1>10. \A k \in Job : job'[k] = IF k = j THEN "RUNNING" ELSE job[k]
  BY <1>2, <1>j, WorkerIsProcess DEF Claim, IInv, TypeOK
<1>11. [k \in Job |-> job[k]]' = [[k \in Job |-> job[k]] EXCEPT ![j] = "RUNNING"]
  BY <1>2, <1>10
<1>12. [k \in Job |-> OwnerOf(k)]' = [[k \in Job |-> OwnerOf(k)] EXCEPT ![j] = w]
  BY <1>2, <1>8, <1>9
<1>13. Board!Take(j, w)
  BY <1>2, <1>7, <1>11, <1>12 DEF Board!Take
<1> QED
  BY <1>2, <1>13 DEF Board!Next

LEMMA CoreEnds ==
  ASSUME IInv, IInv', NEW w \in Worker, Complete(w) \/ Abort(w)
  PROVE  Board!Next
<1> DEFINE j == Held(w)
<1>1. w \in Process /\ InCore(w) /\ Rest(w)
  BY WorkerIsProcess DEF Complete, Abort, At, InCore
<1>2. j \in Job /\ j \in Run /\ job[j] \in {"RUNNING", "deleted"}
  BY <1>1, CoreFacts, WorkerIsProcess
<1>3. /\ OwnerOf(j) # NoWorker
      /\ [k \in Job |-> OwnerOf(k)]' = [[k \in Job |-> OwnerOf(k)] EXCEPT ![j] = NoWorker]
  BY <1>1, <1>2, OwnerLeaves
<1>4. PICK outcome \in {"COMPLETED", "FAILED"} :
        \A k \in Job : job'[k] = IF k = j /\ job[j] # "deleted" THEN outcome ELSE job[k]
  <2>1. CASE Complete(w)
    BY <2>1, <1>2, WorkerIsProcess DEF Complete, RowExists, IInv, TypeOK
  <2>2. CASE Abort(w)
    BY <2>2, <1>2, WorkerIsProcess DEF Abort, RowExists, IInv, TypeOK
  <2> QED
    BY <2>1, <2>2
<1> HIDE DEF j
<1>5. Board!End(j, outcome)
  BY <1>2, <1>3, <1>4 DEF Board!End
<1> QED
  BY <1>2, <1>5 DEF Board!Next

LEMMA CrashLoses ==
  ASSUME IInv, IInv', NEW w \in Process, Crash(w)
  PROVE  Board!Next \/ UNCHANGED Board!vars
<1>1. /\ job' = job /\ Rest(w) /\ ~InCore(w)'
      /\ \A v \in Process \ {w} : worker'[v] = worker[v]
  BY DEF Crash, Rest, rows, Done, Idle, InCore, IInv, TypeOK
<1>2. CASE w \in Worker /\ InCore(w)
  <2> DEFINE j == Held(w)
  <2>1. j \in Job
    BY <1>2, CoreFacts, WorkerIsProcess
  <2>2. /\ OwnerOf(j) # NoWorker
        /\ [k \in Job |-> OwnerOf(k)]' = [[k \in Job |-> OwnerOf(k)] EXCEPT ![j] = NoWorker]
    BY <1>1, <1>2, <2>1, OwnerLeaves
  <2> HIDE DEF j
  <2>3. Board!Lose(j)
    BY <1>1, <2>1, <2>2 DEF Board!Lose
  <2> QED
    BY <2>1, <2>3 DEF Board!Next
<1>3. CASE w \notin Worker \/ ~InCore(w)
  <2>1. \A v \in Worker : \A k \in Job : InCore(v)' /\ Held(v)' = k <=> InCore(v) /\ Held(v) = k
    BY <1>1, <1>3, WorkerIsProcess DEF InCore, Held
  <2> QED
    BY <1>1, <2>1, NothingMoves
<1> QED
  BY <1>2, <1>3

LEMMA EnqueuePosts ==
  ASSUME IInv, IInv', NEW j \in Job, Enqueue(j)
  PROVE  Board!Next
<1>1. /\ worker' = worker /\ job[j] = "none"
      /\ \A k \in Job : job'[k] = IF k = j THEN "QUEUED" ELSE job[k]
  BY WorkerIsProcess DEF Enqueue, IInv, TypeOK
<1>2. \A k \in Job : OwnerOf(k)' = OwnerOf(k)
  BY <1>1, OwnersAfter, OwnerKept DEF InCore, Held
<1>3. Board!Post(j)
  BY <1>1, <1>2 DEF Board!Post
<1> QED
  BY <1>3 DEF Board!Next

LEMMA CommitDeletes ==
  ASSUME IInv, IInv', CommitDelete
  PROVE  Board!Next
<1>1. /\ worker' = worker
      /\ \A k \in Job : job'[k] = IF job[k] = "none" THEN "none" ELSE "deleted"
  BY WorkerIsProcess DEF CommitDelete
<1>2. \A k \in Job : OwnerOf(k)' = OwnerOf(k)
  BY <1>1, OwnersAfter, OwnerKept DEF InCore, Held
<1>3. Board!Delete
  BY <1>1, <1>2 DEF Board!Delete
<1> QED
  BY <1>3 DEF Board!Next

(* In every other step of the core the process keeps its run. *)
LEMMA CoreKeeps ==
  ASSUME IInv, NEW w \in Process, Core(w), ~Complete(w), ~Abort(w)
  PROVE  /\ job' = job /\ InCore(w) /\ InCore(w)' /\ Held(w)' = Held(w)
         /\ \A v \in Process \ {w} : worker'[v] = worker[v]
<1> DEFINE r == worker[w]
<1>1. PICK stage \in CoreStage \ {"begin"} :
        Move(w, stage) \/ Count(w, "sent") \/ Count(w, "failed")
          \/ worker' = [worker EXCEPT ![w].stage = "loop", ![w].next = @ + 1]
  BY DEF Core, Begin, SkipRecipient, LogQueued, Send, MarkSent, MarkSentThrows, MarkFailed, UpdateJob, CoreStage
<1>2. TypeOK
  BY DEF IInv
<1>3. PICK st \in CoreStage : \E n, s, f : worker' = [worker EXCEPT ![w] = State(st, Held(w), n, s, f)]
  BY <1>1, <1>2, Amended DEF CoreStage
<1>4. worker'[w].stage = st /\ worker'[w].job = Held(w) /\ \A v \in Process \ {w} : worker'[v] = worker[v]
  BY <1>2, <1>3 DEF TypeOK, State
<1>5. InCore(w)' /\ Held(w)' = Held(w)
  BY <1>4 DEF InCore, Held, CoreStage
<1>6. job' = job /\ InCore(w)
  BY DEF Core, Begin, SkipRecipient, LogQueued, Send, MarkSent, MarkSentThrows, MarkFailed, UpdateJob,
         rows, At, InCore
<1> QED
  BY <1>4, <1>5, <1>6

LEMMA CoreStutters ==
  ASSUME IInv, IInv', NEW w \in Process, Core(w)
  PROVE  Board!Next \/ UNCHANGED Board!vars
<1>1. CASE w \in Worker /\ (Complete(w) \/ Abort(w))
  BY <1>1, CoreEnds
<1>2. CASE ~Complete(w) /\ ~Abort(w)
  <2>1. \A v \in Worker : \A k \in Job : InCore(v)' /\ Held(v)' = k <=> InCore(v) /\ Held(v) = k
    BY <1>2, CoreKeeps, WorkerIsProcess DEF InCore, Held
  <2> QED
    BY <1>2, <2>1, CoreKeeps, NothingMoves
<1>3. CASE w \in Direct /\ (Complete(w) \/ Abort(w))
  <2>1. InCore(w)
    BY <1>3 DEF Complete, Abort, At, InCore
  <2>2. Held(w) = w /\ w \notin Job /\ w \notin Worker
    BY <1>3, <2>1, CoreFacts, WorkerIsProcess
  <2>3. \A k \in Job : job'[k] = job[k]
    BY <1>3, <2>2, WorkerIsProcess DEF Complete, Abort, IInv, TypeOK
  <2>4. \A v \in Worker : worker'[v] = worker[v]
    BY <1>3, <2>2, WorkerIsProcess DEF Complete, Abort, Rest, IInv, TypeOK
  <2> QED
    BY <2>3, <2>4, NothingMoves DEF InCore, Held
<1> QED
  BY <1>1, <1>2, <1>3 DEF Process

(* A process that is outside of the core stays outside. *)
LEMMA OutsideStutters ==
  ASSUME IInv, IInv', NEW w \in Worker, Poll(w) \/ ClaimLost(w)
  PROVE  UNCHANGED Board!vars
<1>1. job' = job /\ ~InCore(w)
  BY DEF Poll, ClaimLost, rows, At, InCore
<1>2. ~InCore(w)' /\ \A v \in Worker \ {w} : worker'[v] = worker[v]
  BY WorkerIsProcess DEF Poll, ClaimLost, Idle, InCore, IInv, TypeOK
<1>3. \A v \in Worker : \A k \in Job : InCore(v)' /\ Held(v)' = k <=> InCore(v) /\ Held(v) = k
  BY <1>1, <1>2 DEF InCore, Held
<1> QED
  BY <1>1, <1>3, NothingMoves

LEMMA DispatchStutters ==
  ASSUME IInv, IInv', NEW d \in Direct, Dispatch(d)
  PROVE  UNCHANGED Board!vars
<1>1. d \notin Job /\ d \notin Worker
  BY WorkerIsProcess
<1>2. (\A k \in Job : job'[k] = job[k]) /\ \A v \in Worker : worker'[v] = worker[v]
  BY <1>1, WorkerIsProcess DEF Dispatch, IInv, TypeOK
<1> QED
  BY <1>2, NothingMoves DEF InCore, Held

LEMMA BoardStep == IInv /\ IInv' /\ [Next]_vars => [Board!Next]_Board!vars
<1> SUFFICES ASSUME IInv, IInv', [Next]_vars
             PROVE  Board!Next \/ UNCHANGED Board!vars
  OBVIOUS
<1>1. CASE CreateCampaign \/ CreateCampaignForClients \/ FinalizeCampaignCreation \/ CheckDelete \/ UNCHANGED vars
  <2>1. job' = job /\ worker' = worker
    BY <1>1 DEF CreateCampaign, CreateCampaignForClients, Record, FinalizeCampaignCreation, CheckDelete, rows, vars
  <2> QED
    BY <2>1, NothingMoves DEF InCore, Held
<1>2. CASE \E j \in Job : Enqueue(j)
  BY <1>2, EnqueuePosts
<1>3. CASE \E w \in Worker : Work(w)
  BY <1>3, OutsideStutters, ClaimTakes, CoreStutters, WorkerIsProcess DEF Work
<1>4. CASE \E d \in Direct : Dispatch(d) \/ Core(d)
  BY <1>4, DispatchStutters, CoreStutters, WorkerIsProcess
<1>5. CASE \E w \in Process : Crash(w)
  BY <1>5, CrashLoses
<1>6. CASE CommitDelete
  BY <1>6, CommitDeletes
<1> QED
  BY <1>1, <1>2, <1>3, <1>4, <1>5, <1>6 DEF Next

LEMMA BoardInit == Init => Board!Init
<1> SUFFICES ASSUME Init PROVE Board!Init
  OBVIOUS
<1>1. OwnersFound
  BY InitIInv, Owners DEF IInv
<1>2. \A j \in Job : job[j] = "none"
  BY WorkerIsProcess DEF Init
<1>3. \A w \in Worker : ~InCore(w)
  BY WorkerIsProcess DEF Init, InCore, Idle
<1>4. \A j \in Job : OwnerOf(j) = NoWorker
  BY <1>1, <1>3 DEF OwnersFound
<1> QED
  BY <1>2, <1>4 DEF Board!Init

(* The queue keeps what JobBoard promises: a job is taken up once, by one  *)
(* worker that has no other, and only that worker ends it.                 *)
THEOREM QueueImplementsBoard == Spec => ImplementsBoard
<1>1. Init => Board!Init
  BY BoardInit
<1>2. IInv /\ IInv' /\ [Next]_vars => [Board!Next]_Board!vars
  BY BoardStep
<1> QED
  BY <1>1, <1>2, Invariance, PTL DEF Spec, ImplementsBoard, Board!Spec
==============================================================================
