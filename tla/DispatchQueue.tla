---------------------------- MODULE DispatchQueue ----------------------------
(***************************************************************************)
(* One message campaign: its creation, and the dispatches of it.  A        *)
(* request may dispatch it itself, or queue a job (messageController) that *)
(* the polling worker of a server process takes up                         *)
(* (messageDispatchQueue.js).  Either works off the campaign recipient by  *)
(* recipient (dispatchCampaignCore), while deleteCampaign may remove it.   *)
(*                                                                         *)
(* Every statement is its own transaction, so each is an action.  Workers  *)
(* and requests share nothing but the database.                            *)
(***************************************************************************)
EXTENDS Integers, FiniteSets

CONSTANTS Job,          \* 1 .. n: job ids in the order of created_at
          Worker,       \* server processes, each with its own isRunning flag
          Direct,       \* requests that dispatch the campaign themselves
          Recipients,   \* how many recipients the campaign may get
          NoTargets,    \* which of them may lack an address for the channel
          MaxPerRun,    \* MESSAGE_MAX_PER_CAMPAIGN_RUN
          MaxRuns,      \* cap on dispatches asked for, for TLC
          MaxCrashes,   \* cap on crashes, for TLC and for liveness
          NoJob, NoWorker

ASSUME JobsAreNumbered == Job \subseteq Nat
ASSUME SizesAreNat == {Recipients, MaxPerRun, MaxRuns, MaxCrashes} \subseteq Nat
ASSUME NoJobIsNoJob == NoJob \notin Job /\ NoWorker \notin Worker
ASSUME RecipientsAreNumbered == NoTargets \subseteq SUBSET Nat
ASSUME DirectIsNoJob == Direct \cap (Job \cup Worker \cup {NoJob}) = {}

VARIABLES job,       \* MessageDispatchJob.status; how a direct dispatch ended
          tally,     \* its processed, sent and failed counts
          log,       \* status of the MessageLog a run writes per recipient
          delivered, \* how often the provider took the message of that run
          worker,    \* local state of each processNextJob and each request
          campaign,  \* "none", "recorded", "there", "checked" (deleteCampaign
                     \* has looked), "gone"
          recipients,\* how many it was given, and those without an address
          crashes,   \* number of crashes so far
          late       \* messages each process sent after the campaign was gone

vars == <<job, tally, log, delivered, worker, campaign, recipients, crashes, late>>
rows == <<job, tally, log, delivered, recipients>>

Run == Job \cup Direct
Process == Worker \cup Direct

(* recipients: orderBy created_at, take maxPerRun(). *)
Taken == IF recipients.count < MaxPerRun THEN recipients.count ELSE MaxPerRun
Recipient == 1 .. Recipients

Zero == [processed |-> 0, sent |-> 0, failed |-> 0]
Idle == [stage |-> "idle", job |-> NoJob, next |-> 1, sent |-> 0, failed |-> 0]
Done == [Idle EXCEPT !.stage = "done"]

InCore(w) == worker[w].stage \notin {"idle", "picked", "done"}
At(w, stage) == worker[w].stage = stage
Held(w) == worker[w].job
Current(w) == worker[w].next
Move(w, stage) == worker' = [worker EXCEPT ![w].stage = stage]
Count(w, field) == worker' = [worker EXCEPT ![w].stage = "counted", ![w][field] = @ + 1]
Rest(w) == worker' = [worker EXCEPT ![w] = IF w \in Direct THEN Done ELSE Idle]

(* What updateJob needs.  Given no id it does nothing, so that a direct    *)
(* dispatch, which is never "deleted", always can.                         *)
RowExists(j) == job[j] \notin {"none", "deleted"}

------------------------------------------------------------------------------
(* The campaign is recorded before its recipients are: one that finds      *)
(* none, or a request that fails in between, leaves a campaign without.    *)

Record(noTarget) ==
  /\ campaign = "none"
  /\ campaign' = "recorded"
  /\ recipients' = [count |-> 0, noTarget |-> noTarget]
  /\ UNCHANGED <<job, tally, log, delivered, worker, crashes, late>>

(* createCampaign takes the recipients it is given, which may have a mail  *)
(* address where the channel wants a number.                               *)
CreateCampaign == \E noTarget \in NoTargets : Record(noTarget)

(* createCampaignFromFilter, createPromotionalCampaign look for clients.   *)
CreateCampaignForClients == Record({})

(* resolveClientsFromSelection, resolveRecipientsFromClients pass over     *)
(* clients without an address for the channel, all of them perhaps.        *)
Resolved == {0, Recipients}

(* finalizeCampaignCreation; the dispatch it may begin is one like others. *)
FinalizeCampaignCreation ==
  /\ campaign = "recorded"
  /\ campaign' = "there"
  /\ \E count \in Resolved : recipients' = [recipients EXCEPT !.count = count]
  /\ UNCHANGED <<job, tally, log, delivered, worker, crashes, late>>

(* "checked": deleteCampaign has looked, and has not deleted yet.          *)
Asking == /\ campaign \in {"there", "checked"}
          /\ Cardinality({j \in Run : job[j] # "none"}) < MaxRuns

(* dispatchCampaign in the request *)
Dispatch(d) ==
  /\ Asking
  /\ At(d, "idle")
  /\ job' = [job EXCEPT ![d] = "RUNNING"]
  /\ worker' = [worker EXCEPT ![d].stage = "begin", ![d].job = d]
  /\ UNCHANGED <<tally, log, delivered, campaign, recipients, crashes, late>>

------------------------------------------------------------------------------
(* enqueueCampaignDispatch; ids are given out in order. *)
Enqueue(j) ==
  /\ Asking
  /\ job[j] = "none"
  /\ \A k \in Job : k < j => job[k] # "none"
  /\ job' = [job EXCEPT ![j] = "QUEUED"]
  /\ UNCHANGED <<tally, log, delivered, worker, campaign, recipients, crashes, late>>

------------------------------------------------------------------------------
(* claimNextJob: find the oldest queued job, then take it if it still is. *)

(* Mutant: looks only at the oldest job of all. *)
PollOldestOfAll(w) ==
  /\ At(w, "idle")
  /\ \E j \in Job :
       /\ job[j] = "QUEUED"
       /\ \A k \in Job : job[k] # "none" => j <= k
       /\ worker' = [worker EXCEPT ![w].stage = "picked", ![w].job = j]
  /\ UNCHANGED <<rows, campaign, crashes, late>>

Poll(w) ==
  /\ At(w, "idle")
  /\ \E j \in Job :
       /\ job[j] = "QUEUED"
       /\ \A k \in Job : job[k] = "QUEUED" => j <= k
       /\ worker' = [worker EXCEPT ![w].stage = "picked", ![w].job = j]
  /\ UNCHANGED <<rows, campaign, crashes, late>>

(* Mutant: update where id, without the status. *)
ClaimUnconditionally(w) ==
  /\ At(w, "picked")
  /\ job' = [job EXCEPT ![Held(w)] = "RUNNING"]
  /\ Move(w, "begin")
  /\ UNCHANGED <<tally, log, delivered, campaign, recipients, crashes, late>>

Claim(w) ==
  /\ At(w, "picked")
  /\ job[Held(w)] = "QUEUED"
  /\ job' = [job EXCEPT ![Held(w)] = "RUNNING"]
  /\ Move(w, "begin")
  /\ UNCHANGED <<tally, log, delivered, campaign, recipients, crashes, late>>

ClaimLost(w) ==
  /\ At(w, "picked")
  /\ job[Held(w)] # "QUEUED"
  /\ worker' = [worker EXCEPT ![w] = Idle]
  /\ UNCHANGED <<rows, campaign, crashes, late>>

------------------------------------------------------------------------------
(* dispatchCampaignCore *)

(* The campaign and its recipients are read, the counters are reset. *)
Begin(w) ==
  /\ At(w, "begin")
  /\ campaign # "gone"
  /\ RowExists(Held(w))
  /\ tally' = [tally EXCEPT ![Held(w)] = Zero]
  /\ Move(w, "loop")
  /\ UNCHANGED <<job, log, delivered, campaign, recipients, crashes, late>>

(* Mutant: it is not counted at all. *)
SkipRecipientUncounted(w) ==
  /\ At(w, "loop")
  /\ Current(w) \in (1 .. Taken) \cap recipients.noTarget
  /\ Move(w, "counted")
  /\ UNCHANGED <<rows, campaign, crashes, late>>

(* A recipient without a target counts as failed and gets no log. *)
SkipRecipient(w) ==
  /\ At(w, "loop")
  /\ Current(w) \in (1 .. Taken) \cap recipients.noTarget
  /\ Count(w, "failed")
  /\ UNCHANGED <<rows, campaign, crashes, late>>

LogQueued(w) ==
  /\ At(w, "loop")
  /\ Current(w) \in (1 .. Taken) \ recipients.noTarget
  /\ campaign # "gone"
  /\ log' = [log EXCEPT ![Held(w)][Current(w)] = "QUEUED"]
  /\ Move(w, "sending")
  /\ UNCHANGED <<job, tally, delivered, campaign, recipients, crashes, late>>

(* Mutant: a send that was not answered is tried again. *)
SendRetrying(w, taken, answered) ==
  /\ At(w, "sending")
  /\ answered => taken
  /\ delivered' = [delivered EXCEPT ![Held(w)][Current(w)] = IF taken /\ @ < 2 THEN @ + 1 ELSE @]
  /\ late' = [late EXCEPT ![w] = IF taken /\ campaign = "gone" /\ @ < 2 THEN @ + 1 ELSE @]
  /\ Move(w, IF answered THEN "accepted" ELSE "sending")
  /\ UNCHANGED <<job, tally, log, campaign, recipients, crashes>>

(* The provider takes the message and says so; takes it and the answer is  *)
(* lost; or refuses it.                                                    *)
Send(w, taken, answered) ==
  /\ At(w, "sending")
  /\ answered => taken
  /\ delivered' = [delivered EXCEPT ![Held(w)][Current(w)] = IF taken THEN @ + 1 ELSE @]
  /\ late' = [late EXCEPT ![w] = IF taken /\ campaign = "gone" THEN @ + 1 ELSE @]
  /\ Move(w, IF answered THEN "accepted" ELSE "rejected")
  /\ UNCHANGED <<job, tally, log, campaign, recipients, crashes>>

MarkSent(w) ==
  /\ At(w, "accepted")
  /\ campaign # "gone"
  /\ log' = [log EXCEPT ![Held(w)][Current(w)] = "SENT"]
  /\ Count(w, "sent")
  /\ UNCHANGED <<job, tally, delivered, campaign, recipients, crashes, late>>

(* markLog throws, the row being gone or the database away: the catch      *)
(* clause is that of a failed send.                                        *)
MarkSentThrows(w) ==
  /\ At(w, "accepted")
  /\ Move(w, "rejected")
  /\ UNCHANGED <<rows, campaign, crashes, late>>

MarkFailed(w) ==
  /\ At(w, "rejected")
  /\ campaign # "gone"
  /\ log' = [log EXCEPT ![Held(w)][Current(w)] = "FAILED"]
  /\ Count(w, "failed")
  /\ UNCHANGED <<job, tally, delivered, campaign, recipients, crashes, late>>

Counts(w, processed) ==
  [processed |-> processed, sent |-> worker[w].sent, failed |-> worker[w].failed]

(* Mutant: counts the recipient that comes next. *)
UpdateJobAhead(w) ==
  /\ At(w, "counted")
  /\ RowExists(Held(w))
  /\ tally' = [tally EXCEPT ![Held(w)] = Counts(w, Current(w) + 1)]
  /\ worker' = [worker EXCEPT ![w].stage = "loop", ![w].next = @ + 1]
  /\ UNCHANGED <<job, log, delivered, campaign, recipients, crashes, late>>

(* updateJob after each recipient. *)
UpdateJob(w) ==
  /\ At(w, "counted")
  /\ RowExists(Held(w))
  /\ tally' = [tally EXCEPT ![Held(w)] = Counts(w, Current(w))]
  /\ worker' = [worker EXCEPT ![w].stage = "loop", ![w].next = @ + 1]
  /\ UNCHANGED <<job, log, delivered, campaign, recipients, crashes, late>>

Complete(w) ==
  /\ At(w, "loop")
  /\ Current(w) > Taken
  /\ RowExists(Held(w))
  /\ job' = [job EXCEPT ![Held(w)] = "COMPLETED"]
  /\ tally' = [tally EXCEPT ![Held(w)] = Counts(w, Taken)]
  /\ Rest(w)
  /\ UNCHANGED <<log, delivered, campaign, recipients, crashes, late>>

(* Mutant: a job that fails goes back to the queue. *)
AbortToQueue(w) ==
  /\ worker[w].stage \in {"begin", "loop", "rejected", "counted"}
  /\ job' = [job EXCEPT ![Held(w)] = IF RowExists(Held(w)) /\ w \in Worker THEN "QUEUED" ELSE @]
  /\ Rest(w)
  /\ UNCHANGED <<tally, log, delivered, campaign, recipients, crashes, late>>

(* Anything else that throws ends the job as FAILED, if its row is there.  *)
(* What throws while a message is being sent or marked sent is caught.     *)
Abort(w) ==
  /\ worker[w].stage \in {"begin", "loop", "rejected", "counted"}
  /\ job' = [job EXCEPT ![Held(w)] = IF RowExists(Held(w)) THEN "FAILED" ELSE @]
  /\ Rest(w)
  /\ UNCHANGED <<tally, log, delivered, campaign, recipients, crashes, late>>

(* The process dies and is started again, or the read that follows the     *)
(* claim, or the update to FAILED, fails.                                  *)
(* Nothing looks at the job it was running.                                *)
Crash(w) ==
  /\ crashes < MaxCrashes
  /\ worker[w].stage \notin {"idle", "done"}
  /\ crashes' = crashes + 1
  /\ Rest(w)
  /\ UNCHANGED <<rows, campaign, late>>

------------------------------------------------------------------------------
(* deleteCampaign looks for an unfinished job before its transaction. *)

CheckDelete ==
  /\ campaign = "there"
  /\ \A j \in Job : job[j] \notin {"QUEUED", "RUNNING"}
  /\ campaign' = "checked"
  /\ UNCHANGED <<rows, worker, crashes, late>>

CommitDelete ==
  /\ campaign = "checked"
  /\ campaign' = "gone"
  /\ job' = [j \in Run |-> IF job[j] = "none" \/ j \in Direct THEN job[j] ELSE "deleted"]
  /\ log' = [j \in Run |-> [x \in Recipient |-> "none"]]
  /\ UNCHANGED <<tally, delivered, worker, recipients, crashes, late>>

------------------------------------------------------------------------------
Init ==
  /\ job = [j \in Run |-> "none"]
  /\ tally = [j \in Run |-> Zero]
  /\ log = [j \in Run |-> [x \in Recipient |-> "none"]]
  /\ delivered = [j \in Run |-> [x \in Recipient |-> 0]]
  /\ worker = [w \in Process |-> Idle]
  /\ campaign = "none"
  /\ recipients = [count |-> 0, noTarget |-> {}]
  /\ crashes = 0
  /\ late = [w \in Process |-> 0]

Core(w) ==
  \/ Begin(w) \/ SkipRecipient(w) \/ LogQueued(w)
  \/ \E taken, answered \in BOOLEAN : Send(w, taken, answered)
  \/ MarkSent(w) \/ MarkSentThrows(w) \/ MarkFailed(w)
  \/ UpdateJob(w) \/ Complete(w) \/ Abort(w)

Work(w) == Poll(w) \/ Claim(w) \/ ClaimLost(w) \/ Core(w)

Next ==
  \/ CreateCampaign \/ CreateCampaignForClients \/ FinalizeCampaignCreation
  \/ \E j \in Job : Enqueue(j)
  \/ \E w \in Worker : Work(w)
  \/ \E d \in Direct : Dispatch(d) \/ Core(d)
  \/ \E w \in Process : Crash(w)
  \/ CheckDelete \/ CommitDelete

(* setInterval polls as long as the process runs, and every await of a run *)
(* that has begun comes back, with a value or an error: the SMTP socket    *)
(* has a timeout; the WhatsApp requests have none, and for them this says  *)
(* that the provider's connections end.                                    *)
Spec == Init /\ [][Next]_vars /\ \A w \in Worker : WF_vars(Work(w))

------------------------------------------------------------------------------
(* Every variable has its type. *)
TypeOK ==
  /\ job \in [Run -> {"none", "QUEUED", "RUNNING", "COMPLETED", "FAILED", "deleted"}]
  /\ tally \in [Run -> [processed : 0 .. Taken, sent : 0 .. Taken, failed : 0 .. Taken]]
  /\ log \in [Run -> [Recipient -> {"none", "QUEUED", "SENT", "FAILED"}]]
  /\ delivered \in [Run -> [Recipient -> Nat]]
  /\ worker \in [Process -> [stage : {"idle", "picked", "begin", "loop", "sending", "accepted",
                                      "rejected", "counted", "done"},
                             job : Run \cup {NoJob}, next : 1 .. Taken + 1,
                             sent : 0 .. Taken, failed : 0 .. Taken]]
  /\ campaign \in {"none", "recorded", "there", "checked", "gone"}
  /\ recipients \in [count : 0 .. Recipients, noTarget : SUBSET Nat]
  /\ crashes \in 0 .. MaxCrashes
  /\ late \in [Process -> Nat]

(* A dispatch, queued or direct, sends each recipient at most one message: *)
(* two processes polling together, a lost answer or a crash never make it  *)
(* send again.                                                             *)
AtMostOncePerRun == \A j \in Run, x \in Recipient : delivered[j][x] <= 1

Logged(j, status) == {x \in Recipient : log[j][x] = status}

(* The counters a completed job shows, or a direct dispatch answers, add   *)
(* up to the recipients it took; its sent count is the number of its SENT  *)
(* logs, each of which was delivered, and no log is left QUEUED.  The      *)
(* logs may since have been deleted with the campaign.                     *)
CompletedIsAccountedFor ==
  \A j \in Run : job[j] = "COMPLETED" =>
    /\ tally[j].processed = Taken /\ tally[j].sent + tally[j].failed = Taken
    /\ campaign # "gone" =>
         /\ tally[j].sent = Cardinality(Logged(j, "SENT"))
         /\ \A x \in Logged(j, "SENT") : delivered[j][x] = 1
         /\ Logged(j, "QUEUED") = {}

(* deleteCampaign may overtake a job queued after its check, and does not  *)
(* look for direct dispatches, but either then sends at most the message   *)
(* it had already logged.                                                  *)
AtMostOneLateMessage == \A w \in Process : late[w] <= 1

OwnerOf(j) ==
  IF \E w \in Worker : InCore(w) /\ Held(w) = j
  THEN CHOOSE w \in Worker : InCore(w) /\ Held(w) = j
  ELSE NoWorker

Board == INSTANCE JobBoard WITH state <- [j \in Job |-> job[j]], owner <- [j \in Job |-> OwnerOf(j)]

(* The queue keeps what JobBoard promises. *)
ImplementsBoard == Board!Spec

Abandoned(j) == job[j] = "RUNNING" /\ OwnerOf(j) = NoWorker

(* A queued job is finished or deleted in the end, unless the worker that  *)
(* ran it was lost: then it stays RUNNING, which no process ever notices.  *)
QueuedJobEnds ==
  \A j \in Job : job[j] = "QUEUED" ~>
    (job[j] \in {"COMPLETED", "FAILED", "deleted"} \/ Abandoned(j))
==============================================================================
