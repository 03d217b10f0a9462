---------------------------- MODULE Notifications -----------------------------
(***************************************************************************)
(* NotificationDeliveryService, its store, its queue and the workers that  *)
(* take jobs from it.                                                      *)
(*                                                                         *)
(* A worker suspends once, while the channel's adapter sends; processEvent *)
(* suspends after each channel it has queued; a channel it skips is a step *)
(* of its own, which changes nothing else and stays possible.  A retry     *)
(* puts the worker's job back under the next attempt number, so a job      *)
(* keeps its place in jobs; the backoff only delays when it may be taken.  *)
(***************************************************************************)
EXTENDS Naturals, Sequences, FiniteSets

CONSTANTS
  Events,          \* notification events, all of one tenant and type
  Templates,       \* the templates configured for them
  ChannelLists,    \* the lists of channels processEvent is called with
  MaxAttempts,     \* retryPolicy.maxAttempts
  MaxWorkers,      \* bound: WORKER_CONCURRENCY is at most this
  MaxEventCalls,   \* bound: calls of processEvent
  MaxJobs          \* bound: jobs that processEvent queues

ASSUME NotificationAssumption ==
  /\ MaxAttempts \in Nat \ {0} /\ MaxWorkers \in Nat \ {0} /\ MaxJobs \in Nat

VARIABLES
  deliveries,   \* the delivery record of each key that has one
  jobs,         \* the jobs that processEvent queued, in that order
  inApp,        \* the keys with an in-app notification: has it been read?
  eventCalls,   \* the calls of processEvent: event and channels still to do
  workers,      \* how many jobs may be in flight at once
  sends         \* history: per key, the jobs that an adapter accepted

noteVars == <<deliveries, jobs, inApp, eventCalls, workers, sends>>

Channels == {"email", "sms", "in-app"}

ASSUME ChannelAssumption == ChannelLists \subseteq Seq(Channels)

(* The idempotency key: event and channel.                                 *)
Key == Events \X Channels

TerminalDelivery == {"delivered", "failed", "bounced", "dead-letter"}

DeliveryStatus == {"pending", "queued", "sending"} \cup TerminalDelivery

Delivery == [status: DeliveryStatus, attempts: Nat]

Job == [key: Key, attempt: Nat, at: {"queue", "worker", "done"}]

EventCall == [event: Events, left: Seq(Channels)]

NoteInit ==
  /\ deliveries = << >> /\ jobs = << >> /\ inApp = << >> /\ eventCalls = << >>
  /\ workers \in 1..MaxWorkers
  /\ sends = [k \in Key |-> {}]

HasDelivery(k) == k \in DOMAIN deliveries

IsTerminal(k) == HasDelivery(k) /\ deliveries[k].status \in TerminalDelivery

Upsert(k, status, attempts) ==
  deliveries' = [x \in DOMAIN deliveries \cup {k} |->
                   IF x = k THEN [status |-> status, attempts |-> attempts]
                   ELSE deliveries[x]]

-----------------------------------------------------------------------------
(* processEvent.                                                           *)

(* The tenant's own active template or else the shared one; which of them
   only the wording depends on.                                            *)
ResolveTemplate(channel) ==
  \E t \in Templates : t.channel = channel /\ t.active /\ t.tenant \in {"own", "shared"}

(* An event arrives, or arrives again.                                     *)
ProcessEvent(e, channels) ==
  /\ Len(eventCalls) < MaxEventCalls
  /\ eventCalls' = Append(eventCalls, [event |-> e, left |-> channels])
  /\ UNCHANGED <<deliveries, jobs, inApp, workers, sends>>

NextChannel(c) == eventCalls' = [eventCalls EXCEPT ![c].left = Tail(@)]

(* The channel is delivered or given up, or has no template.               *)
SkipChannel(c) ==
  LET k == <<eventCalls[c].event, Head(eventCalls[c].left)>> IN
  /\ eventCalls[c].left # << >>
  /\ IsTerminal(k) \/ ~ResolveTemplate(k[2])
  /\ NextChannel(c)
  /\ UNCHANGED <<deliveries, jobs, inApp, workers, sends>>

(* Mutant: a delivery that has ended is queued again.                      *)
QueueChannel_NotIdempotent(c) ==
  LET k == <<eventCalls[c].event, Head(eventCalls[c].left)>>
      attempts == IF HasDelivery(k) THEN deliveries[k].attempts ELSE 0 IN
  /\ eventCalls[c].left # << >> /\ Len(jobs) < MaxJobs
  /\ ResolveTemplate(k[2])
  /\ Upsert(k, "queued", attempts)
  /\ jobs' = Append(jobs, [key |-> k, attempt |-> attempts + 1, at |-> "queue"])
  /\ NextChannel(c)
  /\ UNCHANGED <<inApp, workers, sends>>

(* The record is new, or that of an earlier call, with its attempts.       *)
QueueChannel(c) ==
  LET k == <<eventCalls[c].event, Head(eventCalls[c].left)>>
      attempts == IF HasDelivery(k) THEN deliveries[k].attempts ELSE 0 IN
  /\ eventCalls[c].left # << >> /\ Len(jobs) < MaxJobs
  /\ ~IsTerminal(k) /\ ResolveTemplate(k[2])
  /\ Upsert(k, "queued", attempts)
  /\ jobs' = Append(jobs, [key |-> k, attempt |-> attempts + 1, at |-> "queue"])
  /\ NextChannel(c)
  /\ UNCHANGED <<inApp, workers, sends>>

-----------------------------------------------------------------------------
(* processDeliveryJob.                                                     *)

InFlight == {j \in DOMAIN jobs : jobs[j].at = "worker"}

MoveJob(j, place) == jobs' = [jobs EXCEPT ![j].at = place]

DropJob(j) ==
  /\ jobs[j].at = "queue" /\ Cardinality(InFlight) < workers
  /\ IsTerminal(jobs[j].key)
  /\ MoveJob(j, "done")
  /\ UNCHANGED <<deliveries, inApp, eventCalls, workers, sends>>

(* The in-app adapter stores the notification, unread, before it resolves. *)
TakeJob(j) ==
  LET k == jobs[j].key IN
  /\ jobs[j].at = "queue" /\ Cardinality(InFlight) < workers
  /\ ~IsTerminal(k)
  /\ Upsert(k, "sending", jobs[j].attempt)
  /\ MoveJob(j, "worker")
  /\ inApp' = [x \in DOMAIN inApp \cup (IF k[2] = "in-app" THEN {k} ELSE {}) |->
                 IF x = k THEN FALSE ELSE inApp[x]]
  /\ UNCHANGED <<eventCalls, workers, sends>>

AdapterAccepts(j) ==
  LET k == jobs[j].key IN
  /\ jobs[j].at = "worker"
  /\ Upsert(k, "delivered", jobs[j].attempt)
  /\ MoveJob(j, "done")
  /\ sends' = [sends EXCEPT ![k] = @ \cup {j}]
  /\ UNCHANGED <<inApp, eventCalls, workers>>

Transient == {"transient", "rate-limited"}

Failures == Transient \cup {"invalid-recipient", "provider-error"}

CanRetry(j, category) == category \in Transient /\ jobs[j].attempt < MaxAttempts

(* Mutant: the job is not queued again.                                    *)
AdapterFails_Forgets(j, category) ==
  LET k == jobs[j].key IN
  /\ jobs[j].at = "worker" /\ k[2] # "in-app"
  /\ IF CanRetry(j, category)
       THEN Upsert(k, "pending", jobs[j].attempt)
       ELSE Upsert(k, "dead-letter", jobs[j].attempt)
  /\ MoveJob(j, "done")
  /\ UNCHANGED <<inApp, eventCalls, workers, sends>>

(* The in-app adapter never fails.                                         *)
AdapterFails(j, category) ==
  LET k == jobs[j].key IN
  /\ jobs[j].at = "worker" /\ k[2] # "in-app"
  /\ IF CanRetry(j, category)
       THEN /\ Upsert(k, "pending", jobs[j].attempt)
            /\ jobs' = [jobs EXCEPT ![j].at = "queue", ![j].attempt = @ + 1]
       ELSE /\ Upsert(k, IF category = "invalid-recipient" THEN "bounced" ELSE "dead-letter",
                      jobs[j].attempt)
            /\ MoveJob(j, "done")
  /\ UNCHANGED <<inApp, eventCalls, workers, sends>>

MarkAsRead(k) ==
  /\ k \in DOMAIN inApp
  /\ inApp' = [inApp EXCEPT ![k] = TRUE]
  /\ UNCHANGED <<deliveries, jobs, eventCalls, workers, sends>>

-----------------------------------------------------------------------------
Worker ==
  \E j \in DOMAIN jobs :
    \/ DropJob(j)
    \/ TakeJob(j)
    \/ AdapterAccepts(j)
    \/ \E category \in Failures : AdapterFails(j, category)

NoteNext ==
  \/ \E e \in Events, channels \in ChannelLists : ProcessEvent(e, channels)
  \/ \E c \in DOMAIN eventCalls : SkipChannel(c) \/ QueueChannel(c)
  \/ Worker
  \/ \E k \in Key : MarkAsRead(k)

NoteSpec == NoteInit /\ [][NoteNext]_noteVars

-----------------------------------------------------------------------------
(* Properties.                                                             *)

NoteTypeOK ==
  /\ DOMAIN deliveries \subseteq Key
  /\ \A k \in DOMAIN deliveries : deliveries[k] \in Delivery
  /\ jobs \in Seq(Job)
  /\ eventCalls \in Seq(EventCall)
  /\ DOMAIN inApp \subseteq Key /\ \A k \in DOMAIN inApp : inApp[k] \in BOOLEAN
  /\ workers \in 1..MaxWorkers
  /\ sends \in [Key -> SUBSET Nat]

IsOpen(j) == jobs[j].at \in {"queue", "worker"}

(* However events, retries and workers overlap, a delivery that has not ended
   has a job that is waiting or in flight: nothing polls for stranded ones. *)
NoDeliveryIsStranded ==
  \A k \in DOMAIN deliveries :
    IsTerminal(k) \/ \E j \in DOMAIN jobs : jobs[j].key = k /\ IsOpen(j)

(* "Idempotent": with the default of one worker at a time, an event that is
   processed again and again is sent once per channel, what was delivered stays
   so, and no delivery is attempted more often than the policy allows.     *)
OneWorkerSendsOnce ==
  workers = 1 =>
    \A k \in DOMAIN deliveries :
      /\ Cardinality(sends[k]) <= 1
      /\ sends[k] # {} => deliveries[k].status = "delivered"
      /\ deliveries[k].attempts <= MaxAttempts

(* "Prevents duplicate sends when reprocessing the same event."            *)
NoDuplicateSends == \A k \in Key : Cardinality(sends[k]) <= 1

(* Workers, once they run, bring every delivery to an end.                 *)
DeliveriesEnd == \A k \in Key : HasDelivery(k) ~> IsTerminal(k)

FairWorkers == WF_noteVars(Worker)
=============================================================================
