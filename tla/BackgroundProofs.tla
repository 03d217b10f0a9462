--------------------------- MODULE BackgroundProofs ---------------------------
(***************************************************************************)
(* Proofs about the three components that work behind the requests.  About *)
(* PaymentConnections for any tenants, providers, number of connections and *)
(* of checks in flight; about Notifications for any events, templates and   *)
(* lists of channels, any retry policy, and any number of calls, jobs and  *)
(* workers; about Imports for any number of artifacts, jobs, retries and   *)
(* crashes of the worker.                                                  *)
(***************************************************************************)
EXTENDS PaymentConnections, Notifications, Imports, FiniteSetTheorems, TLAPS

-----------------------------------------------------------------------------
(* Payment connections.                                                    *)

(* What a check decides: never that somebody goes on verifying. *)
LEMMA OutcomeIsDecided ==
  ASSUME NEW check
  PROVE  /\ Outcome(check) \in Status \ {"verifying"}
         /\ Outcome(check) = "active" => check.answer = "ok"
BY DEF Outcome, Status

(* A connection's status is changed; nothing else about it is. *)
LEMMA StatusSet ==
  ASSUME ConnTypeOK, NEW i \in DOMAIN conns, NEW status \in Status,
         conns' = [conns EXCEPT ![i].status = status]
  PROVE  /\ conns' \in Seq(Connection) /\ DOMAIN conns' = DOMAIN conns
         /\ conns'[i].status = status
         /\ \A j \in DOMAIN conns : j # i => conns'[j] = conns[j]
         /\ \A j \in DOMAIN conns :
              conns'[j].tenant = conns[j].tenant /\ conns'[j].provider = conns[j].provider
<1> DEFINE new == [conns[i] EXCEPT !.status = status]
<1>1. conns \in Seq(Connection) /\ conns[i] \in Connection
  BY DEF ConnTypeOK
<1>2. new \in Connection /\ new.status = status
      /\ new.tenant = conns[i].tenant /\ new.provider = conns[i].provider
  BY <1>1 DEF Connection
<1>3. conns' = [conns EXCEPT ![i] = new]
  OBVIOUS
<1> HIDE DEF new
<1>4. conns' \in Seq(Connection) /\ DOMAIN conns' = DOMAIN conns /\ conns'[i] = new
      /\ \A j \in DOMAIN conns : j # i => conns'[j] = conns[j]
  BY <1>1, <1>2, <1>3
<1> QED BY <1>2, <1>4

(* One call's entry is changed. *)
LEMMA CheckSet ==
  ASSUME ConnTypeOK, NEW k \in Checks, NEW check \in Check \cup {IdleCheck},
         checks' = [checks EXCEPT ![k] = check]
  PROVE  /\ checks' \in [Checks -> Check \cup {IdleCheck}] /\ checks'[k] = check
         /\ \A c \in Checks : c # k => checks'[c] = checks[c]
BY DEF ConnTypeOK

LEMMA BusyIsCheck ==
  ASSUME ConnTypeOK, NEW k \in Checks, checks[k] # IdleCheck
  PROVE  checks[k] \in Check /\ checks[k].conn \in DOMAIN conns
BY DEF ConnTypeOK

(* What each operation does to the statuses and to the calls in flight. *)
LEMMA Created ==
  ASSUME ConnTypeOK, NEW t \in Tenants, NEW p \in Providers, CreateConnection(t, p)
  PROVE  /\ ConnTypeOK' /\ DOMAIN conns' = DOMAIN conns \cup {Len(conns) + 1}
         /\ \A i \in DOMAIN conns : conns'[i] = conns[i]
         /\ conns'[Len(conns) + 1].status = "inactive"
         /\ UNCHANGED <<checks, vouched, retired>>
<1> DEFINE new == [tenant |-> t, provider |-> p, status |-> "inactive"]
<1>1. conns \in Seq(Connection) /\ new \in Connection
      /\ new.status = "inactive" /\ new.tenant = t /\ new.provider = p
  BY DEF ConnTypeOK, Connection, Status
<1>2. conns' = Append(conns, new) /\ UNCHANGED <<checks, vouched, retired>>
      /\ \A i \in DOMAIN conns : conns[i].tenant # t \/ conns[i].provider # p
  BY DEF CreateConnection
<1> HIDE DEF new
<1>3. /\ conns' \in Seq(Connection) /\ DOMAIN conns' = DOMAIN conns \cup {Len(conns) + 1}
      /\ \A i \in DOMAIN conns : conns'[i] = conns[i]
      /\ conns'[Len(conns) + 1] = new
  BY <1>1, <1>2
<1>4. \A i, j \in DOMAIN conns' :
        conns'[i].tenant = conns'[j].tenant /\ conns'[i].provider = conns'[j].provider => i = j
  BY <1>1, <1>2, <1>3 DEF ConnTypeOK
<1>5. ConnTypeOK'
  BY <1>2, <1>3, <1>4 DEF ConnTypeOK
<1> QED BY <1>1, <1>2, <1>3, <1>5

LEMMA VerificationStarted ==
  ASSUME ConnTypeOK, NEW k \in Checks, NEW i \in DOMAIN conns, VerifyConnection(k, i)
  PROVE  /\ ConnTypeOK' /\ DOMAIN conns' = DOMAIN conns
         /\ conns'[i].status = "verifying"
         /\ \A j \in DOMAIN conns : j # i => conns'[j] = conns[j]
         /\ checks[k] = IdleCheck
         /\ checks'[k] # IdleCheck /\ checks'[k].kind = "verify" /\ checks'[k].conn = i
         /\ \A c \in Checks : c # k => checks'[c] = checks[c]
         /\ UNCHANGED vouched
<1> DEFINE check == [kind |-> "verify", conn |-> i, answer |-> "none"]
<1>1. i \in Nat
  BY DEF ConnTypeOK
<1>2. check \in Check /\ check.kind = "verify" /\ check.conn = i
  BY <1>1 DEF Check
<1>3. check # IdleCheck
  <2>1. IdleCheck.kind = "none"
    BY DEF IdleCheck
  <2> QED BY <1>2, <2>1
<1>4. /\ conns' = [conns EXCEPT ![i].status = "verifying"]
      /\ checks' = [checks EXCEPT ![k] = check]
      /\ checks[k] = IdleCheck /\ retired' = retired \ {i} /\ UNCHANGED vouched
  BY DEF VerifyConnection
<1> HIDE DEF check
<1>5. /\ conns' \in Seq(Connection) /\ DOMAIN conns' = DOMAIN conns
      /\ conns'[i].status = "verifying"
      /\ \A j \in DOMAIN conns : j # i => conns'[j] = conns[j]
      /\ \A j \in DOMAIN conns :
           conns'[j].tenant = conns[j].tenant /\ conns'[j].provider = conns[j].provider
  <2>1. "verifying" \in Status
    BY DEF Status
  <2> QED BY <1>4, <2>1, StatusSet
<1>6. /\ checks' \in [Checks -> Check \cup {IdleCheck}] /\ checks'[k] = check
      /\ \A c \in Checks : c # k => checks'[c] = checks[c]
  BY <1>2, <1>4, CheckSet
<1>7. ConnTypeOK'
  BY <1>2, <1>4, <1>5, <1>6 DEF ConnTypeOK
<1> QED BY <1>2, <1>3, <1>4, <1>5, <1>6, <1>7

LEMMA HealthCheckStarted ==
  ASSUME ConnTypeOK, NEW k \in Checks, NEW i \in DOMAIN conns, CheckConnectionHealth(k, i)
  PROVE  /\ ConnTypeOK' /\ checks[k] = IdleCheck
         /\ \A c \in Checks : c # k => checks'[c] = checks[c]
         /\ UNCHANGED <<conns, vouched>>
<1> DEFINE check == [kind |-> "health", conn |-> i, answer |-> "none"]
<1>1. check \in Check /\ check.conn = i
  BY DEF Check, ConnTypeOK
<1>2. checks' = [checks EXCEPT ![k] = check] /\ checks[k] = IdleCheck
      /\ UNCHANGED <<conns, vouched, retired>>
  BY DEF CheckConnectionHealth
<1> HIDE DEF check
<1>3. /\ checks' \in [Checks -> Check \cup {IdleCheck}] /\ checks'[k] = check
      /\ \A c \in Checks : c # k => checks'[c] = checks[c]
  BY <1>1, <1>2, CheckSet
<1>4. ConnTypeOK'
  BY <1>1, <1>2, <1>3 DEF ConnTypeOK
<1> QED BY <1>2, <1>3, <1>4

LEMMA ProviderAnswered ==
  ASSUME ConnTypeOK, NEW k \in Checks, NEW answer \in {"ok", "bad"}, ProviderAnswers(k, answer)
  PROVE  /\ ConnTypeOK'
         /\ checks'[k] # IdleCheck /\ checks'[k].kind = checks[k].kind
         /\ checks'[k].conn = checks[k].conn
         /\ \A c \in Checks : c # k => checks'[c] = checks[c]
         /\ UNCHANGED <<conns, vouched>>
<1> DEFINE check == [checks[k] EXCEPT !.answer = answer]
<1>1. checks[k] \in Check /\ checks[k].conn \in DOMAIN conns
  BY BusyIsCheck DEF ProviderAnswers
<1>2. check \in Check /\ check.kind = checks[k].kind /\ check.conn = checks[k].conn
  BY <1>1 DEF Check
<1>3. check # IdleCheck
  <2>1. IdleCheck.kind = "none" /\ checks[k].kind # "none"
    BY <1>1 DEF IdleCheck, Check
  <2> QED BY <1>2, <2>1
<1>4. checks' = [checks EXCEPT ![k] = check] /\ UNCHANGED <<conns, vouched, retired>>
  BY DEF ProviderAnswers
<1> HIDE DEF check
<1>5. /\ checks' \in [Checks -> Check \cup {IdleCheck}] /\ checks'[k] = check
      /\ \A c \in Checks : c # k => checks'[c] = checks[c]
  BY <1>2, <1>4, CheckSet
<1>6. ConnTypeOK'
  BY <1>1, <1>2, <1>4, <1>5 DEF ConnTypeOK
<1> QED BY <1>2, <1>3, <1>4, <1>5, <1>6

LEMMA OutcomeWritten ==
  ASSUME ConnTypeOK, NEW k \in Checks, CheckReturns(k)
  PROVE  \E i \in DOMAIN conns :
           /\ ConnTypeOK' /\ DOMAIN conns' = DOMAIN conns
           /\ checks[k].conn = i
           /\ conns'[i].status # "verifying"
           /\ conns'[i].status = "active" => i \in vouched'
           /\ \A j \in DOMAIN conns : j # i => conns'[j] = conns[j]
           /\ \A j \in DOMAIN conns : j # i => (j \in vouched' <=> j \in vouched)
           /\ \A c \in Checks : c # k => checks'[c] = checks[c]
<1>1. PICK i \in DOMAIN conns : i = checks[k].conn
  BY BusyIsCheck DEF CheckReturns
<1>2. PICK status : status = Outcome(checks[k])
  OBVIOUS
<1>3. status \in Status \ {"verifying"} /\ (status = "active" => checks[k].answer = "ok")
  BY <1>2, OutcomeIsDecided
<1>4. /\ conns' = [conns EXCEPT ![i].status = status]
      /\ vouched' = IF checks[k].answer = "ok" THEN vouched \cup {i} ELSE vouched \ {i}
      /\ checks' = [checks EXCEPT ![k] = IdleCheck]
      /\ retired' = retired
  BY <1>1, <1>2 DEF CheckReturns
<1>5. /\ conns' \in Seq(Connection) /\ DOMAIN conns' = DOMAIN conns
      /\ conns'[i].status = status
      /\ \A j \in DOMAIN conns : j # i => conns'[j] = conns[j]
      /\ \A j \in DOMAIN conns :
           conns'[j].tenant = conns[j].tenant /\ conns'[j].provider = conns[j].provider
  BY <1>3, <1>4, StatusSet
<1>6. /\ checks' \in [Checks -> Check \cup {IdleCheck}] /\ checks'[k] = IdleCheck
      /\ \A c \in Checks : c # k => checks'[c] = checks[c]
  BY <1>4, CheckSet
<1>7. IdleCheck \notin Check
  BY DEF IdleCheck, Check
<1>8. vouched' \subseteq DOMAIN conns
  BY <1>4 DEF ConnTypeOK
<1>9. ConnTypeOK'
  BY <1>4, <1>5, <1>6, <1>7, <1>8 DEF ConnTypeOK
<1> QED BY <1>1, <1>3, <1>4, <1>5, <1>6, <1>9

LEMMA Deactivated ==
  ASSUME ConnTypeOK, NEW i \in DOMAIN conns, DeactivateConnection(i)
  PROVE  /\ ConnTypeOK' /\ DOMAIN conns' = DOMAIN conns
         /\ conns'[i].status = "inactive"
         /\ \A j \in DOMAIN conns : j # i => conns'[j] = conns[j]
         /\ UNCHANGED <<checks, vouched>>
<1>1. "inactive" \in Status
  BY DEF Status
<1>2. conns' = [conns EXCEPT ![i].status = "inactive"] /\ UNCHANGED <<checks, vouched>>
      /\ retired' = retired \cup {i}
  BY DEF DeactivateConnection
<1>3. /\ conns' \in Seq(Connection) /\ DOMAIN conns' = DOMAIN conns
      /\ conns'[i].status = "inactive"
      /\ \A j \in DOMAIN conns : j # i => conns'[j] = conns[j]
      /\ \A j \in DOMAIN conns :
           conns'[j].tenant = conns[j].tenant /\ conns'[j].provider = conns[j].provider
  BY <1>1, <1>2, StatusSet
<1>4. ConnTypeOK'
  BY <1>2, <1>3 DEF ConnTypeOK
<1> QED BY <1>2, <1>3, <1>4

-----------------------------------------------------------------------------
(* Connections and checks keep their types; a tenant has at most one
   connection to a provider, and a check in flight is about a connection that
   exists.                                                                 *)
THEOREM ConnectionsTypeCorrect == ConnSpec => []ConnTypeOK
<1>1. ConnInit => ConnTypeOK
  BY DEF ConnInit, ConnTypeOK, IdleCheck, Check
<1>2. ConnTypeOK /\ [ConnNext]_connVars => ConnTypeOK'
  <2> SUFFICES ASSUME ConnTypeOK, [ConnNext]_connVars
               PROVE  ConnTypeOK'
    OBVIOUS
  <2>1. CASE UNCHANGED connVars
    BY <2>1 DEF connVars, ConnTypeOK
  <2> QED BY <2>1, Created, VerificationStarted, HealthCheckStarted, ProviderAnswered,
             OutcomeWritten, Deactivated DEF ConnNext
<1> QED BY <1>1, <1>2, PTL DEF ConnSpec

(* A status "verifying" is always somebody's who awaits the answer, whatever
   else is awaited or done meanwhile (verifyConnection).                   *)
THEOREM VerifiersAreWaiting == ConnSpec => []VerifyingIsUnderWay
<1>1. ConnInit => VerifyingIsUnderWay
  BY DEF ConnInit, VerifyingIsUnderWay
<1>2. ConnTypeOK /\ VerifyingIsUnderWay /\ [ConnNext]_connVars => VerifyingIsUnderWay'
  <2> SUFFICES ASSUME ConnTypeOK, VerifyingIsUnderWay, [ConnNext]_connVars,
                      NEW j \in DOMAIN conns', conns'[j].status = "verifying"
               PROVE  \E c \in Checks : /\ checks'[c] # IdleCheck /\ checks'[c].conn = j
                                        /\ checks'[c].kind = "verify"
    BY DEF VerifyingIsUnderWay
  <2>1. CASE UNCHANGED connVars
    BY <2>1 DEF connVars, VerifyingIsUnderWay
  <2>2. ASSUME NEW t \in Tenants, NEW p \in Providers, CreateConnection(t, p)
        PROVE  \E c \in Checks : /\ checks'[c] # IdleCheck /\ checks'[c].conn = j
                                 /\ checks'[c].kind = "verify"
    BY <2>2, Created DEF VerifyingIsUnderWay
  <2>3. ASSUME NEW k \in Checks, NEW i \in DOMAIN conns, VerifyConnection(k, i)
        PROVE  \E c \in Checks : /\ checks'[c] # IdleCheck /\ checks'[c].conn = j
                                 /\ checks'[c].kind = "verify"
    BY <2>3, VerificationStarted DEF VerifyingIsUnderWay
  <2>4. ASSUME NEW k \in Checks, NEW i \in DOMAIN conns, CheckConnectionHealth(k, i)
        PROVE  \E c \in Checks : /\ checks'[c] # IdleCheck /\ checks'[c].conn = j
                                 /\ checks'[c].kind = "verify"
    BY <2>4, HealthCheckStarted DEF VerifyingIsUnderWay
  <2>5. ASSUME NEW k \in Checks, NEW a \in {"ok", "bad"}, ProviderAnswers(k, a)
        PROVE  \E c \in Checks : /\ checks'[c] # IdleCheck /\ checks'[c].conn = j
                                 /\ checks'[c].kind = "verify"
    BY <2>5, ProviderAnswered DEF VerifyingIsUnderWay
  <2>6. ASSUME NEW k \in Checks, CheckReturns(k)
        PROVE  \E c \in Checks : /\ checks'[c] # IdleCheck /\ checks'[c].conn = j
                                 /\ checks'[c].kind = "verify"
    BY <2>6, OutcomeWritten DEF VerifyingIsUnderWay
  <2>7. ASSUME NEW i \in DOMAIN conns, DeactivateConnection(i)
        PROVE  \E c \in Checks : /\ checks'[c] # IdleCheck /\ checks'[c].conn = j
                                 /\ checks'[c].kind = "verify"
    BY <2>7, Deactivated DEF VerifyingIsUnderWay
  <2> QED BY <2>1, <2>2, <2>3, <2>4, <2>5, <2>6, <2>7 DEF ConnNext
<1> QED BY <1>1, <1>2, ConnectionsTypeCorrect, PTL DEF ConnSpec

(* However late an answer comes, a connection that says "active" had the answer
   that was applied last say so (verifyConnection, checkConnectionHealth).  *)
THEOREM ActiveHasItsVoucher == ConnSpec => []ActiveIsVouchedFor
<1>1. ConnInit => ActiveIsVouchedFor
  BY DEF ConnInit, ActiveIsVouchedFor
<1>2. ConnTypeOK /\ ActiveIsVouchedFor /\ [ConnNext]_connVars => ActiveIsVouchedFor'
  <2> SUFFICES ASSUME ConnTypeOK, ActiveIsVouchedFor, [ConnNext]_connVars,
                      NEW j \in DOMAIN conns', conns'[j].status = "active"
               PROVE  j \in vouched'
    BY DEF ActiveIsVouchedFor
  <2>1. CASE UNCHANGED connVars
    BY <2>1 DEF connVars, ActiveIsVouchedFor
  <2>2. ASSUME NEW t \in Tenants, NEW p \in Providers, CreateConnection(t, p)
        PROVE  j \in vouched'
    BY <2>2, Created DEF ActiveIsVouchedFor
  <2>3. ASSUME NEW k \in Checks, NEW i \in DOMAIN conns, VerifyConnection(k, i)
        PROVE  j \in vouched'
    BY <2>3, VerificationStarted DEF ActiveIsVouchedFor
  <2>4. ASSUME NEW k \in Checks, NEW i \in DOMAIN conns, CheckConnectionHealth(k, i)
        PROVE  j \in vouched'
    BY <2>4, HealthCheckStarted DEF ActiveIsVouchedFor
  <2>5. ASSUME NEW k \in Checks, NEW a \in {"ok", "bad"}, ProviderAnswers(k, a)
        PROVE  j \in vouched'
    BY <2>5, ProviderAnswered DEF ActiveIsVouchedFor
  <2>6. ASSUME NEW k \in Checks, CheckReturns(k)
        PROVE  j \in vouched'
    BY <2>6, OutcomeWritten DEF ActiveIsVouchedFor
  <2>7. ASSUME NEW i \in DOMAIN conns, DeactivateConnection(i)
        PROVE  j \in vouched'
    BY <2>7, Deactivated DEF ActiveIsVouchedFor
  <2> QED BY <2>1, <2>2, <2>3, <2>4, <2>5, <2>6, <2>7 DEF ConnNext
<1> QED BY <1>1, <1>2, ConnectionsTypeCorrect, PTL DEF ConnSpec

-----------------------------------------------------------------------------
(* Notifications.                                                          *)

(* A delivery record is written; the others are left alone. *)
Recorded(k, status, attempts) ==
  /\ DOMAIN deliveries' = DOMAIN deliveries \cup {k}
  /\ deliveries'[k] = [status |-> status, attempts |-> attempts]
  /\ \A x \in DOMAIN deliveries : x # k => deliveries'[x] = deliveries[x]

LEMMA UpsertRecords ==
  ASSUME NEW k, NEW status, NEW attempts, Upsert(k, status, attempts)
  PROVE  Recorded(k, status, attempts)
BY DEF Upsert, Recorded

LEMMA RecordedType ==
  ASSUME NoteTypeOK, NEW k \in Key, NEW status \in DeliveryStatus, NEW attempts \in Nat,
         Recorded(k, status, attempts)
  PROVE  /\ DOMAIN deliveries' \subseteq Key
         /\ \A x \in DOMAIN deliveries' : deliveries'[x] \in Delivery
BY DEF NoteTypeOK, Recorded, Delivery

(* One job is replaced by another form of it, or a new one is put last. *)
SendBecomes(j, new) ==
  /\ DOMAIN jobs' = DOMAIN jobs /\ jobs'[j] = new
  /\ \A i \in DOMAIN jobs : i # j => jobs'[i] = jobs[i]

JobAdded(new) ==
  /\ DOMAIN jobs' = DOMAIN jobs \cup {Len(jobs) + 1} /\ jobs'[Len(jobs) + 1] = new
  /\ Len(jobs) + 1 \notin DOMAIN jobs
  /\ \A i \in DOMAIN jobs : jobs'[i] = jobs[i]

LEMMA SendReplaced ==
  ASSUME NoteTypeOK, NEW j \in DOMAIN jobs, NEW new \in Job, jobs' = [jobs EXCEPT ![j] = new]
  PROVE  jobs' \in Seq(Job) /\ SendBecomes(j, new)
BY DEF NoteTypeOK, SendBecomes

LEMMA JobAppended ==
  ASSUME NoteTypeOK, NEW new \in Job, jobs' = Append(jobs, new)
  PROVE  jobs' \in Seq(Job) /\ JobAdded(new)
BY DEF NoteTypeOK, JobAdded

LEMMA JobMoved ==
  ASSUME NoteTypeOK, NEW j \in DOMAIN jobs, NEW place \in {"queue", "worker", "done"},
         MoveJob(j, place)
  PROVE  \E new \in Job : /\ new.key = jobs[j].key /\ new.attempt = jobs[j].attempt
                          /\ new.at = place
                          /\ jobs' \in Seq(Job) /\ SendBecomes(j, new)
<1> DEFINE new == [jobs[j] EXCEPT !.at = place]
<1>1. jobs[j] \in Job
  BY DEF NoteTypeOK
<1>2. new \in Job /\ new.key = jobs[j].key /\ new.attempt = jobs[j].attempt /\ new.at = place
  BY <1>1 DEF Job
<1>3. jobs' = [jobs EXCEPT ![j] = new]
  BY DEF MoveJob
<1> HIDE DEF new
<1> QED BY <1>2, <1>3, SendReplaced

LEMMA SendIsTyped ==
  ASSUME NoteTypeOK, NEW j \in DOMAIN jobs
  PROVE  jobs[j] \in Job /\ jobs[j].key \in Key /\ jobs[j].attempt \in Nat
<1>1. jobs[j] \in Job
  BY DEF NoteTypeOK
<1> QED BY <1>1 DEF Job

(* The channel a call looks at next belongs to a key. *)
LEMMA NextKey ==
  ASSUME NoteTypeOK, NEW c \in DOMAIN eventCalls, eventCalls[c].left # << >>
  PROVE  <<eventCalls[c].event, Head(eventCalls[c].left)>> \in Key
<1>1. eventCalls[c] \in EventCall
  BY DEF NoteTypeOK
<1>2. eventCalls[c].event \in Events /\ Head(eventCalls[c].left) \in Channels
  BY <1>1 DEF EventCall
<1> QED BY <1>2 DEF Key

LEMMA ChannelDone ==
  ASSUME NoteTypeOK, NEW c \in DOMAIN eventCalls, eventCalls[c].left # << >>, NextChannel(c)
  PROVE  eventCalls' \in Seq(EventCall)
<1> DEFINE new == [eventCalls[c] EXCEPT !.left = Tail(eventCalls[c].left)]
<1>1. eventCalls \in Seq(EventCall) /\ eventCalls[c] \in EventCall
  BY DEF NoteTypeOK
<1>2. Tail(eventCalls[c].left) \in Seq(Channels)
  BY <1>1 DEF EventCall
<1>3. new \in EventCall
  BY <1>1, <1>2 DEF EventCall
<1>4. eventCalls' = [eventCalls EXCEPT ![c] = new]
  BY DEF NextChannel
<1> HIDE DEF new
<1> QED BY <1>1, <1>3, <1>4

-----------------------------------------------------------------------------
(* What each step does to records, jobs and sends.                         *)

LEMMA EventArrived ==
  ASSUME NoteTypeOK, NEW e \in Events, NEW channels \in ChannelLists, ProcessEvent(e, channels)
  PROVE  NoteTypeOK' /\ UNCHANGED <<deliveries, jobs, workers, sends>>
<1> DEFINE call == [event |-> e, left |-> channels]
<1>1. call \in EventCall /\ eventCalls \in Seq(EventCall)
  BY ChannelAssumption DEF EventCall, NoteTypeOK
<1>2. eventCalls' = Append(eventCalls, call)
      /\ UNCHANGED <<deliveries, jobs, inApp, workers, sends>>
  BY DEF ProcessEvent
<1> HIDE DEF call
<1>3. eventCalls' \in Seq(EventCall)
  BY <1>1, <1>2
<1> QED BY <1>2, <1>3 DEF NoteTypeOK

LEMMA ChannelSkipped ==
  ASSUME NoteTypeOK, NEW c \in DOMAIN eventCalls, SkipChannel(c)
  PROVE  NoteTypeOK' /\ UNCHANGED <<deliveries, jobs, workers, sends>>
<1>1. eventCalls' \in Seq(EventCall)
  BY ChannelDone DEF SkipChannel
<1> QED BY <1>1 DEF NoteTypeOK, SkipChannel

LEMMA ChannelQueued ==
  ASSUME NoteTypeOK, NEW c \in DOMAIN eventCalls, QueueChannel(c)
  PROVE  \E k \in Key, attempts \in Nat :
           /\ NoteTypeOK' /\ ~IsTerminal(k)
           /\ attempts = IF HasDelivery(k) THEN deliveries[k].attempts ELSE 0
           /\ Recorded(k, "queued", attempts)
           /\ JobAdded([key |-> k, attempt |-> attempts + 1, at |-> "queue"])
           /\ UNCHANGED <<workers, sends>>
<1>1. PICK k : k = <<eventCalls[c].event, Head(eventCalls[c].left)>>
  OBVIOUS
<1>2. PICK attempts : attempts = IF HasDelivery(k) THEN deliveries[k].attempts ELSE 0
  OBVIOUS
<1>3. k \in Key /\ attempts \in Nat
  BY <1>1, <1>2, NextKey DEF QueueChannel, NoteTypeOK, HasDelivery, Delivery
<1>4. /\ Upsert(k, "queued", attempts)
      /\ jobs' = Append(jobs, [key |-> k, attempt |-> attempts + 1, at |-> "queue"])
      /\ ~IsTerminal(k) /\ UNCHANGED <<inApp, workers, sends>>
  BY <1>1, <1>2 DEF QueueChannel
<1>5. [key |-> k, attempt |-> attempts + 1, at |-> "queue"] \in Job
  BY <1>3 DEF Job
<1>6. /\ jobs' \in Seq(Job)
      /\ JobAdded([key |-> k, attempt |-> attempts + 1, at |-> "queue"])
  BY <1>4, <1>5, JobAppended
<1>7. Recorded(k, "queued", attempts)
  BY <1>4, UpsertRecords
<1>8. "queued" \in DeliveryStatus
  BY DEF DeliveryStatus
<1>9. /\ DOMAIN deliveries' \subseteq Key
      /\ \A x \in DOMAIN deliveries' : deliveries'[x] \in Delivery
  BY <1>3, <1>7, <1>8, RecordedType
<1>10. eventCalls' \in Seq(EventCall)
  BY ChannelDone DEF QueueChannel
<1>11. NoteTypeOK'
  BY <1>4, <1>6, <1>9, <1>10 DEF NoteTypeOK
<1> QED BY <1>2, <1>3, <1>4, <1>6, <1>7, <1>11

LEMMA JobDropped ==
  ASSUME NoteTypeOK, NEW j \in DOMAIN jobs, DropJob(j)
  PROVE  \E new \in Job :
           /\ NoteTypeOK' /\ new.key = jobs[j].key /\ new.at = "done" /\ SendBecomes(j, new)
           /\ jobs[j].at = "queue" /\ IsTerminal(jobs[j].key)
           /\ UNCHANGED <<deliveries, workers, sends>>
<1>1. PICK new \in Job : /\ new.key = jobs[j].key /\ new.at = "done"
                         /\ jobs' \in Seq(Job) /\ SendBecomes(j, new)
  BY JobMoved DEF DropJob
<1> QED BY <1>1 DEF DropJob, NoteTypeOK

LEMMA JobTaken ==
  ASSUME NoteTypeOK, NEW j \in DOMAIN jobs, TakeJob(j)
  PROVE  \E new \in Job, k \in Key :
           /\ NoteTypeOK' /\ k = jobs[j].key /\ ~IsTerminal(k)
           /\ new.key = k /\ new.attempt = jobs[j].attempt
           /\ new.at = "worker" /\ SendBecomes(j, new)
           /\ jobs[j].at = "queue" /\ Cardinality(InFlight) < workers
           /\ Recorded(k, "sending", jobs[j].attempt)
           /\ UNCHANGED <<workers, sends>>
<1>1. PICK k \in Key : k = jobs[j].key
  BY SendIsTyped
<1>2. PICK new \in Job : /\ new.key = k /\ new.attempt = jobs[j].attempt /\ new.at = "worker"
                         /\ jobs' \in Seq(Job) /\ SendBecomes(j, new)
  BY <1>1, JobMoved DEF TakeJob
<1>3. /\ Upsert(k, "sending", jobs[j].attempt) /\ ~IsTerminal(k)
      /\ jobs[j].at = "queue" /\ Cardinality(InFlight) < workers
      /\ UNCHANGED <<eventCalls, workers, sends>>
      /\ inApp' = [x \in DOMAIN inApp \cup (IF k[2] = "in-app" THEN {k} ELSE {}) |->
                     IF x = k THEN FALSE ELSE inApp[x]]
  BY <1>1 DEF TakeJob
<1>4. Recorded(k, "sending", jobs[j].attempt)
  BY <1>3, UpsertRecords
<1>5. "sending" \in DeliveryStatus
  BY DEF DeliveryStatus
<1>6. /\ DOMAIN deliveries' \subseteq Key
      /\ \A x \in DOMAIN deliveries' : deliveries'[x] \in Delivery
  BY <1>4, <1>5, SendIsTyped, RecordedType
<1>7. DOMAIN inApp' \subseteq Key /\ \A x \in DOMAIN inApp' : inApp'[x] \in BOOLEAN
  BY <1>3 DEF NoteTypeOK
<1>8. NoteTypeOK'
  BY <1>2, <1>3, <1>6, <1>7 DEF NoteTypeOK
<1> QED BY <1>1, <1>2, <1>3, <1>4, <1>8

LEMMA JobSent ==
  ASSUME NoteTypeOK, NEW j \in DOMAIN jobs, AdapterAccepts(j)
  PROVE  \E new \in Job, k \in Key :
           /\ NoteTypeOK' /\ k = jobs[j].key
           /\ new.key = k /\ new.at = "done" /\ SendBecomes(j, new)
           /\ jobs[j].at = "worker"
           /\ Recorded(k, "delivered", jobs[j].attempt)
           /\ sends' = [sends EXCEPT ![k] = sends[k] \cup {j}]
           /\ UNCHANGED workers
<1>1. PICK k \in Key : k = jobs[j].key
  BY SendIsTyped
<1>2. PICK new \in Job : /\ new.key = k /\ new.at = "done"
                         /\ jobs' \in Seq(Job) /\ SendBecomes(j, new)
  BY <1>1, JobMoved DEF AdapterAccepts
<1>3. /\ Upsert(k, "delivered", jobs[j].attempt) /\ jobs[j].at = "worker"
      /\ sends' = [sends EXCEPT ![k] = sends[k] \cup {j}]
      /\ UNCHANGED <<inApp, eventCalls, workers>>
  BY <1>1 DEF AdapterAccepts
<1>4. Recorded(k, "delivered", jobs[j].attempt)
  BY <1>3, UpsertRecords
<1>5. "delivered" \in DeliveryStatus
  BY DEF DeliveryStatus, TerminalDelivery
<1>6. /\ DOMAIN deliveries' \subseteq Key
      /\ \A x \in DOMAIN deliveries' : deliveries'[x] \in Delivery
  BY <1>4, <1>5, SendIsTyped, RecordedType
<1>7. sends' \in [Key -> SUBSET Nat]
  <2>1. j \in Nat /\ sends \in [Key -> SUBSET Nat]
    BY DEF NoteTypeOK
  <2> QED BY <1>3, <2>1
<1>8. NoteTypeOK'
  BY <1>2, <1>3, <1>6, <1>7 DEF NoteTypeOK
<1> QED BY <1>1, <1>2, <1>3, <1>4, <1>8

LEMMA JobFailed ==
  ASSUME NoteTypeOK, NEW j \in DOMAIN jobs, NEW category \in Failures, AdapterFails(j, category)
  PROVE  \E new \in Job, k \in Key, status \in DeliveryStatus :
           /\ NoteTypeOK' /\ k = jobs[j].key
           /\ new.key = k /\ SendBecomes(j, new)
           /\ jobs[j].at = "worker"
           /\ Recorded(k, status, jobs[j].attempt)
           /\ \/ /\ jobs[j].attempt < MaxAttempts /\ status = "pending"
                 /\ new.at = "queue" /\ new.attempt = jobs[j].attempt + 1
              \/ status \in TerminalDelivery /\ new.at = "done"
           /\ UNCHANGED <<workers, sends>>
<1>1. PICK k \in Key : k = jobs[j].key
  BY SendIsTyped
<1>2. PICK status \in DeliveryStatus, new \in Job :
        /\ Upsert(k, status, jobs[j].attempt)
        /\ new.key = k /\ jobs' \in Seq(Job) /\ SendBecomes(j, new)
        /\ \/ /\ jobs[j].attempt < MaxAttempts /\ status = "pending"
              /\ new.at = "queue" /\ new.attempt = jobs[j].attempt + 1
           \/ status \in TerminalDelivery /\ new.at = "done"
  <2>1. CASE CanRetry(j, category)
    <3> DEFINE new == [jobs[j] EXCEPT !.at = "queue", !.attempt = jobs[j].attempt + 1]
    <3>1. new \in Job /\ new.key = k /\ new.at = "queue" /\ new.attempt = jobs[j].attempt + 1
      <4>1. jobs[j] \in Job /\ jobs[j].attempt + 1 \in Nat
        BY SendIsTyped
      <4>2. new.key = k /\ new.at = "queue" /\ new.attempt = jobs[j].attempt + 1
        BY <1>1, <4>1 DEF Job
      <4>3. new \in Job
        BY <4>1 DEF Job
      <4> QED BY <4>2, <4>3
    <3>2. jobs' = [jobs EXCEPT ![j] = new] /\ Upsert(k, "pending", jobs[j].attempt)
          /\ jobs[j].attempt < MaxAttempts
      BY <1>1, <2>1 DEF AdapterFails, CanRetry
    <3> HIDE DEF new
    <3>3. jobs' \in Seq(Job) /\ SendBecomes(j, new) /\ "pending" \in DeliveryStatus
      BY <3>1, <3>2, SendReplaced DEF DeliveryStatus
    <3> QED BY <3>1, <3>2, <3>3
  <2>2. CASE ~CanRetry(j, category)
    <3>1. PICK status \in {"bounced", "dead-letter"} : Upsert(k, status, jobs[j].attempt)
      <4>1. Upsert(k, IF category = "invalid-recipient" THEN "bounced" ELSE "dead-letter",
                   jobs[j].attempt)
        BY <1>1, <2>2 DEF AdapterFails
      <4>2. CASE category = "invalid-recipient"
        BY <4>1, <4>2
      <4>3. CASE category # "invalid-recipient"
        BY <4>1, <4>3
      <4> QED BY <4>2, <4>3
    <3>2. MoveJob(j, "done")
      BY <2>2 DEF AdapterFails
    <3>3. PICK new \in Job : /\ new.key = k /\ new.at = "done"
                             /\ jobs' \in Seq(Job) /\ SendBecomes(j, new)
      BY <1>1, <3>2, JobMoved
    <3>4. status \in TerminalDelivery /\ status \in DeliveryStatus
      BY DEF TerminalDelivery, DeliveryStatus
    <3> QED BY <3>1, <3>3, <3>4
  <2> QED BY <2>1, <2>2
<1>3. jobs[j].at = "worker" /\ UNCHANGED <<inApp, eventCalls, workers, sends>>
  BY DEF AdapterFails
<1>4. Recorded(k, status, jobs[j].attempt)
  BY <1>2, UpsertRecords
<1>5. /\ DOMAIN deliveries' \subseteq Key
      /\ \A x \in DOMAIN deliveries' : deliveries'[x] \in Delivery
  BY <1>4, SendIsTyped, RecordedType
<1>6. NoteTypeOK'
  BY <1>2, <1>3, <1>5 DEF NoteTypeOK
<1> QED BY <1>1, <1>2, <1>3, <1>4, <1>6

LEMMA NoteRead ==
  ASSUME NoteTypeOK, NEW k \in Key, MarkAsRead(k)
  PROVE  NoteTypeOK' /\ UNCHANGED <<deliveries, jobs, workers, sends>>
BY DEF NoteTypeOK, MarkAsRead

-----------------------------------------------------------------------------
(* Records, jobs, calls, in-app notifications and histories keep their types. *)
THEOREM NotificationsTypeCorrect == NoteSpec => []NoteTypeOK
<1>1. NoteInit => NoteTypeOK
  BY NotificationAssumption DEF NoteInit, NoteTypeOK
<1>2. NoteTypeOK /\ [NoteNext]_noteVars => NoteTypeOK'
  <2> SUFFICES ASSUME NoteTypeOK, [NoteNext]_noteVars
               PROVE  NoteTypeOK'
    OBVIOUS
  <2>1. CASE UNCHANGED noteVars
    BY <2>1 DEF noteVars, NoteTypeOK
  <2>2. CASE Worker
    BY <2>2, JobDropped, JobTaken, JobSent, JobFailed DEF Worker
  <2> QED BY <2>1, <2>2, EventArrived, ChannelSkipped, ChannelQueued, NoteRead DEF NoteNext
<1> QED BY <1>1, <1>2, PTL DEF NoteSpec

-----------------------------------------------------------------------------
(* No delivery is stranded.                                                *)

LEMMA RecordedEnds ==
  ASSUME NEW k, NEW status, NEW attempts, Recorded(k, status, attempts)
  PROVE  /\ IsTerminal(k)' <=> status \in TerminalDelivery
         /\ \A x \in DOMAIN deliveries : x # k => (IsTerminal(x)' <=> IsTerminal(x))
BY DEF Recorded, IsTerminal, HasDelivery

(* However events, retries and workers overlap, a delivery that has not ended
   has an open job: a job that leaves the queue or the worker for good leaves
   an ended delivery behind (processDeliveryJob, handleDeliveryFailure).   *)
THEOREM DeliveriesHaveJobs == NoteSpec => []NoDeliveryIsStranded
<1>1. NoteInit => NoDeliveryIsStranded
  BY DEF NoteInit, NoDeliveryIsStranded
<1>2. NoteTypeOK /\ NoDeliveryIsStranded /\ [NoteNext]_noteVars => NoDeliveryIsStranded'
  <2> SUFFICES ASSUME NoteTypeOK, NoDeliveryIsStranded, [NoteNext]_noteVars,
                      NEW x \in DOMAIN deliveries'
               PROVE  IsTerminal(x)' \/ \E j \in DOMAIN jobs' : /\ jobs'[j].key = x
                                                                /\ jobs'[j].at \in {"queue", "worker"}
    BY DEF NoDeliveryIsStranded, IsOpen
  <2> DEFINE Goal == IsTerminal(x)' \/ \E j \in DOMAIN jobs' :
                       jobs'[j].key = x /\ jobs'[j].at \in {"queue", "worker"}
  <2>1. CASE UNCHANGED <<deliveries, jobs>>
    BY <2>1 DEF NoDeliveryIsStranded, IsTerminal, HasDelivery, IsOpen
  <2>2. ASSUME NEW c \in DOMAIN eventCalls, QueueChannel(c) PROVE Goal
    <3>1. PICK k \in Key, attempts \in Nat :
            /\ Recorded(k, "queued", attempts)
            /\ JobAdded([key |-> k, attempt |-> attempts + 1, at |-> "queue"])
      BY <2>2, ChannelQueued
    <3>2. CASE x = k
      BY <3>1, <3>2 DEF JobAdded
    <3>3. CASE x # k
      <4>1. x \in DOMAIN deliveries /\ (IsTerminal(x)' <=> IsTerminal(x))
        BY <3>1, <3>3, RecordedEnds DEF Recorded
      <4> QED BY <3>1, <4>1 DEF JobAdded, NoDeliveryIsStranded, IsOpen
    <3> QED BY <3>2, <3>3
  <2>3. ASSUME NEW j \in DOMAIN jobs, DropJob(j) PROVE Goal
    <3>1. PICK new \in Job : /\ new.key = jobs[j].key /\ SendBecomes(j, new)
                             /\ IsTerminal(jobs[j].key) /\ UNCHANGED deliveries
      BY <2>3, JobDropped
    <3>2. IsTerminal(x)' <=> IsTerminal(x)
      BY <3>1 DEF IsTerminal, HasDelivery
    <3>3. x \in DOMAIN deliveries
      BY <3>1
    <3> QED BY <3>1, <3>2, <3>3 DEF SendBecomes, NoDeliveryIsStranded, IsOpen
  <2>4. ASSUME NEW j \in DOMAIN jobs, NEW k, NEW status, NEW new,
               k = jobs[j].key, new.key = k, SendBecomes(j, new),
               Recorded(k, status, jobs[j].attempt),
               status \in TerminalDelivery \/ new.at \in {"queue", "worker"}
        PROVE  Goal
    <3>1. CASE x = k
      BY <2>4, <3>1, RecordedEnds DEF SendBecomes
    <3>2. CASE x # k
      <4>1. x \in DOMAIN deliveries /\ (IsTerminal(x)' <=> IsTerminal(x))
        BY <2>4, <3>2, RecordedEnds DEF Recorded
      <4> QED BY <2>4, <3>2, <4>1 DEF SendBecomes, NoDeliveryIsStranded, IsOpen
    <3> QED BY <3>1, <3>2
  <2>5. ASSUME NEW j \in DOMAIN jobs, TakeJob(j) PROVE Goal
    BY <2>4, <2>5, JobTaken
  <2>6. ASSUME NEW j \in DOMAIN jobs, AdapterAccepts(j) PROVE Goal
    <3>1. "delivered" \in TerminalDelivery
      BY DEF TerminalDelivery
    <3> QED BY <2>4, <2>6, <3>1, JobSent
  <2>7. ASSUME NEW j \in DOMAIN jobs, NEW category \in Failures, AdapterFails(j, category)
        PROVE  Goal
    BY <2>4, <2>7, JobFailed
  <2>8. CASE Worker
    BY <2>3, <2>5, <2>6, <2>7, <2>8 DEF Worker
  <2> QED BY <2>1, <2>2, <2>8, EventArrived, ChannelSkipped, NoteRead DEF NoteNext, noteVars
<1> QED BY <1>1, <1>2, NotificationsTypeCorrect, PTL DEF NoteSpec

-----------------------------------------------------------------------------
(* One worker at a time sends once.                                        *)

OneAtATime == \A i, j \in InFlight : i = j

(* The job in flight is the latest its record knows of. *)
FlightIsRecorded ==
  \A j \in InFlight :
    LET k == jobs[j].key
    IN  /\ HasDelivery(k) /\ ~IsTerminal(k)
        /\ deliveries[k].attempts = jobs[j].attempt /\ jobs[j].attempt <= MaxAttempts

SendsAreFinal ==
  \A k \in Key :
    sends[k] # {} => /\ HasDelivery(k) /\ deliveries[k].status = "delivered"
                     /\ \E j : sends[k] = {j}

(* Only while the last attempt is in flight has a record used them all up and
   not ended.                                                              *)
RecordsAreBounded ==
  \A k \in DOMAIN deliveries :
    /\ deliveries[k].attempts <= MaxAttempts
    /\ ~IsTerminal(k) /\ deliveries[k].attempts = MaxAttempts =>
         \E j \in InFlight : jobs[j].key = k

(* An event that is processed again meanwhile queues one attempt too many; it
   will be dropped.                                                        *)
QueueIsBounded ==
  \A j \in DOMAIN jobs :
    LET k == jobs[j].key
    IN  /\ HasDelivery(k)
        /\ jobs[j].at = "queue" =>
             /\ jobs[j].attempt <= MaxAttempts + 1
             /\ jobs[j].attempt = MaxAttempts + 1 /\ ~IsTerminal(k) =>
                  deliveries[k].attempts = MaxAttempts

OneWorkerInv ==
  workers = 1 => /\ OneAtATime /\ FlightIsRecorded /\ SendsAreFinal
                 /\ RecordsAreBounded /\ QueueIsBounded

LEMMA InFlightBecomes ==
  ASSUME NEW j \in DOMAIN jobs, NEW new, SendBecomes(j, new)
  PROVE  \A i : i \in InFlight' <=> IF i = j THEN new.at = "worker" ELSE i \in InFlight
BY DEF SendBecomes, InFlight

LEMMA NothingInFlight ==
  ASSUME NoteTypeOK, Cardinality(InFlight) < 1
  PROVE  InFlight = {}
<1>1. Len(jobs) \in Nat /\ DOMAIN jobs = 1..Len(jobs)
  BY DEF NoteTypeOK
<1>2. IsFiniteSet(1..Len(jobs))
  BY <1>1, FS_Interval
<1>3. InFlight \in SUBSET (1..Len(jobs))
  BY <1>1 DEF InFlight
<1>4. IsFiniteSet(InFlight)
  BY <1>2, <1>3, FS_Subset
<1>5. Cardinality(InFlight) \in Nat
  BY <1>4, FS_CardinalityType
<1>6. Cardinality(InFlight) = 0
  BY <1>5
<1> QED BY <1>4, <1>6, FS_EmptySet

(* A channel is queued. *)
LEMMA QueuedOnce ==
  ASSUME NoteTypeOK, OneWorkerInv, workers = 1, NEW c \in DOMAIN eventCalls, QueueChannel(c)
  PROVE  OneWorkerInv'
<1>1. PICK k \in Key, attempts \in Nat :
        /\ ~IsTerminal(k)
        /\ attempts = IF HasDelivery(k) THEN deliveries[k].attempts ELSE 0
        /\ Recorded(k, "queued", attempts)
        /\ JobAdded([key |-> k, attempt |-> attempts + 1, at |-> "queue"])
        /\ UNCHANGED <<workers, sends>>
  BY ChannelQueued
<1> USE NotificationAssumption
<1>2. /\ \A i : i \in InFlight' <=> i \in InFlight
      /\ \A i \in InFlight : jobs'[i] = jobs[i] /\ i \in DOMAIN jobs
  BY <1>1 DEF JobAdded, InFlight
<1>3. ~IsTerminal(k)' /\ \A x \in DOMAIN deliveries : x # k => (IsTerminal(x)' <=> IsTerminal(x))
  BY <1>1, RecordedEnds DEF TerminalDelivery
<1>4. attempts <= MaxAttempts
  BY <1>1 DEF OneWorkerInv, RecordsAreBounded, HasDelivery
<1>5. OneAtATime'
  BY <1>2 DEF OneWorkerInv, OneAtATime
<1>6. FlightIsRecorded'
  BY <1>1, <1>2, <1>3 DEF OneWorkerInv, FlightIsRecorded, HasDelivery, Recorded
<1>7. SendsAreFinal'
  <2>1. sends[k] = {}
    BY <1>1 DEF OneWorkerInv, SendsAreFinal, IsTerminal, TerminalDelivery
  <2> QED BY <1>1, <2>1 DEF OneWorkerInv, SendsAreFinal, HasDelivery, Recorded
<1>8. RecordsAreBounded'
  <2>1. ASSUME NEW x \in DOMAIN deliveries', x # k
        PROVE  /\ deliveries'[x].attempts <= MaxAttempts
               /\ ~IsTerminal(x)' /\ deliveries'[x].attempts = MaxAttempts =>
                    \E j \in InFlight' : jobs'[j].key = x
    BY <1>1, <1>2, <1>3, <2>1 DEF OneWorkerInv, RecordsAreBounded, Recorded
  <2>2. deliveries'[k].attempts = attempts
    BY <1>1 DEF Recorded
  <2>3. attempts = MaxAttempts => \E j \in InFlight' : jobs'[j].key = k
    BY <1>1, <1>2 DEF OneWorkerInv, RecordsAreBounded, HasDelivery
  <2> QED BY <1>4, <2>1, <2>2, <2>3 DEF RecordsAreBounded
<1>9. QueueIsBounded'
  <2> SUFFICES ASSUME NEW j \in DOMAIN jobs', NEW x, x = jobs'[j].key
               PROVE  /\ x \in DOMAIN deliveries'
                      /\ jobs'[j].at = "queue" =>
                           /\ jobs'[j].attempt <= MaxAttempts + 1
                           /\ jobs'[j].attempt = MaxAttempts + 1 /\ ~IsTerminal(x)' =>
                                deliveries'[x].attempts = MaxAttempts
    BY DEF QueueIsBounded, HasDelivery, IsTerminal
  <2>1. CASE j = Len(jobs) + 1
    <3>1. x = k /\ jobs'[j].attempt = attempts + 1
      BY <1>1, <2>1 DEF JobAdded
    <3> QED BY <1>1, <1>4, <3>1 DEF Recorded
  <2>2. CASE j \in DOMAIN jobs
    <3>1. jobs'[j] = jobs[j] /\ x = jobs[j].key /\ x \in DOMAIN deliveries
      BY <1>1, <2>2 DEF JobAdded, OneWorkerInv, QueueIsBounded, HasDelivery
    <3>2. deliveries'[x].attempts = deliveries[x].attempts /\ x \in DOMAIN deliveries'
      BY <1>1, <3>1 DEF Recorded, HasDelivery
    <3>3. ~IsTerminal(x)' => ~IsTerminal(x)
      BY <1>1, <1>3, <3>1
    <3> QED BY <2>2, <3>1, <3>2, <3>3 DEF OneWorkerInv, QueueIsBounded
  <2> QED BY <1>1, <2>1, <2>2 DEF JobAdded
<1> QED BY <1>1, <1>5, <1>6, <1>7, <1>8, <1>9 DEF OneWorkerInv

(* The invariant after a job has changed, with the keys that are read before
   and after named by rigid variables.                                     *)
LEMMA JobsAfter ==
  ASSUME NEW j \in DOMAIN jobs, NEW k, NEW new, k = jobs[j].key, new.key = k, SendBecomes(j, new)
  PROVE  /\ DOMAIN jobs' = DOMAIN jobs
         /\ jobs'[j] = new /\ \A i \in DOMAIN jobs : jobs'[i].key = jobs[i].key
         /\ \A i \in DOMAIN jobs : i # j => jobs'[i] = jobs[i]
BY DEF SendBecomes

LEMMA QueueAfter ==
  ASSUME OneWorkerInv, workers = 1,
         NEW j \in DOMAIN jobs, NEW k, NEW new, k = jobs[j].key, new.key = k, SendBecomes(j, new),
         NEW status, NEW attempts, Recorded(k, status, attempts),
         new.at = "queue" => new.attempt <= MaxAttempts /\ MaxAttempts \in Nat
                             /\ new.attempt \in Nat,
         \A i \in DOMAIN jobs :
           i # j /\ jobs[i].key = k /\ jobs[i].at = "queue"
             => jobs[i].attempt # MaxAttempts + 1 \/ IsTerminal(k)'
  PROVE  QueueIsBounded'
<1> SUFFICES ASSUME NEW i \in DOMAIN jobs', NEW x, x = jobs'[i].key
             PROVE  /\ x \in DOMAIN deliveries'
                    /\ jobs'[i].at = "queue" =>
                         /\ jobs'[i].attempt <= MaxAttempts + 1
                         /\ jobs'[i].attempt = MaxAttempts + 1 /\ ~IsTerminal(x)' =>
                              deliveries'[x].attempts = MaxAttempts
  BY DEF QueueIsBounded, HasDelivery, IsTerminal
<1>1. i \in DOMAIN jobs /\ x = jobs[i].key /\ x \in DOMAIN deliveries
  BY JobsAfter DEF OneWorkerInv, QueueIsBounded, HasDelivery
<1>2. x \in DOMAIN deliveries'
  BY <1>1 DEF Recorded
<1>3. CASE i = j
  BY <1>2, <1>3, JobsAfter
<1>4. CASE i # j
  <2>1. jobs'[i] = jobs[i]
    BY <1>1, <1>4, JobsAfter
  <2>2. CASE x = k
    <3>1. jobs[i].at = "queue" => jobs[i].attempt <= MaxAttempts + 1
      BY <1>1 DEF OneWorkerInv, QueueIsBounded
    <3>2. jobs[i].at = "queue" => jobs[i].attempt # MaxAttempts + 1 \/ IsTerminal(x)'
      BY <1>1, <1>4, <2>2 DEF IsTerminal, HasDelivery
    <3> QED BY <1>2, <2>1, <3>1, <3>2
  <2>3. CASE x # k
    <3>1. deliveries'[x] = deliveries[x] /\ (IsTerminal(x)' <=> IsTerminal(x))
      BY <1>1, <2>3, RecordedEnds DEF Recorded
    <3> QED BY <1>1, <1>2, <2>1, <3>1 DEF OneWorkerInv, QueueIsBounded
  <2> QED BY <2>2, <2>3
<1> QED BY <1>3, <1>4

LEMMA DroppedOnce ==
  ASSUME NoteTypeOK, OneWorkerInv, workers = 1, NEW j \in DOMAIN jobs, DropJob(j)
  PROVE  OneWorkerInv'
<1>1. PICK new \in Job :
        /\ new.key = jobs[j].key /\ new.at = "done" /\ SendBecomes(j, new)
        /\ jobs[j].at = "queue" /\ UNCHANGED <<deliveries, workers, sends>>
  BY JobDropped
<1>2. /\ \A i : i \in InFlight' <=> i \in InFlight
      /\ \A i \in InFlight : jobs'[i] = jobs[i] /\ i \in DOMAIN jobs
  BY <1>1 DEF SendBecomes, InFlight
<1>3. OneAtATime' /\ SendsAreFinal'
  BY <1>1, <1>2 DEF OneWorkerInv, OneAtATime, SendsAreFinal, HasDelivery
<1>4. FlightIsRecorded'
  BY <1>1, <1>2 DEF OneWorkerInv, FlightIsRecorded, HasDelivery, IsTerminal
<1>5. RecordsAreBounded'
  BY <1>1, <1>2 DEF OneWorkerInv, RecordsAreBounded, IsTerminal, HasDelivery
<1>6. QueueIsBounded'
  BY <1>1 DEF OneWorkerInv, QueueIsBounded, IsTerminal, HasDelivery, SendBecomes
<1> QED BY <1>1, <1>3, <1>4, <1>5, <1>6 DEF OneWorkerInv

LEMMA TakenOnce ==
  ASSUME NoteTypeOK, OneWorkerInv, workers = 1, NEW j \in DOMAIN jobs, TakeJob(j)
  PROVE  OneWorkerInv'
<1>1. PICK new \in Job, k \in Key :
        /\ k = jobs[j].key /\ ~IsTerminal(k)
        /\ new.key = k /\ new.attempt = jobs[j].attempt
        /\ new.at = "worker" /\ SendBecomes(j, new)
        /\ jobs[j].at = "queue" /\ Cardinality(InFlight) < workers
        /\ Recorded(k, "sending", jobs[j].attempt)
        /\ UNCHANGED <<workers, sends>>
  BY JobTaken
<1>2. InFlight = {}
  BY <1>1, NothingInFlight
<1>3. \A i : i \in InFlight' <=> i = j
  BY <1>1, <1>2, InFlightBecomes
<1>4. k \in DOMAIN deliveries /\ deliveries[k].attempts # MaxAttempts
  BY <1>1, <1>2 DEF OneWorkerInv, QueueIsBounded, RecordsAreBounded, HasDelivery
<1>5. \A i \in DOMAIN jobs :
        jobs[i].key = k /\ jobs[i].at = "queue" =>
          jobs[i].attempt <= MaxAttempts + 1 /\ jobs[i].attempt # MaxAttempts + 1
  BY <1>1, <1>4 DEF OneWorkerInv, QueueIsBounded
<1>6. jobs[j].attempt \in Nat /\ jobs[j].attempt <= MaxAttempts
  <2>1. jobs[j].attempt \in Nat /\ MaxAttempts \in Nat
    BY SendIsTyped, NotificationAssumption
  <2> QED BY <1>1, <1>5, <2>1
<1>7. ~IsTerminal(k)' /\ \A x \in DOMAIN deliveries : x # k => (IsTerminal(x)' <=> IsTerminal(x))
  BY <1>1, RecordedEnds DEF TerminalDelivery
<1>8. OneAtATime'
  BY <1>3 DEF OneAtATime
<1>9. FlightIsRecorded'
  <2>1. jobs'[j].key = k /\ jobs'[j].attempt = jobs[j].attempt
    BY <1>1 DEF SendBecomes
  <2>2. k \in DOMAIN deliveries' /\ deliveries'[k].attempts = jobs[j].attempt
    BY <1>1 DEF Recorded
  <2> QED BY <1>3, <1>6, <1>7, <2>1, <2>2 DEF FlightIsRecorded, HasDelivery, IsTerminal
<1>10. SendsAreFinal'
  <2>1. sends[k] = {}
    BY <1>1 DEF OneWorkerInv, SendsAreFinal, IsTerminal, TerminalDelivery
  <2> QED BY <1>1, <2>1 DEF OneWorkerInv, SendsAreFinal, HasDelivery, Recorded
<1>11. RecordsAreBounded'
  <2> SUFFICES ASSUME NEW x \in DOMAIN deliveries'
               PROVE  /\ deliveries'[x].attempts <= MaxAttempts
                      /\ ~IsTerminal(x)' /\ deliveries'[x].attempts = MaxAttempts =>
                           \E i \in InFlight' : jobs'[i].key = x
    BY DEF RecordsAreBounded
  <2>1. CASE x = k
    <3>1. jobs'[j].key = k /\ j \in InFlight'
      BY <1>1, <1>3 DEF SendBecomes
    <3> QED BY <1>1, <1>6, <2>1, <3>1 DEF Recorded
  <2>2. CASE x # k
    <3>1. x \in DOMAIN deliveries /\ deliveries'[x] = deliveries[x]
      BY <1>1, <2>2 DEF Recorded
    <3>2. IsTerminal(x)' <=> IsTerminal(x)
      BY <1>7, <2>2, <3>1
    <3> QED BY <1>2, <3>1, <3>2 DEF OneWorkerInv, RecordsAreBounded
  <2> QED BY <2>1, <2>2
<1>12. QueueIsBounded'
  BY <1>1, <1>5, QueueAfter
<1> QED BY <1>1, <1>8, <1>9, <1>10, <1>11, <1>12 DEF OneWorkerInv

LEMMA SentOnce ==
  ASSUME NoteTypeOK, OneWorkerInv, workers = 1, NEW j \in DOMAIN jobs, AdapterAccepts(j)
  PROVE  OneWorkerInv'
<1>1. PICK new \in Job, k \in Key :
        /\ k = jobs[j].key /\ new.key = k /\ new.at = "done" /\ SendBecomes(j, new)
        /\ jobs[j].at = "worker"
        /\ Recorded(k, "delivered", jobs[j].attempt)
        /\ sends' = [sends EXCEPT ![k] = sends[k] \cup {j}]
        /\ UNCHANGED workers
  BY JobSent
<1>2. j \in InFlight /\ \A i \in InFlight : i = j
  BY <1>1 DEF OneWorkerInv, OneAtATime, InFlight
<1>3. \A i : i \notin InFlight'
  BY <1>1, <1>2, InFlightBecomes
<1>4. /\ k \in DOMAIN deliveries /\ ~IsTerminal(k)
      /\ deliveries[k].attempts = jobs[j].attempt /\ jobs[j].attempt <= MaxAttempts
  BY <1>1, <1>2 DEF OneWorkerInv, FlightIsRecorded, HasDelivery
<1>5. IsTerminal(k)' /\ \A x \in DOMAIN deliveries : x # k => (IsTerminal(x)' <=> IsTerminal(x))
  BY <1>1, RecordedEnds DEF TerminalDelivery
<1>6. OneAtATime' /\ FlightIsRecorded'
  BY <1>3 DEF OneAtATime, FlightIsRecorded
<1>7. SendsAreFinal'
  <2>1. sends[k] = {}
    BY <1>4 DEF OneWorkerInv, SendsAreFinal, IsTerminal, TerminalDelivery
  <2>2. sends'[k] = {j} /\ \A x \in Key : x # k => sends'[x] = sends[x]
    BY <1>1, <2>1 DEF NoteTypeOK
  <2>3. k \in DOMAIN deliveries' /\ deliveries'[k].status = "delivered"
    BY <1>1 DEF Recorded
  <2>4. \A x \in DOMAIN deliveries : x # k => /\ x \in DOMAIN deliveries'
                                              /\ deliveries'[x] = deliveries[x]
    BY <1>1 DEF Recorded
  <2> QED BY <2>2, <2>3, <2>4 DEF OneWorkerInv, SendsAreFinal, HasDelivery
<1>8. RecordsAreBounded'
  <2> SUFFICES ASSUME NEW x \in DOMAIN deliveries'
               PROVE  /\ deliveries'[x].attempts <= MaxAttempts
                      /\ ~IsTerminal(x)' => deliveries'[x].attempts # MaxAttempts
    BY DEF RecordsAreBounded
  <2>1. CASE x = k
    BY <1>1, <1>4, <1>5, <2>1 DEF Recorded
  <2>2. CASE x # k
    <3>1. x \in DOMAIN deliveries /\ deliveries'[x] = deliveries[x]
      BY <1>1, <2>2 DEF Recorded
    <3>2. IsTerminal(x)' <=> IsTerminal(x)
      BY <1>5, <2>2, <3>1
    <3> QED BY <1>1, <1>2, <2>2, <3>1, <3>2 DEF OneWorkerInv, RecordsAreBounded
  <2> QED BY <2>1, <2>2
<1>9. QueueIsBounded'
  BY <1>1, <1>5, QueueAfter
<1> QED BY <1>1, <1>6, <1>7, <1>8, <1>9 DEF OneWorkerInv

LEMMA FailedOnce ==
  ASSUME NoteTypeOK, OneWorkerInv, workers = 1,
         NEW j \in DOMAIN jobs, NEW category \in Failures, AdapterFails(j, category)
  PROVE  OneWorkerInv'
<1>1. PICK new \in Job, k \in Key, status \in DeliveryStatus :
        /\ k = jobs[j].key /\ new.key = k /\ SendBecomes(j, new)
        /\ jobs[j].at = "worker"
        /\ Recorded(k, status, jobs[j].attempt)
        /\ \/ /\ jobs[j].attempt < MaxAttempts /\ status = "pending"
              /\ new.at = "queue" /\ new.attempt = jobs[j].attempt + 1
           \/ status \in TerminalDelivery /\ new.at = "done"
        /\ UNCHANGED <<workers, sends>>
  BY JobFailed
<1>2. j \in InFlight /\ \A i \in InFlight : i = j
  BY <1>1 DEF OneWorkerInv, OneAtATime, InFlight
<1>3. \A i : i \notin InFlight'
  BY <1>1, <1>2, InFlightBecomes
<1>4. /\ k \in DOMAIN deliveries /\ ~IsTerminal(k)
      /\ deliveries[k].attempts = jobs[j].attempt /\ jobs[j].attempt <= MaxAttempts
  BY <1>1, <1>2 DEF OneWorkerInv, FlightIsRecorded, HasDelivery
<1>5. /\ IsTerminal(k)' <=> status \in TerminalDelivery
      /\ \A x \in DOMAIN deliveries : x # k => (IsTerminal(x)' <=> IsTerminal(x))
  BY <1>1, RecordedEnds
<1>6. OneAtATime' /\ FlightIsRecorded'
  BY <1>3 DEF OneAtATime, FlightIsRecorded
<1>7. SendsAreFinal'
  <2>1. sends[k] = {}
    BY <1>4 DEF OneWorkerInv, SendsAreFinal, IsTerminal, TerminalDelivery
  <2> QED BY <1>1, <2>1 DEF OneWorkerInv, SendsAreFinal, HasDelivery, Recorded
<1>8. jobs[j].attempt \in Nat /\ MaxAttempts \in Nat
  BY SendIsTyped, NotificationAssumption
<1>9. RecordsAreBounded'
  <2> SUFFICES ASSUME NEW x \in DOMAIN deliveries'
               PROVE  /\ deliveries'[x].attempts <= MaxAttempts
                      /\ ~IsTerminal(x)' => deliveries'[x].attempts # MaxAttempts
    BY DEF RecordsAreBounded
  <2>1. CASE x = k
    BY <1>1, <1>4, <1>5, <1>8, <2>1 DEF Recorded
  <2>2. CASE x # k
    <3>1. x \in DOMAIN deliveries /\ deliveries'[x] = deliveries[x]
      BY <1>1, <2>2 DEF Recorded
    <3>2. IsTerminal(x)' <=> IsTerminal(x)
      BY <1>5, <2>2, <3>1
    <3> QED BY <1>1, <1>2, <2>2, <3>1, <3>2 DEF OneWorkerInv, RecordsAreBounded
  <2> QED BY <2>1, <2>2
<1>10. QueueIsBounded'
  <2>1. \A i \in DOMAIN jobs :
          i # j /\ jobs[i].key = k /\ jobs[i].at = "queue"
            => jobs[i].attempt # MaxAttempts + 1 \/ jobs[j].attempt = MaxAttempts
    BY <1>4 DEF OneWorkerInv, QueueIsBounded
  <2>2. jobs[j].attempt = MaxAttempts => IsTerminal(k)'
    BY <1>1, <1>5, <1>8
  <2>3. new.at = "queue" => new.attempt <= MaxAttempts /\ new.attempt \in Nat
    BY <1>1, <1>8
  <2> QED BY <1>1, <1>8, <2>1, <2>2, <2>3, QueueAfter
<1> QED BY <1>1, <1>6, <1>7, <1>9, <1>10 DEF OneWorkerInv

(* With one worker at a time, each delivery is sent once, stays delivered, and
   is attempted no more often than the policy allows, however often its event
   is processed again (processEvent, processDeliveryJob).                  *)
THEOREM OneWorkerSends == NoteSpec => []OneWorkerSendsOnce
<1>1. NoteInit => OneWorkerInv
  BY DEF NoteInit, OneWorkerInv, OneAtATime, FlightIsRecorded, SendsAreFinal, RecordsAreBounded,
         QueueIsBounded, InFlight
<1>2. NoteTypeOK /\ OneWorkerInv /\ [NoteNext]_noteVars => OneWorkerInv'
  <2> SUFFICES ASSUME NoteTypeOK, OneWorkerInv, [NoteNext]_noteVars
               PROVE  OneWorkerInv'
    OBVIOUS
  <2>1. workers' = workers
    BY EventArrived, ChannelSkipped, ChannelQueued, JobDropped, JobTaken, JobSent, JobFailed,
       NoteRead DEF NoteNext, Worker, noteVars
  <2>2. CASE workers # 1
    BY <2>1, <2>2 DEF OneWorkerInv
  <2>3. CASE UNCHANGED <<deliveries, jobs, workers, sends>>
    BY <2>3 DEF OneWorkerInv, OneAtATime, FlightIsRecorded, SendsAreFinal, RecordsAreBounded,
                QueueIsBounded, InFlight, IsTerminal, HasDelivery
  <2>4. CASE workers = 1 /\ Worker
    BY <2>4, DroppedOnce, TakenOnce, SentOnce, FailedOnce DEF Worker
  <2> QED BY <2>2, <2>3, <2>4, QueuedOnce, EventArrived, ChannelSkipped, NoteRead
          DEF NoteNext, noteVars
<1>3. NoteTypeOK /\ OneWorkerInv => OneWorkerSendsOnce
  <2> SUFFICES ASSUME NoteTypeOK, OneWorkerInv, workers = 1, NEW k \in DOMAIN deliveries
               PROVE  /\ Cardinality(sends[k]) <= 1
                      /\ sends[k] # {} => deliveries[k].status = "delivered"
                      /\ deliveries[k].attempts <= MaxAttempts
    BY DEF OneWorkerSendsOnce
  <2>1. k \in Key
    BY DEF NoteTypeOK
  <2>2. CASE sends[k] = {}
    BY <2>2, FS_EmptySet DEF OneWorkerInv, RecordsAreBounded
  <2>3. CASE sends[k] # {}
    <3>1. PICK j : sends[k] = {j}
      BY <2>1, <2>3 DEF OneWorkerInv, SendsAreFinal
    <3>2. Cardinality(sends[k]) = 1
      BY <3>1, FS_Singleton
    <3> QED BY <2>1, <2>3, <3>2 DEF OneWorkerInv, SendsAreFinal, RecordsAreBounded
  <2> QED BY <2>2, <2>3
<1> QED BY <1>1, <1>2, <1>3, NotificationsTypeCorrect, PTL DEF NoteSpec

-----------------------------------------------------------------------------
(* Imports.                                                                *)

(* A job's record is replaced, a payload is moved, an artifact is changed. *)
JobBecomes(j, new) ==
  /\ DOMAIN importJobs' = DOMAIN importJobs /\ importJobs'[j] = new
  /\ \A i \in DOMAIN importJobs : i # j => importJobs'[i] = importJobs[i]

LEMMA JobReplaced ==
  ASSUME ImportTypeOK, NEW j \in DOMAIN importJobs, NEW new \in ImportJob,
         importJobs' = [importJobs EXCEPT ![j] = new]
  PROVE  importJobs' \in Seq(ImportJob) /\ JobBecomes(j, new)
BY DEF ImportTypeOK, JobBecomes

LEMMA JobIsTyped ==
  ASSUME ImportTypeOK, NEW j \in DOMAIN importJobs
  PROVE  /\ importJobs[j] \in ImportJob
         /\ importJobs[j].artifact \in DOMAIN artifacts /\ importJobs[j].artifact \in Nat
         /\ importJobs[j].retries \in Nat
         /\ importJobs[j].status \in JobStatus
<1>1. importJobs[j] \in ImportJob
  BY DEF ImportTypeOK
<1>2. importJobs[j].artifact \in DOMAIN artifacts
  BY DEF ImportTypeOK
<1> QED BY <1>1, <1>2 DEF ImportJob

LEMMA PayloadIsTyped ==
  ASSUME ImportTypeOK, NEW p \in DOMAIN payloads
  PROVE  /\ payloads[p] \in Payload /\ payloads[p].job \in DOMAIN importJobs
         /\ payloads[p].job \in Nat /\ payloads[p].resumed \in BOOLEAN
<1>1. payloads[p] \in Payload
  BY DEF ImportTypeOK
<1>2. payloads[p].job \in DOMAIN importJobs
  BY DEF ImportTypeOK
<1> QED BY <1>1, <1>2 DEF Payload

(* A job's status is set; nothing else about it changes. *)
LEMMA ArtifactStatusSet ==
  ASSUME ImportTypeOK, NEW j \in DOMAIN importJobs, NEW status \in JobStatus, SetStatus(j, status)
  PROVE  /\ importJobs' \in Seq(ImportJob) /\ DOMAIN importJobs' = DOMAIN importJobs
         /\ importJobs'[j].status = status
         /\ \A i \in DOMAIN importJobs :
              /\ i # j => importJobs'[i] = importJobs[i]
              /\ importJobs'[i].artifact = importJobs[i].artifact
              /\ importJobs'[i].retries = importJobs[i].retries
<1> DEFINE new == [importJobs[j] EXCEPT !.status = status]
<1>1. importJobs[j] \in ImportJob
  BY JobIsTyped
<1>2. /\ new \in ImportJob /\ new.status = status
      /\ new.artifact = importJobs[j].artifact /\ new.retries = importJobs[j].retries
  BY <1>1 DEF ImportJob
<1>3. importJobs' = [importJobs EXCEPT ![j] = new]
  BY DEF SetStatus
<1> HIDE DEF new
<1> QED BY <1>2, <1>3, JobReplaced DEF JobBecomes

LEMMA PayloadMoved ==
  ASSUME ImportTypeOK, NEW p \in DOMAIN payloads, NEW place \in {"queue", "worker", "done"},
         MovePayload(p, place)
  PROVE  /\ payloads' \in Seq(Payload) /\ DOMAIN payloads' = DOMAIN payloads
         /\ payloads'[p].at = place
         /\ \A q \in DOMAIN payloads :
              /\ q # p => payloads'[q] = payloads[q]
              /\ payloads'[q].job = payloads[q].job
              /\ payloads'[q].resumed = payloads[q].resumed
<1> DEFINE new == [payloads[p] EXCEPT !.at = place]
<1>1. payloads \in Seq(Payload) /\ payloads[p] \in Payload
  BY DEF ImportTypeOK
<1>2. /\ new \in Payload /\ new.at = place
      /\ new.job = payloads[p].job /\ new.resumed = payloads[p].resumed
  BY <1>1 DEF Payload
<1>3. payloads' = [payloads EXCEPT ![p] = new]
  BY DEF MovePayload
<1> HIDE DEF new
<1>4. /\ payloads' \in Seq(Payload) /\ DOMAIN payloads' = DOMAIN payloads /\ payloads'[p] = new
      /\ \A q \in DOMAIN payloads : q # p => payloads'[q] = payloads[q]
  BY <1>1, <1>2, <1>3
<1> QED BY <1>2, <1>4

LEMMA Dispatched ==
  ASSUME ImportTypeOK, NEW j \in Nat, Dispatch(j)
  PROVE  /\ payloads' \in Seq(Payload)
         /\ DOMAIN payloads' = DOMAIN payloads \cup {Len(payloads) + 1}
         /\ payloads'[Len(payloads) + 1] = [job |-> j, resumed |-> FALSE, at |-> "queue"]
         /\ \A q \in DOMAIN payloads : payloads'[q] = payloads[q]
<1> DEFINE new == [job |-> j, resumed |-> FALSE, at |-> "queue"]
<1>1. new \in Payload /\ payloads \in Seq(Payload)
  BY DEF Payload, ImportTypeOK
<1>2. payloads' = Append(payloads, new)
  BY DEF Dispatch
<1> HIDE DEF new
<1>3. /\ payloads' \in Seq(Payload)
      /\ DOMAIN payloads' = DOMAIN payloads \cup {Len(payloads) + 1}
      /\ payloads'[Len(payloads) + 1] = new
      /\ \A q \in DOMAIN payloads : payloads'[q] = payloads[q]
  BY <1>1, <1>2
<1> QED BY <1>3 DEF new

LEMMA JobCreated ==
  ASSUME ImportTypeOK, NEW a \in DOMAIN artifacts, CreateImportJob(a)
  PROVE  /\ importJobs' \in Seq(ImportJob)
         /\ DOMAIN importJobs' = DOMAIN importJobs \cup {Len(importJobs) + 1}
         /\ Len(importJobs) + 1 \in Nat
         /\ importJobs'[Len(importJobs) + 1] =
              [artifact |-> a, status |-> "pending", retries |-> 0]
         /\ \A i \in DOMAIN importJobs : importJobs'[i] = importJobs[i]
<1> DEFINE new == [artifact |-> a, status |-> "pending", retries |-> 0]
<1>1. a \in Nat
  BY DEF ImportTypeOK
<1>2. new \in ImportJob /\ importJobs \in Seq(ImportJob)
  BY <1>1 DEF ImportJob, JobStatus, ImportTypeOK
<1>3. importJobs' = Append(importJobs, new)
  BY DEF CreateImportJob
<1> HIDE DEF new
<1>4. /\ importJobs' \in Seq(ImportJob)
      /\ DOMAIN importJobs' = DOMAIN importJobs \cup {Len(importJobs) + 1}
      /\ Len(importJobs) + 1 \in Nat
      /\ importJobs'[Len(importJobs) + 1] = new
      /\ \A i \in DOMAIN importJobs : importJobs'[i] = importJobs[i]
  BY <1>2, <1>3
<1> QED BY <1>4 DEF new

LEMMA ScanEnded ==
  ASSUME ImportTypeOK, NEW a \in DOMAIN artifacts, NEW status \in UploadStatus,
         ScanEnds(a, status)
  PROVE  /\ artifacts' \in Seq(Artifact) /\ DOMAIN artifacts' = DOMAIN artifacts
         /\ artifacts[a].scanning /\ ~artifacts'[a].scanning
         /\ artifacts'[a].exists => artifacts'[a].status = status
         /\ \A b \in DOMAIN artifacts :
              /\ b # a => artifacts'[b] = artifacts[b]
              /\ artifacts'[b].exists = artifacts[b].exists
<1> DEFINE new == [artifacts[a] EXCEPT !.scanning = FALSE,
                     !.status = IF artifacts[a].exists THEN status ELSE artifacts[a].status]
<1>1. artifacts \in Seq(Artifact) /\ artifacts[a] \in Artifact
  BY DEF ImportTypeOK
<1>2. artifacts[a].scanning /\ artifacts' = [artifacts EXCEPT ![a] = new]
  BY DEF ScanEnds
<1>3. new \in Artifact
  BY <1>1 DEF Artifact
<1>4. ~new.scanning /\ new.exists = artifacts[a].exists /\ (new.exists => new.status = status)
  BY <1>1 DEF Artifact
<1> HIDE DEF new
<1>5. /\ artifacts' \in Seq(Artifact) /\ DOMAIN artifacts' = DOMAIN artifacts
      /\ artifacts'[a] = new
      /\ \A b \in DOMAIN artifacts : b # a => artifacts'[b] = artifacts[b]
  BY <1>1, <1>2, <1>3
<1> QED BY <1>2, <1>4, <1>5

-----------------------------------------------------------------------------
(* What each step does.                                                    *)

ArtifactsStand ==
  /\ DOMAIN artifacts \subseteq DOMAIN artifacts'
  /\ \A a \in DOMAIN artifacts :
       /\ artifacts'[a].exists => artifacts[a].exists
       /\ artifacts'[a].scanning => artifacts[a].scanning
       /\ artifacts'[a].status = artifacts[a].status

LEMMA Uploaded ==
  ASSUME ImportTypeOK, UploadArtifact
  PROVE  /\ ImportTypeOK' /\ ArtifactsStand
         /\ DOMAIN artifacts' = DOMAIN artifacts \cup {Len(artifacts) + 1}
         /\ Len(artifacts) + 1 \notin DOMAIN artifacts
         /\ artifacts'[Len(artifacts) + 1].status = "pending"
         /\ UNCHANGED <<importJobs, payloads, crashes, up, astray>>
<1> DEFINE new == [status |-> "pending", scanning |-> TRUE, exists |-> TRUE]
<1>1. new \in Artifact /\ artifacts \in Seq(Artifact) /\ new.status = "pending"
  BY DEF Artifact, UploadStatus, ImportTypeOK
<1>2. artifacts' = Append(artifacts, new) /\ UNCHANGED <<importJobs, payloads, crashes, up, astray, byHand>>
  BY DEF UploadArtifact
<1> HIDE DEF new
<1>3. /\ artifacts' \in Seq(Artifact)
      /\ DOMAIN artifacts' = DOMAIN artifacts \cup {Len(artifacts) + 1}
      /\ Len(artifacts) + 1 \notin DOMAIN artifacts
      /\ artifacts'[Len(artifacts) + 1] = new
      /\ \A a \in DOMAIN artifacts : artifacts'[a] = artifacts[a]
  BY <1>1, <1>2
<1>4. ImportTypeOK'
  BY <1>2, <1>3 DEF ImportTypeOK
<1> QED BY <1>1, <1>2, <1>3, <1>4 DEF ArtifactsStand

LEMMA ScanRefused ==
  ASSUME ImportTypeOK, NEW a \in DOMAIN artifacts, ScanRefuses(a)
  PROVE  /\ ImportTypeOK' /\ DOMAIN artifacts' = DOMAIN artifacts
         /\ artifacts[a].scanning /\ ~artifacts'[a].scanning
         /\ \A b \in DOMAIN artifacts : /\ b # a => artifacts'[b] = artifacts[b]
                                        /\ artifacts'[b].exists = artifacts[b].exists
         /\ UNCHANGED <<importJobs, payloads, crashes, up, astray>>
<1>1. PICK status \in UploadStatus : ScanEnds(a, status)
  BY DEF ScanRefuses, UploadStatus
<1>2. UNCHANGED <<importJobs, payloads, crashes, up, astray, byHand>>
  BY DEF ScanRefuses
<1>3. artifacts' \in Seq(Artifact) /\ DOMAIN artifacts' = DOMAIN artifacts
  BY <1>1, ScanEnded
<1>4. ImportTypeOK'
  BY <1>2, <1>3 DEF ImportTypeOK
<1> QED BY <1>1, <1>2, <1>3, <1>4, ScanEnded

(* A job is made and dispatched. *)
JobQueued(a) ==
  LET j == Len(importJobs) + 1
      p == Len(payloads) + 1
  IN  /\ DOMAIN importJobs' = DOMAIN importJobs \cup {j}
      /\ importJobs'[j] = [artifact |-> a, status |-> "pending", retries |-> 0]
      /\ \A i \in DOMAIN importJobs : importJobs'[i] = importJobs[i]
      /\ DOMAIN payloads' = DOMAIN payloads \cup {p}
      /\ payloads'[p] = [job |-> j, resumed |-> FALSE, at |-> "queue"]
      /\ \A q \in DOMAIN payloads : payloads'[q] = payloads[q]

LEMMA NewJobQueued ==
  ASSUME ImportTypeOK, NEW a \in DOMAIN artifacts, CreateImportJob(a),
         Dispatch(Len(importJobs) + 1),
         artifacts' \in Seq(Artifact), DOMAIN artifacts' = DOMAIN artifacts,
         UNCHANGED <<crashes, up, astray, byHand>>
  PROVE  ImportTypeOK' /\ JobQueued(a)
<1>1. JobQueued(a)
  BY JobCreated, Dispatched DEF JobQueued
<1>2. importJobs' \in Seq(ImportJob) /\ payloads' \in Seq(Payload)
  BY JobCreated, Dispatched
<1>3. \A j \in DOMAIN importJobs' : importJobs'[j].artifact \in DOMAIN artifacts'
  BY <1>1 DEF JobQueued, ImportTypeOK
<1>4. \A p \in DOMAIN payloads' : payloads'[p].job \in DOMAIN importJobs'
  BY <1>1 DEF JobQueued, ImportTypeOK
<1>5. /\ crashes' \in 0..MaxCrashes /\ up' \in BOOLEAN /\ byHand' \in 0..MaxByHand
      /\ astray' \subseteq DOMAIN importJobs'
  BY <1>1 DEF ImportTypeOK, JobQueued
<1> QED BY <1>1, <1>2, <1>3, <1>4, <1>5 DEF ImportTypeOK

LEMMA ScanPassed ==
  ASSUME ImportTypeOK, NEW a \in DOMAIN artifacts, ScanPasses(a)
  PROVE  /\ ImportTypeOK' /\ JobQueued(a) /\ DOMAIN artifacts' = DOMAIN artifacts
         /\ artifacts[a].scanning /\ ~artifacts'[a].scanning
         /\ artifacts'[a].exists => artifacts'[a].status = "stored"
         /\ \A b \in DOMAIN artifacts : /\ b # a => artifacts'[b] = artifacts[b]
                                        /\ artifacts'[b].exists = artifacts[b].exists
         /\ UNCHANGED <<crashes, up, astray>>
<1>1. "stored" \in UploadStatus
  BY DEF UploadStatus
<1>2. ScanEnds(a, "stored") /\ CreateImportJob(a) /\ Dispatch(Len(importJobs) + 1)
      /\ UNCHANGED <<crashes, up, astray, byHand>>
  BY DEF ScanPasses
<1>3. artifacts' \in Seq(Artifact) /\ DOMAIN artifacts' = DOMAIN artifacts
  BY <1>1, <1>2, ScanEnded
<1> QED BY <1>1, <1>2, <1>3, ScanEnded, NewJobQueued

(* A job is made and left to somebody. *)
JobLeft(a) ==
  LET j == Len(importJobs) + 1
  IN  /\ DOMAIN importJobs' = DOMAIN importJobs \cup {j}
      /\ \A i \in DOMAIN importJobs : importJobs'[i] = importJobs[i]
      /\ importJobs'[j].artifact = a
      /\ astray' = astray \cup {j} /\ UNCHANGED payloads

LEMMA Reimported ==
  ASSUME ImportTypeOK, NEW a \in DOMAIN artifacts, Reimport(a)
  PROVE  /\ ImportTypeOK' /\ UNCHANGED <<artifacts, crashes, up>>
         /\ JobLeft(a) \/ (JobQueued(a) /\ UNCHANGED astray)
<1>1. CreateImportJob(a) /\ UNCHANGED <<artifacts, crashes, up, byHand>>
  BY DEF Reimport
<1>2. artifacts' \in Seq(Artifact) /\ DOMAIN artifacts' = DOMAIN artifacts
  BY <1>1 DEF ImportTypeOK
<1>3. CASE Dispatch(Len(importJobs) + 1) /\ UNCHANGED astray
  <2>1. UNCHANGED <<crashes, up, astray, byHand>>
    BY <1>1, <1>3
  <2>2. ImportTypeOK' /\ JobQueued(a)
    BY <1>1, <1>2, <1>3, <2>1, NewJobQueued
  <2> QED BY <1>1, <1>3, <2>2
<1>4. CASE astray' = astray \cup {Len(importJobs) + 1} /\ UNCHANGED payloads
  <2> DEFINE n == Len(importJobs) + 1
  <2>3. /\ importJobs' \in Seq(ImportJob) /\ DOMAIN importJobs' = DOMAIN importJobs \cup {n}
        /\ importJobs'[n] = [artifact |-> a, status |-> "pending", retries |-> 0]
        /\ \A i \in DOMAIN importJobs : importJobs'[i] = importJobs[i]
    BY <1>1, JobCreated
  <2>4. importJobs'[n].artifact = a
    BY <2>3
  <2>1. JobLeft(a) /\ importJobs' \in Seq(ImportJob)
    BY <1>4, <2>3, <2>4 DEF JobLeft
  <2> HIDE DEF n
  <2>2. ImportTypeOK'
    BY <1>1, <1>2, <1>4, <2>1 DEF ImportTypeOK, JobLeft
  <2> QED BY <1>1, <2>1, <2>2
<1> QED BY <1>3, <1>4 DEF Reimport

LEMMA ArtifactDeleted ==
  ASSUME ImportTypeOK, NEW a \in DOMAIN artifacts, DeleteArtifact(a)
  PROVE  /\ ImportTypeOK' /\ DOMAIN artifacts' = DOMAIN artifacts /\ ArtifactsStand
         /\ UNCHANGED <<importJobs, payloads, crashes, up, astray>>
<1> DEFINE new == [artifacts[a] EXCEPT !.exists = FALSE]
<1>1. artifacts \in Seq(Artifact) /\ artifacts[a] \in Artifact
  BY DEF ImportTypeOK
<1>2. new \in Artifact /\ ~new.exists /\ new.status = artifacts[a].status
      /\ new.scanning = artifacts[a].scanning
  BY <1>1 DEF Artifact
<1>3. artifacts' = [artifacts EXCEPT ![a] = new]
      /\ UNCHANGED <<importJobs, payloads, crashes, up, astray, byHand>>
  BY DEF DeleteArtifact
<1> HIDE DEF new
<1>4. /\ artifacts' \in Seq(Artifact) /\ DOMAIN artifacts' = DOMAIN artifacts
      /\ artifacts'[a] = new
      /\ \A b \in DOMAIN artifacts : b # a => artifacts'[b] = artifacts[b]
  BY <1>1, <1>2, <1>3
<1>5. ImportTypeOK'
  BY <1>3, <1>4 DEF ImportTypeOK
<1> QED BY <1>2, <1>3, <1>4, <1>5 DEF ArtifactsStand

(* A job takes a new status; its artifact stays, and so does every other job. *)
JobIs(j, status) ==
  /\ DOMAIN importJobs' = DOMAIN importJobs /\ importJobs'[j].status = status
  /\ \A i \in DOMAIN importJobs :
       /\ i # j => importJobs'[i] = importJobs[i]
       /\ importJobs'[i].artifact = importJobs[i].artifact

RetriesStand == \A i \in DOMAIN importJobs : importJobs'[i].retries = importJobs[i].retries

LEMMA JobReviewed ==
  ASSUME ImportTypeOK, NEW j \in DOMAIN importJobs, NEW status \in JobStatus,
         TransitionJobStatus(j, status)
  PROVE  /\ ImportTypeOK' /\ JobIs(j, status) /\ RetriesStand
         /\ astray \subseteq astray' /\ astray' \subseteq astray \cup {j}
         /\ status \in {"pending", "processing"} => j \in astray'
         /\ UNCHANGED <<artifacts, payloads, crashes, up>>
<1>1. /\ SetStatus(j, status) /\ UNCHANGED <<artifacts, payloads, crashes, up>>
      /\ byHand < MaxByHand /\ byHand' = byHand + 1
      /\ astray' = IF status \in {"pending", "processing"} THEN astray \cup {j} ELSE astray
  BY DEF TransitionJobStatus
<1>2. JobIs(j, status) /\ RetriesStand /\ importJobs' \in Seq(ImportJob)
  BY <1>1, ArtifactStatusSet DEF JobIs, RetriesStand
<1>3. byHand' \in 0..MaxByHand /\ astray' \subseteq DOMAIN importJobs
  BY <1>1, ImportAssumption DEF ImportTypeOK
<1>4. ImportTypeOK'
  BY <1>1, <1>2, <1>3 DEF ImportTypeOK, JobIs
<1> QED BY <1>1, <1>2, <1>4

LEMMA JobRetried ==
  ASSUME ImportTypeOK, NEW j \in DOMAIN importJobs, RetryJob(j)
  PROVE  /\ ImportTypeOK' /\ JobIs(j, "pending")
         /\ importJobs[j].retries < MaxRetries /\ importJobs'[j].retries = importJobs[j].retries + 1
         /\ artifacts[importJobs[j].artifact].exists =>
              \E p \in DOMAIN payloads' : payloads'[p].job = j /\ payloads'[p].at = "queue"
         /\ DOMAIN payloads \subseteq DOMAIN payloads'
         /\ \A q \in DOMAIN payloads : payloads'[q] = payloads[q]
         /\ astray' = astray \ {j} /\ UNCHANGED <<artifacts, crashes, up>>
<1> DEFINE new == [importJobs[j] EXCEPT !.status = "pending", !.retries = importJobs[j].retries + 1]
<1>1. importJobs[j] \in ImportJob /\ importJobs[j].retries + 1 \in Nat /\ j \in Nat
  BY JobIsTyped DEF ImportTypeOK
<1>2. /\ new \in ImportJob /\ new.status = "pending" /\ new.artifact = importJobs[j].artifact
      /\ new.retries = importJobs[j].retries + 1
  BY <1>1 DEF ImportJob, JobStatus
<1>3. /\ importJobs' = [importJobs EXCEPT ![j] = new]
      /\ importJobs[j].retries < MaxRetries
      /\ astray' = astray \ {j} /\ UNCHANGED <<artifacts, crashes, up, byHand>>
  BY DEF RetryJob
<1> HIDE DEF new
<1>4. JobIs(j, "pending") /\ importJobs' \in Seq(ImportJob)
      /\ importJobs'[j].retries = importJobs[j].retries + 1
  BY <1>2, <1>3, JobReplaced DEF JobIs, JobBecomes
<1>5. /\ payloads' \in Seq(Payload) /\ DOMAIN payloads \subseteq DOMAIN payloads'
      /\ \A p \in DOMAIN payloads' : payloads'[p].job \in DOMAIN importJobs
      /\ \A q \in DOMAIN payloads : payloads'[q] = payloads[q]
      /\ artifacts[importJobs[j].artifact].exists =>
           \E p \in DOMAIN payloads' : payloads'[p].job = j /\ payloads'[p].at = "queue"
  <2>1. CASE artifacts[importJobs[j].artifact].exists
    <3>1. Dispatch(j)
      BY <2>1 DEF RetryJob
    <3>2. /\ payloads' \in Seq(Payload)
          /\ DOMAIN payloads' = DOMAIN payloads \cup {Len(payloads) + 1}
          /\ payloads'[Len(payloads) + 1] = [job |-> j, resumed |-> FALSE, at |-> "queue"]
          /\ \A q \in DOMAIN payloads : payloads'[q] = payloads[q]
      BY <1>1, <3>1, Dispatched
    <3>3. \A p \in DOMAIN payloads : payloads[p].job \in DOMAIN importJobs
      BY DEF ImportTypeOK
    <3> QED BY <3>2, <3>3
  <2>2. CASE ~artifacts[importJobs[j].artifact].exists
    BY <2>2 DEF RetryJob, ImportTypeOK
  <2> QED BY <2>1, <2>2
<1>6. ImportTypeOK'
  BY <1>3, <1>4, <1>5 DEF ImportTypeOK, JobIs
<1> QED BY <1>3, <1>4, <1>5, <1>6

PayloadIs(p, place) ==
  /\ DOMAIN payloads' = DOMAIN payloads /\ payloads'[p].at = place
  /\ \A q \in DOMAIN payloads :
       /\ q # p => payloads'[q] = payloads[q]
       /\ payloads'[q].job = payloads[q].job
       /\ payloads'[q].resumed = payloads[q].resumed

LEMMA JobStarted ==
  ASSUME ImportTypeOK, NEW p \in DOMAIN payloads, StartJob(p)
  PROVE  /\ ImportTypeOK' /\ JobIs(payloads[p].job, "processing") /\ RetriesStand
         /\ PayloadIs(p, "worker") /\ UNCHANGED <<artifacts, crashes, up, astray>>
<1>1. payloads[p].job \in DOMAIN importJobs /\ "processing" \in JobStatus
  BY PayloadIsTyped DEF JobStatus
<1>2. SetStatus(payloads[p].job, "processing") /\ MovePayload(p, "worker")
      /\ UNCHANGED <<artifacts, crashes, up, astray, byHand>>
  BY DEF StartJob
<1>3. JobIs(payloads[p].job, "processing") /\ RetriesStand /\ importJobs' \in Seq(ImportJob)
  BY <1>1, <1>2, ArtifactStatusSet DEF JobIs, RetriesStand
<1>4. PayloadIs(p, "worker") /\ payloads' \in Seq(Payload)
  BY <1>2, PayloadMoved DEF PayloadIs
<1>5. ImportTypeOK'
  BY <1>2, <1>3, <1>4 DEF ImportTypeOK, JobIs, PayloadIs
<1> QED BY <1>2, <1>3, <1>4, <1>5

LEMMA PayloadDropped ==
  ASSUME ImportTypeOK, NEW p \in DOMAIN payloads, DropPayload(p)
  PROVE  /\ ImportTypeOK' /\ PayloadIs(p, "done") /\ payloads[p].at = "queue"
         /\ importJobs[payloads[p].job].status # "pending"
         /\ importJobs[payloads[p].job].status = "processing" => ~payloads[p].resumed
         /\ UNCHANGED <<artifacts, importJobs, crashes, up, astray>>
<1>1. MovePayload(p, "done") /\ payloads[p].at = "queue"
      /\ UNCHANGED <<artifacts, importJobs, crashes, up, astray, byHand>>
  BY DEF DropPayload
<1>2. PayloadIs(p, "done") /\ payloads' \in Seq(Payload)
  BY <1>1, PayloadMoved DEF PayloadIs
<1>3. /\ importJobs[payloads[p].job].status # "pending"
      /\ importJobs[payloads[p].job].status = "processing" => ~payloads[p].resumed
  BY DEF DropPayload, MayStart, CanBecome, JobTransitions
<1>4. ImportTypeOK'
  BY <1>1, <1>2 DEF ImportTypeOK, PayloadIs
<1> QED BY <1>1, <1>2, <1>3, <1>4

LEMMA OutputStaged ==
  ASSUME ImportTypeOK, NEW p \in DOMAIN payloads, StageOutput(p)
  PROVE  /\ ImportTypeOK' /\ PayloadIs(p, "done") /\ payloads[p].at = "worker"
         /\ \/ JobIs(payloads[p].job, "staged") /\ RetriesStand
            \/ UNCHANGED importJobs /\ importJobs[payloads[p].job].status # "processing"
         /\ UNCHANGED <<artifacts, crashes, up, astray>>
<1>1. PICK j \in DOMAIN importJobs : j = payloads[p].job
  BY PayloadIsTyped
<1> DEFINE new == [importJobs[j] EXCEPT !.status = "staged"]
<1>2. importJobs[j] \in ImportJob
  BY JobIsTyped
<1>3. /\ new \in ImportJob /\ new.status = "staged" /\ new.artifact = importJobs[j].artifact
      /\ new.retries = importJobs[j].retries
  BY <1>2 DEF ImportJob, JobStatus
<1>4. /\ MovePayload(p, "done") /\ payloads[p].at = "worker"
      /\ UNCHANGED <<artifacts, crashes, up, astray, byHand>>
      /\ \/ importJobs' = [importJobs EXCEPT ![j] = new]
         \/ UNCHANGED importJobs /\ importJobs[j].status # "processing"
  BY <1>1 DEF StageOutput
<1> HIDE DEF new
<1>5. PayloadIs(p, "done") /\ payloads' \in Seq(Payload)
  BY <1>4, PayloadMoved DEF PayloadIs
<1>6. CASE importJobs' = [importJobs EXCEPT ![j] = new]
  <2>1. JobIs(j, "staged") /\ RetriesStand /\ importJobs' \in Seq(ImportJob)
    BY <1>3, <1>6, JobReplaced DEF JobIs, JobBecomes, RetriesStand
  <2>2. ImportTypeOK'
    BY <1>4, <1>5, <2>1 DEF ImportTypeOK, JobIs, PayloadIs
  <2> QED BY <1>1, <1>4, <1>5, <2>1, <2>2
<1>7. CASE UNCHANGED importJobs /\ importJobs[j].status # "processing"
  <2>1. ImportTypeOK'
    BY <1>4, <1>5, <1>7 DEF ImportTypeOK, PayloadIs
  <2> QED BY <1>1, <1>4, <1>5, <1>7, <2>1
<1> QED BY <1>4, <1>6, <1>7

LEMMA JobGivenUp ==
  ASSUME ImportTypeOK, NEW p \in DOMAIN payloads, FailJob(p)
  PROVE  /\ ImportTypeOK' /\ PayloadIs(p, "done") /\ payloads[p].at = "worker"
         /\ \/ JobIs(payloads[p].job, "failed") /\ RetriesStand
            \/ UNCHANGED importJobs /\ importJobs[payloads[p].job].status # "processing"
         /\ UNCHANGED <<artifacts, crashes, up, astray>>
<1>1. payloads[p].job \in DOMAIN importJobs /\ "failed" \in JobStatus
  BY PayloadIsTyped DEF JobStatus
<1>2. /\ MovePayload(p, "done") /\ payloads[p].at = "worker"
      /\ UNCHANGED <<artifacts, crashes, up, astray, byHand>>
      /\ \/ SetStatus(payloads[p].job, "failed")
         \/ UNCHANGED importJobs /\ importJobs[payloads[p].job].status # "processing"
  BY DEF FailJob, CanBecome, JobTransitions
<1>3. PayloadIs(p, "done") /\ payloads' \in Seq(Payload)
  BY <1>2, PayloadMoved DEF PayloadIs
<1>4. CASE SetStatus(payloads[p].job, "failed")
  <2>1. JobIs(payloads[p].job, "failed") /\ RetriesStand /\ importJobs' \in Seq(ImportJob)
    BY <1>1, <1>4, ArtifactStatusSet DEF JobIs, RetriesStand
  <2>2. ImportTypeOK'
    BY <1>2, <1>3, <2>1 DEF ImportTypeOK, JobIs, PayloadIs
  <2> QED BY <1>2, <1>3, <2>1, <2>2
<1>5. CASE UNCHANGED importJobs /\ importJobs[payloads[p].job].status # "processing"
  <2>1. ImportTypeOK'
    BY <1>2, <1>3, <1>5 DEF ImportTypeOK, PayloadIs
  <2> QED BY <1>2, <1>3, <1>5, <2>1
<1> QED BY <1>2, <1>4, <1>5

LEMMA WorkerCrashed ==
  ASSUME ImportTypeOK, WorkerCrashes
  PROVE  /\ ImportTypeOK' /\ ~up' /\ crashes' \in Nat /\ crashes' > crashes /\ crashes' > 0
         /\ DOMAIN payloads' = DOMAIN payloads
         /\ \A q \in DOMAIN payloads : /\ payloads'[q].job = payloads[q].job
                                       /\ payloads[q].at = "queue" => payloads'[q].at = "queue"
         /\ UNCHANGED <<artifacts, importJobs, astray>>
<1> DEFINE After(q) == IF payloads[q].at = "worker" THEN [payloads[q] EXCEPT !.at = "done"]
                       ELSE payloads[q]
<1>1. /\ payloads' = [q \in DOMAIN payloads |-> After(q)]
      /\ ~up' /\ crashes' = crashes + 1 /\ crashes < MaxCrashes
      /\ UNCHANGED <<artifacts, importJobs, astray, byHand>>
  BY DEF WorkerCrashes
<1>2. ASSUME NEW q \in DOMAIN payloads
      PROVE  /\ After(q) \in Payload /\ After(q).job = payloads[q].job
             /\ payloads[q].at = "queue" => After(q).at = "queue"
  <2>1. payloads[q] \in Payload
    BY PayloadIsTyped
  <2> QED BY <2>1 DEF Payload
<1> HIDE DEF After
<1>3. /\ DOMAIN payloads' = DOMAIN payloads
      /\ \A q \in DOMAIN payloads : payloads'[q] = After(q)
  BY <1>1
<1>4. payloads' \in Seq(Payload)
  <2>1. Len(payloads) \in Nat /\ DOMAIN payloads = 1..Len(payloads)
    BY DEF ImportTypeOK
  <2>2. payloads' \in [1..Len(payloads) -> Payload]
    BY <1>1, <1>2, <2>1
  <2> QED BY <2>1, <2>2
<1>5. crashes' \in 0..MaxCrashes /\ up' \in BOOLEAN /\ crashes' > crashes /\ crashes' > 0
  <2>1. crashes \in 0..MaxCrashes /\ up' = FALSE
    BY DEF ImportTypeOK, WorkerCrashes
  <2>2. crashes' \in 0..MaxCrashes /\ crashes' > crashes /\ crashes' > 0
    BY <1>1, <2>1, ImportAssumption
  <2> QED BY <2>1, <2>2
<1>6. ImportTypeOK'
  BY <1>1, <1>2, <1>3, <1>4, <1>5 DEF ImportTypeOK
<1> QED BY <1>1, <1>2, <1>3, <1>5, <1>6

(* Every interrupted job whose artifact is there is sent to the worker again. *)
LEMMA WorkerRestarted ==
  ASSUME ImportTypeOK, WorkerRestarts
  PROVE  /\ ImportTypeOK' /\ DOMAIN payloads \subseteq DOMAIN payloads'
         /\ \A q \in DOMAIN payloads : payloads'[q] = payloads[q]
         /\ \A j \in DOMAIN importJobs :
              Resumable(j) => \E q \in DOMAIN payloads' : /\ payloads'[q].job = j
                                                          /\ payloads'[q].resumed
                                                          /\ payloads'[q].at = "queue"
         /\ astray' \subseteq astray
         /\ \A j \in astray \ astray' : Resumable(j)
         /\ UNCHANGED <<artifacts, importJobs, crashes>> /\ ~up
<1>1. PICK R : R = {j \in DOMAIN importJobs : Resumable(j)}
  OBVIOUS
<1>2. PICK order \in [1..Cardinality(R) -> R] :
        /\ \A j \in R : \E i \in DOMAIN order : order[i] = j
        /\ payloads' = payloads \o
             [i \in DOMAIN order |-> [job |-> order[i], resumed |-> TRUE, at |-> "queue"]]
  BY <1>1 DEF WorkerRestarts
<1>3. Cardinality(R) \in Nat
  <2>1. Len(importJobs) \in Nat /\ R \in SUBSET (1..Len(importJobs))
    BY <1>1 DEF ImportTypeOK
  <2>2. IsFiniteSet(1..Len(importJobs))
    BY <2>1, FS_Interval
  <2>3. IsFiniteSet(R)
    BY <2>1, <2>2, FS_Subset
  <2> QED BY <2>3, FS_CardinalityType
<1> DEFINE sent == [i \in DOMAIN order |-> [job |-> order[i], resumed |-> TRUE, at |-> "queue"]]
<1>4. PICK n \in Nat : n = Cardinality(R) /\ DOMAIN order = 1..n
  BY <1>2, <1>3
<1>5. ASSUME NEW i \in 1..n
      PROVE  /\ sent[i] \in Payload /\ sent[i].job = order[i] /\ order[i] \in DOMAIN importJobs
             /\ sent[i].resumed /\ sent[i].at = "queue"
  <2>1. order[i] \in DOMAIN importJobs /\ order[i] \in Nat
    <3>1. order[i] \in R
      BY <1>2, <1>4
    <3>2. \A j \in DOMAIN importJobs : j \in Nat
      BY DEF ImportTypeOK
    <3> QED BY <1>1, <3>1, <3>2
  <2>2. sent[i] = [job |-> order[i], resumed |-> TRUE, at |-> "queue"]
    BY <1>4
  <2>3. [job |-> order[i], resumed |-> TRUE, at |-> "queue"] \in Payload
    BY <2>1 DEF Payload
  <2> HIDE DEF sent
  <2> QED BY <2>1, <2>2, <2>3
<1>6. DOMAIN sent = 1..n /\ payloads' = payloads \o sent
  BY <1>2, <1>4
<1>7. sent = [i \in 1..n |-> sent[i]]
  BY <1>4
<1> HIDE DEF sent
<1>8. sent \in Seq(Payload) /\ Len(sent) = n
  <2>1. sent \in [1..n -> Payload]
    BY <1>5, <1>6, <1>7
  <2> QED BY <2>1
<1>9. payloads \in Seq(Payload) /\ Len(payloads) \in Nat /\ DOMAIN payloads = 1..Len(payloads)
  BY DEF ImportTypeOK
<1>10. /\ payloads' \in Seq(Payload) /\ DOMAIN payloads' = 1..(Len(payloads) + n)
       /\ \A q \in 1..Len(payloads) : payloads'[q] = payloads[q]
       /\ \A i \in 1..n : payloads'[Len(payloads) + i] = sent[i]
  <2>1. payloads' \in Seq(Payload)
    BY <1>6, <1>8, <1>9
  <2>2. DOMAIN payloads' = 1..(Len(payloads) + n)
    <3>1. Len(payloads') = Len(payloads) + n
      BY <1>6, <1>8, <1>9
    <3>2. DOMAIN payloads' = 1..Len(payloads')
      BY <2>1
    <3> QED BY <3>1, <3>2
  <2>3. \A q \in 1..Len(payloads) : payloads'[q] = payloads[q]
    BY <1>6, <1>8, <1>9
  <2>4. \A i \in 1..n : payloads'[Len(payloads) + i] = sent[i]
    BY <1>6, <1>8, <1>9
  <2> QED BY <2>1, <2>2, <2>3, <2>4
<1>11. \A q \in DOMAIN payloads' : payloads'[q].job \in DOMAIN importJobs
  <2> SUFFICES ASSUME NEW q \in DOMAIN payloads'
               PROVE  payloads'[q].job \in DOMAIN importJobs
    OBVIOUS
  <2>1. CASE q \in 1..Len(payloads)
    BY <1>9, <1>10, <2>1, PayloadIsTyped
  <2>2. CASE q \notin 1..Len(payloads)
    <3>1. q - Len(payloads) \in 1..n /\ q = Len(payloads) + (q - Len(payloads))
      BY <1>9, <1>10, <2>2
    <3> QED BY <1>5, <1>10, <3>1
  <2> QED BY <2>1, <2>2
<1>12. /\ ~up /\ up' = TRUE /\ astray' = astray \ R
       /\ UNCHANGED <<artifacts, importJobs, crashes, byHand>>
  BY <1>1 DEF WorkerRestarts
<1>13. ImportTypeOK'
  BY <1>10, <1>11, <1>12 DEF ImportTypeOK
<1>14. ASSUME NEW j \in R
       PROVE  \E q \in DOMAIN payloads' : /\ payloads'[q].job = j /\ payloads'[q].resumed
                                          /\ payloads'[q].at = "queue"
  <2>1. PICK i \in 1..n : order[i] = j
    BY <1>2, <1>4
  <2>2. Len(payloads) + i \in DOMAIN payloads'
    BY <1>9, <1>10
  <2> QED BY <1>5, <1>10, <2>1, <2>2
<1> QED BY <1>1, <1>9, <1>10, <1>12, <1>13, <1>14

-----------------------------------------------------------------------------
(* Artifacts, jobs and payloads keep their types; a job belongs to an artifact
   that was uploaded, and a payload to a job.                              *)
THEOREM ImportsTypeCorrect == ImportSpec => []ImportTypeOK
<1>1. ImportInit => ImportTypeOK
  BY ImportAssumption DEF ImportInit, ImportTypeOK
<1>2. ImportTypeOK /\ [ImportNext]_importVars => ImportTypeOK'
  <2> SUFFICES ASSUME ImportTypeOK, [ImportNext]_importVars
               PROVE  ImportTypeOK'
    OBVIOUS
  <2>1. CASE UNCHANGED importVars
    BY <2>1 DEF importVars, ImportTypeOK
  <2> QED BY <2>1, Uploaded, ScanRefused, ScanPassed, Reimported, ArtifactDeleted, JobReviewed,
             JobRetried, JobStarted, PayloadDropped, OutputStaged, JobGivenUp, WorkerCrashed,
             WorkerRestarted DEF ImportNext
<1> QED BY <1>1, <1>2, PTL DEF ImportSpec

-----------------------------------------------------------------------------
(* No import is lost.                                                      *)

IsQueued(j) == \E p \in DOMAIN payloads : payloads[p].job = j /\ payloads[p].at = "queue"

(* The worker has the job, or cannot drop it when it takes it. *)
IsAttended(j) ==
  \E p \in DOMAIN payloads :
    /\ payloads[p].job = j
    /\ payloads[p].at = "worker" \/ (payloads[p].at = "queue" /\ payloads[p].resumed)

(* What loses a job: its artifact is gone, and the job is retried or the worker
   restarted.                                                              *)
GoneFor(j, attempts) == ~ArtifactOf(j).exists /\ attempts > 0

JobInv(j) ==
  /\ importJobs[j].status = "pending" => IsQueued(j) \/ GoneFor(j, importJobs[j].retries)
  /\ up /\ importJobs[j].status = "processing" => IsAttended(j) \/ GoneFor(j, crashes)

(* A payload that merely waits does not do for a job that is processing: the
   worker would drop it.                                                   *)
LostInv ==
  /\ ~up => crashes > 0
  /\ \A j \in DOMAIN importJobs \ astray : JobInv(j)

(* Payloads that stay, or more of them. *)
LEMMA PayloadsStay ==
  ASSUME DOMAIN payloads \subseteq DOMAIN payloads',
         \A q \in DOMAIN payloads : payloads'[q] = payloads[q]
  PROVE  \A j : (IsQueued(j) => IsQueued(j)') /\ (IsAttended(j) => IsAttended(j)')
BY DEF IsQueued, IsAttended

(* One payload that moves is the business of its own job only. *)
LEMMA OthersStay ==
  ASSUME NEW p \in DOMAIN payloads, NEW place, PayloadIs(p, place)
  PROVE  \A j : j # payloads[p].job =>
           (IsQueued(j) => IsQueued(j)') /\ (IsAttended(j) => IsAttended(j)')
BY DEF PayloadIs, IsQueued, IsAttended

(* A job that keeps its record, while no artifact comes back, is not lost by a
   step that leaves it its payloads.                                       *)
LEMMA JobStays ==
  ASSUME ImportTypeOK, NEW j \in DOMAIN importJobs, JobInv(j), importJobs'[j] = importJobs[j],
         \A a \in DOMAIN artifacts : artifacts'[a].exists => artifacts[a].exists,
         up' => up, crashes' >= crashes, crashes' \in Nat,
         importJobs[j].status = "pending" /\ IsQueued(j) => IsQueued(j)',
         up' /\ importJobs[j].status = "processing" /\ IsAttended(j) => IsAttended(j)'
  PROVE  JobInv(j)'
<1>1. importJobs[j].artifact \in DOMAIN artifacts
  BY DEF ImportTypeOK
<1>2. ArtifactOf(j).exists' => ArtifactOf(j).exists
  BY <1>1 DEF ArtifactOf
<1>3. \A n : GoneFor(j, n) => GoneFor(j, n)'
  BY <1>2 DEF GoneFor
<1>4. GoneFor(j, crashes) => GoneFor(j, crashes)'
  BY <1>2 DEF GoneFor, ImportTypeOK
<1>5. GoneFor(j, importJobs[j].retries) => GoneFor(j, importJobs[j].retries)'
  BY <1>2 DEF GoneFor
<1> QED BY <1>4, <1>5 DEF JobInv

(* Steps that leave the jobs alone, and bring no artifact back. *)
LEMMA JobsStay ==
  ASSUME ImportTypeOK, LostInv, UNCHANGED <<importJobs, astray>>,
         \A a \in DOMAIN artifacts : artifacts'[a].exists => artifacts[a].exists,
         up' => up, ~up' => crashes' > 0, crashes' >= crashes, crashes' \in Nat,
         \A j \in DOMAIN importJobs :
           /\ importJobs[j].status = "pending" /\ IsQueued(j) => IsQueued(j)'
           /\ up' /\ importJobs[j].status = "processing" /\ IsAttended(j) => IsAttended(j)'
  PROVE  LostInv'
<1>1. ASSUME NEW j \in DOMAIN importJobs \ astray PROVE JobInv(j)'
  BY JobStays DEF LostInv
<1> QED BY <1>1 DEF LostInv

(* Steps that change one job and leave the artifacts alone. *)
LEMMA OneJobChanges ==
  ASSUME ImportTypeOK, LostInv, NEW j \in DOMAIN importJobs, NEW status, JobIs(j, status),
         UNCHANGED <<artifacts, up, crashes>>, astray \subseteq astray' \cup {j},
         \A i : i # j => (IsQueued(i) => IsQueued(i)') /\ (IsAttended(i) => IsAttended(i)'),
         j \in astray' \/ JobInv(j)'
  PROVE  LostInv'
<1>1. ASSUME NEW i \in DOMAIN importJobs' \ astray' PROVE JobInv(i)'
  <2>1. i \in DOMAIN importJobs
    BY DEF JobIs
  <2>2. CASE i # j
    <3>1. importJobs'[i] = importJobs[i] /\ JobInv(i)
      BY <2>1, <2>2 DEF JobIs, LostInv
    <3>2. crashes' >= crashes /\ crashes' \in Nat
      BY DEF ImportTypeOK
    <3> QED BY <2>1, <2>2, <3>1, <3>2, JobStays
  <2>3. CASE i = j
    BY <2>3
  <2> QED BY <2>2, <2>3
<1> QED BY <1>1 DEF LostInv

(* Steps that make a job. *)
LEMMA NewJob ==
  ASSUME ImportTypeOK, LostInv, NEW n \in Nat, UNCHANGED <<up, crashes>>, astray \subseteq astray',
         \A b \in DOMAIN artifacts : artifacts'[b].exists = artifacts[b].exists,
         DOMAIN importJobs' = DOMAIN importJobs \cup {n},
         \A i \in DOMAIN importJobs : importJobs'[i] = importJobs[i],
         DOMAIN payloads \subseteq DOMAIN payloads',
         \A q \in DOMAIN payloads : payloads'[q] = payloads[q],
         n \in astray' \/ JobInv(n)'
  PROVE  LostInv'
<1>1. \A j : (IsQueued(j) => IsQueued(j)') /\ (IsAttended(j) => IsAttended(j)')
  BY PayloadsStay
<1>2. ASSUME NEW i \in DOMAIN importJobs' \ astray' PROVE JobInv(i)'
  <2>1. CASE i \in DOMAIN importJobs
    <3>1. importJobs'[i] = importJobs[i] /\ JobInv(i)
      BY <2>1, <1>2 DEF LostInv
    <3>2. crashes' >= crashes /\ crashes' \in Nat
      BY DEF ImportTypeOK
    <3> QED BY <1>1, <2>1, <3>1, <3>2, JobStays
  <2>2. CASE i = n
    BY <1>2, <2>2
  <2> QED BY <2>1, <2>2
<1> QED BY <1>2 DEF LostInv

LEMMA NewJobIsQueued ==
  ASSUME ImportTypeOK, LostInv, NEW a \in DOMAIN artifacts, JobQueued(a),
         \A b \in DOMAIN artifacts : artifacts'[b].exists = artifacts[b].exists,
         UNCHANGED <<crashes, up, astray>>
  PROVE  LostInv'
<1>1. PICK j \in Nat : j = Len(importJobs) + 1
  BY DEF ImportTypeOK
<1>2. /\ DOMAIN importJobs' = DOMAIN importJobs \cup {j}
      /\ \A i \in DOMAIN importJobs : importJobs'[i] = importJobs[i]
      /\ importJobs'[j].status = "pending"
      /\ DOMAIN payloads \subseteq DOMAIN payloads'
      /\ \A q \in DOMAIN payloads : payloads'[q] = payloads[q]
  BY <1>1 DEF JobQueued
<1>3. IsQueued(j)'
  BY <1>1 DEF JobQueued, IsQueued
<1>4. JobInv(j)'
  BY <1>2, <1>3 DEF JobInv
<1> QED BY <1>2, <1>4, NewJob

(* Through retries, late results, crashes and restarts no job is lost that
   nobody took into their own hands, unless its artifact is gone and it was
   retried or the worker restarted (retryJob, listResumableJobs).          *)
THEOREM ImportsAreKept == ImportSpec => []NoImportIsLost
<1>1. ImportInit => LostInv
  BY DEF ImportInit, LostInv
<1>2. ImportTypeOK /\ LostInv /\ [ImportNext]_importVars => LostInv'
  <2> SUFFICES ASSUME ImportTypeOK, LostInv, [ImportNext]_importVars
               PROVE  LostInv'
    OBVIOUS
  <2>c. crashes \in Nat /\ crashes >= crashes /\ (~up => crashes > 0)
    BY DEF ImportTypeOK, LostInv
  <2>1. CASE UNCHANGED importVars
    BY <2>1, <2>c, JobsStay DEF importVars, IsQueued, IsAttended
  <2>2. ASSUME UNCHANGED <<importJobs, payloads, crashes, up, astray>>,
               \A a \in DOMAIN artifacts : artifacts'[a].exists => artifacts[a].exists
        PROVE  LostInv'
    BY <2>2, <2>c, JobsStay DEF IsQueued, IsAttended
  <2>3. ASSUME UploadArtifact PROVE LostInv'
    BY <2>2, <2>3, Uploaded DEF ArtifactsStand
  <2>4. ASSUME NEW a \in DOMAIN artifacts, ScanRefuses(a) PROVE LostInv'
    BY <2>2, <2>4, ScanRefused
  <2>5. ASSUME NEW a \in DOMAIN artifacts, ScanPasses(a) PROVE LostInv'
    BY <2>5, ScanPassed, NewJobIsQueued
  <2>6. ASSUME NEW a \in DOMAIN artifacts, Reimport(a) PROVE LostInv'
    <3>1. CASE JobQueued(a) /\ UNCHANGED astray
      BY <2>6, <3>1, Reimported, NewJobIsQueued
    <3>2. CASE JobLeft(a)
      <4>1. PICK n \in Nat : n = Len(importJobs) + 1
        BY DEF ImportTypeOK
      <4>2. /\ DOMAIN importJobs' = DOMAIN importJobs \cup {n}
            /\ \A i \in DOMAIN importJobs : importJobs'[i] = importJobs[i]
            /\ astray \subseteq astray' /\ n \in astray' /\ UNCHANGED payloads
        BY <3>2, <4>1 DEF JobLeft
      <4>3. UNCHANGED <<artifacts, crashes, up>>
        BY <2>6, Reimported
      <4> QED BY <4>2, <4>3, NewJob
    <3> QED BY <2>6, <3>1, <3>2, Reimported
  <2>7. ASSUME NEW a \in DOMAIN artifacts, DeleteArtifact(a) PROVE LostInv'
    BY <2>2, <2>7, ArtifactDeleted DEF ArtifactsStand
  <2>8. ASSUME NEW j \in DOMAIN importJobs, NEW status \in JobStatus, TransitionJobStatus(j, status)
        PROVE  LostInv'
    <3>1. /\ JobIs(j, status) /\ UNCHANGED <<artifacts, payloads, crashes, up>>
          /\ astray \subseteq astray' /\ (status \in {"pending", "processing"} => j \in astray')
      BY <2>8, JobReviewed
    <3>2. \A i : (IsQueued(i) => IsQueued(i)') /\ (IsAttended(i) => IsAttended(i)')
      BY <3>1 DEF IsQueued, IsAttended
    <3>3. j \in astray' \/ JobInv(j)'
      BY <3>1 DEF JobInv, JobIs
    <3> QED BY <3>1, <3>2, <3>3, OneJobChanges
  <2>9. ASSUME NEW j \in DOMAIN importJobs, RetryJob(j) PROVE LostInv'
    <3>1. /\ JobIs(j, "pending") /\ UNCHANGED <<artifacts, crashes, up>>
          /\ importJobs'[j].retries = importJobs[j].retries + 1
          /\ DOMAIN payloads \subseteq DOMAIN payloads'
          /\ \A q \in DOMAIN payloads : payloads'[q] = payloads[q]
          /\ artifacts[importJobs[j].artifact].exists => IsQueued(j)'
          /\ astray' = astray \ {j}
      BY <2>9, JobRetried DEF IsQueued
    <3>2. \A i : (IsQueued(i) => IsQueued(i)') /\ (IsAttended(i) => IsAttended(i)')
      BY <3>1, PayloadsStay
    <3>3. importJobs'[j].retries > 0
      BY <3>1, JobIsTyped
    <3>4. ArtifactOf(j)' = artifacts[importJobs[j].artifact]
      BY <3>1 DEF ArtifactOf, JobIs
    <3>5. importJobs'[j].status = "pending"
      BY <3>1 DEF JobIs
    <3>6. IsQueued(j)' \/ GoneFor(j, importJobs[j].retries)'
      BY <3>1, <3>3, <3>4 DEF GoneFor
    <3>7. JobInv(j)'
      BY <3>5, <3>6 DEF JobInv
    <3> QED BY <3>1, <3>2, <3>7, OneJobChanges
  <2>10. ASSUME NEW p \in DOMAIN payloads, StartJob(p) PROVE LostInv'
    <3>1. PICK j \in DOMAIN importJobs : j = payloads[p].job
      BY PayloadIsTyped
    <3>2. /\ JobIs(j, "processing") /\ PayloadIs(p, "worker")
          /\ UNCHANGED <<artifacts, crashes, up, astray>>
      BY <2>10, <3>1, JobStarted
    <3>3. IsAttended(j)'
      BY <3>1, <3>2 DEF PayloadIs, IsAttended
    <3>4. JobInv(j)'
      BY <3>2, <3>3 DEF JobInv, JobIs
    <3> QED BY <3>1, <3>2, <3>4, OthersStay, OneJobChanges
  <2>11. ASSUME NEW p \in DOMAIN payloads, DropPayload(p) PROVE LostInv'
    <3>1. /\ PayloadIs(p, "done") /\ payloads[p].at = "queue"
          /\ importJobs[payloads[p].job].status # "pending"
          /\ importJobs[payloads[p].job].status = "processing" => ~payloads[p].resumed
          /\ UNCHANGED <<artifacts, importJobs, crashes, up, astray>>
      BY <2>11, PayloadDropped
    <3>2. \A j \in DOMAIN importJobs :
            /\ importJobs[j].status = "pending" /\ IsQueued(j) => IsQueued(j)'
            /\ importJobs[j].status = "processing" /\ IsAttended(j) => IsAttended(j)'
      BY <3>1 DEF PayloadIs, IsQueued, IsAttended
    <3> QED BY <2>c, <3>1, <3>2, JobsStay
  <2>12. ASSUME NEW p \in DOMAIN payloads, PayloadIs(p, "done"), payloads[p].at = "worker",
                UNCHANGED <<artifacts, crashes, up, astray>>,
                \/ JobIs(payloads[p].job, "staged") \/ JobIs(payloads[p].job, "failed")
                \/ UNCHANGED importJobs /\ importJobs[payloads[p].job].status # "processing"
         PROVE  LostInv'
    <3>1. PICK j \in DOMAIN importJobs : j = payloads[p].job
      BY PayloadIsTyped
    <3>2. \A i : i # j => (IsQueued(i) => IsQueued(i)') /\ (IsAttended(i) => IsAttended(i)')
      BY <2>12, <3>1, OthersStay
    <3>3. CASE JobIs(j, "staged") \/ JobIs(j, "failed")
      <4>1. JobInv(j)'
        BY <3>3 DEF JobInv, JobIs
      <4> QED BY <2>12, <3>2, <3>3, <4>1, OneJobChanges
    <3>4. CASE UNCHANGED importJobs /\ importJobs[j].status # "processing"
      <4>1. IsQueued(j) => IsQueued(j)'
        BY <2>12 DEF PayloadIs, IsQueued
      <4> QED BY <2>12, <2>c, <3>2, <3>4, <4>1, JobsStay
    <3> QED BY <2>12, <3>1, <3>3, <3>4
  <2>13. ASSUME NEW p \in DOMAIN payloads, StageOutput(p) PROVE LostInv'
    BY <2>12, <2>13, OutputStaged
  <2>14. ASSUME NEW p \in DOMAIN payloads, FailJob(p) PROVE LostInv'
    BY <2>12, <2>14, JobGivenUp
  <2>15. ASSUME WorkerCrashes PROVE LostInv'
    <3>1. /\ ~up' /\ UNCHANGED <<artifacts, importJobs, astray>>
          /\ DOMAIN payloads' = DOMAIN payloads
          /\ crashes' \in Nat /\ crashes' > 0 /\ crashes' >= crashes
          /\ \A q \in DOMAIN payloads : /\ payloads'[q].job = payloads[q].job
                                        /\ payloads[q].at = "queue" => payloads'[q].at = "queue"
      BY <2>15, <2>c, WorkerCrashed
    <3>2. ASSUME NEW j, IsQueued(j) PROVE IsQueued(j)'
      <4>1. PICK p \in DOMAIN payloads : payloads[p].job = j /\ payloads[p].at = "queue"
        BY <3>2 DEF IsQueued
      <4>2. p \in DOMAIN payloads' /\ payloads'[p].job = j /\ payloads'[p].at = "queue"
        BY <3>1, <4>1
      <4> QED BY <4>2 DEF IsQueued
    <3> QED BY <3>1, <3>2, JobsStay
  <2>16. ASSUME WorkerRestarts PROVE LostInv'
    <3>1. /\ UNCHANGED <<artifacts, importJobs, crashes>> /\ ~up
          /\ DOMAIN payloads \subseteq DOMAIN payloads'
          /\ \A q \in DOMAIN payloads : payloads'[q] = payloads[q]
          /\ \A j \in astray \ astray' : Resumable(j)
          /\ \A j \in DOMAIN importJobs : Resumable(j) => IsAttended(j)'
      BY <2>16, WorkerRestarted DEF IsAttended
    <3>2. \A i : (IsQueued(i) => IsQueued(i)') /\ (IsAttended(i) => IsAttended(i)')
      BY <3>1, PayloadsStay
    <3>3. ASSUME NEW j \in DOMAIN importJobs \ astray' PROVE JobInv(j)'
      <4>1. ~Resumable(j) => JobInv(j)
        BY <3>1, <3>3 DEF LostInv
      <4>2. ArtifactOf(j)' = ArtifactOf(j)
        BY <3>1 DEF ArtifactOf
      <4>3. CASE importJobs[j].status = "pending"
        <5>1. JobInv(j)
          BY <4>1, <4>3 DEF Resumable
        <5>2. IsQueued(j)' \/ GoneFor(j, importJobs[j].retries)'
          BY <3>1, <3>2, <4>2, <4>3, <5>1 DEF JobInv, GoneFor
        <5> QED BY <3>1, <4>3, <5>2 DEF JobInv
      <4>4. CASE importJobs[j].status = "processing"
        <5>1. IsAttended(j)' \/ GoneFor(j, crashes)'
          BY <2>c, <3>1, <4>2, <4>4 DEF Resumable, GoneFor, ArtifactOf
        <5> QED BY <3>1, <4>4, <5>1 DEF JobInv
      <4>5. CASE importJobs[j].status \notin {"pending", "processing"}
        BY <3>1, <4>5 DEF JobInv
      <4> QED BY <4>3, <4>4, <4>5
    <3>4. ~up' => crashes' > 0
      BY <2>c, <3>1
    <3> QED BY <3>1, <3>3, <3>4 DEF LostInv
  <2> QED BY <2>1, <2>3, <2>4, <2>5, <2>6, <2>7, <2>8, <2>9, <2>10, <2>11, <2>13, <2>14,
             <2>15, <2>16 DEF ImportNext
<1>3. LostInv => NoImportIsLost
  <2> SUFFICES ASSUME LostInv, NEW j \in DOMAIN importJobs \ astray
               PROVE  /\ importJobs[j].status = "pending" =>
                           \/ HasPayload(j, {"queue"})
                           \/ ~ArtifactOf(j).exists /\ importJobs[j].retries > 0
                      /\ importJobs[j].status = "processing" =>
                           \/ ~up \/ HasPayload(j, {"queue", "worker"})
                           \/ ~ArtifactOf(j).exists /\ crashes > 0
    BY DEF NoImportIsLost
  <2>1. JobInv(j)
    BY DEF LostInv
  <2>2. IsQueued(j) => HasPayload(j, {"queue"})
    BY DEF IsQueued, HasPayload
  <2>3. IsAttended(j) => HasPayload(j, {"queue", "worker"})
    BY DEF IsAttended, HasPayload
  <2> QED BY <2>1, <2>2, <2>3 DEF JobInv, GoneFor
<1> QED BY <1>1, <1>2, <1>3, ImportsTypeCorrect, PTL DEF ImportSpec
=============================================================================
