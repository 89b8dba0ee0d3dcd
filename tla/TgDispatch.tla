------------------------------- MODULE TgDispatch -------------------------------
(***************************************************************************)
(* The Telegram alert dispatcher, internal/tg/dispatch/dispatch.go: every  *)
(* replica of the bot runs one, a Postgres advisory lock picks the one     *)
(* that works.  It turns rail events that match alert rules into rows of   *)
(* notification_jobs, claims due rows, sends them and marks them; chats    *)
(* create and delete rules at the same time (internal/tg/commands).  One   *)
(* action is one SQL statement or one call to Telegram, so the other       *)
(* replica, a chat, a crash or a lost connection can come between any two. *)
(***************************************************************************)
EXTENDS Integers, FiniteSets

CONSTANTS
  Replicas,    (* bot processes                                            *)
  Conns,       (* pooled database connections of one process               *)
  Events,      (* ids of rail_events rows                                  *)
  Chats,       (* Telegram chats                                           *)
  Rules,       (* ids of alert_rules rows                                  *)
  RuleChat,    (* the chat a rule belongs to                               *)
  RuleWants,   (* the events a rule's filters match                        *)
  MaxAttempts, (* maxAttempts: 5                                           *)
  ScanLimit,   (* events that one scan takes: 100                          *)
  Batch,       (* Runner.Batch: 10 by default                              *)
  NoTime,      (* no such row yet, or any more                             *)
  NoJob,       (* no notification_jobs row for this event and chat         *)
  Nobody,      (* the lock is free                                         *)
  MaxTime,     (* bound: rules created                                     *)
  MaxResets,   (* bound: resets begun                                      *)
  MaxMishaps,  (* bound: crashes, failed statements and lost answers       *)
  MaxLockLoss  (* bound: closings of the connection that holds the lock    *)

ASSUME RulesAreTyped ==
  RuleChat \in [Rules -> Chats] /\ RuleWants \in [Rules -> SUBSET Events]
ASSUME LimitsAreNumbers ==
  /\ {MaxAttempts, ScanLimit, Batch} \subseteq Nat \ {0}
  /\ MaxTime \in Nat /\ MaxResets \in Nat /\ MaxMishaps \in Nat /\ MaxLockLoss \in Nat
ASSUME MarksAreDistinct ==
  NoTime \notin Nat /\ Nobody \notin Replicas \X Conns

Jobs == Events \X Chats      (* UNIQUE (event_id, tg_chat_id)              *)
Row  == [status : {"pending", "in_flight", "sent", "dead"},
         attempts : Nat, due : BOOLEAN]
Claim == [job : Jobs, attempts : Nat, ok : BOOLEAN]
ASSUME NoJobIsNoRow == NoJob \notin Row

VARIABLES
  now,       (* the database clock: it moves when a rule is created        *)
  occurred,  (* rail_events.occurred_at                                    *)
  created,   (* alert_rules.created_at                                     *)
  jobs,      (* table notification_jobs                                    *)
  lock,      (* the session that holds the leader lock                     *)
  pc,        (* where a replica's Run is                                   *)
  todo,      (* the events its scan found and it has not enqueued yet      *)
  inserting, (* the jobs its running INSERT ... SELECT will insert         *)
  batch,     (* the jobs it claimed and has not sent, with their attempts  *)
  sending,   (* the job it sent last and has not marked: none or one       *)
  resetting, (* the chat whose DeleteRules a replica is half through: none or one *)
  delivered, (* history: messages a chat received for an event             *)
  tries,     (* history: calls of sendMessage for a job                    *)
  since,     (* history: when a rule was created, deleted or not           *)
  quiet,     (* history: chats reset and without a new rule                *)
  overtaken, (* history: a chat's resets that ended after it had made a rule again *)
  resets,    (* counts resets                                              *)
  mishaps, lockLosses

tables  == <<now, occurred, created, resetting, since, quiet, overtaken, resets>>
process == <<pc, todo, inserting, batch, sending>>
vars    == <<tables, process, jobs, lock, delivered, tries, mishaps, lockLosses>>

Working == {"scan", "enqueue", "insert", "claim", "send", "mark"}

TypeOK ==
  /\ now \in 0..MaxTime
  /\ occurred \in [Events -> Nat \cup {NoTime}]
  /\ created \in [Rules -> Nat \cup {NoTime}]
  /\ jobs \in [Jobs -> Row \cup {NoJob}]
  /\ lock \in (Replicas \X Conns) \cup {Nobody}
  /\ pc \in [Replicas -> {"off", "reset", "try", "standby"} \cup Working]
  /\ todo \in [Replicas -> SUBSET Events]
  /\ inserting \in [Replicas -> SUBSET Jobs]
  /\ batch \in [Replicas -> SUBSET Claim] /\ sending \in [Replicas -> SUBSET Claim]
  /\ \A p \in Replicas :
       /\ inserting[p] # {} => pc[p] = "insert"
       /\ batch[p] # {} => pc[p] \in {"send", "mark"}
       /\ sending[p] # {} <=> pc[p] = "mark"
  /\ resetting \in [Replicas -> SUBSET Chats] /\ quiet \subseteq Chats
  /\ overtaken \in [Chats -> Nat]
  /\ delivered \in [Jobs -> Nat] /\ tries \in [Jobs -> Nat]
  /\ since \in [Rules -> Nat \cup {NoTime}]

Init ==
  /\ now = 0
  /\ occurred = [e \in Events |-> NoTime]
  /\ created = [r \in Rules |-> NoTime]
  /\ jobs = [j \in Jobs |-> NoJob]
  /\ lock = Nobody
  /\ pc = [p \in Replicas |-> "off"]
  /\ todo = [p \in Replicas |-> {}]
  /\ inserting = [p \in Replicas |-> {}]
  /\ batch = [p \in Replicas |-> {}]
  /\ sending = [p \in Replicas |-> {}]
  /\ resetting = [p \in Replicas |-> {}] /\ quiet = {}
  /\ overtaken = [c \in Chats |-> 0]
  /\ delivered = [j \in Jobs |-> 0]
  /\ tries = [j \in Jobs |-> 0]
  /\ since = [r \in Rules |-> NoTime]
  /\ resets = 0 /\ mishaps = 0 /\ lockLosses = 0

Goto(p, where) == pc' = [pc EXCEPT ![p] = where]

-----------------------------------------------------------------------------
(* Events, rules and time *)

(* An event carries the time of its poll, and is seen once that commits.   *)
EventCommits(e) ==
  /\ occurred[e] = NoTime
  /\ \E t \in 0..now : occurred' = [occurred EXCEPT ![e] = t]
  /\ UNCHANGED <<now, created, resetting, since, quiet, overtaken, resets, process, jobs,
                 lock, delivered, tries, mishaps, lockLosses>>

(* The bot of every replica handles commands, one update at a time, so that *)
(* another replica may serve a chat while this one is half through its      *)
(* reset.                                                                   *)
Handles(p) == pc[p] # "off" /\ resetting[p] = {}

(* A chat that has a rule. *)
Ruled(c) == \E r \in Rules : RuleChat[r] = c /\ created[r] # NoTime

(* Its id is a new one and its created_at later than the time of any event  *)
(* known so far.                                                            *)
CreateRule(r) ==
  /\ \E p \in Replicas : Handles(p)
  /\ now < MaxTime
  /\ since[r] = NoTime
  /\ now' = now + 1
  /\ created' = [created EXCEPT ![r] = now']
  /\ since' = [since EXCEPT ![r] = now']
  /\ quiet' = quiet \ {RuleChat[r]}
  /\ UNCHANGED <<occurred, resetting, overtaken, resets, process, jobs, lock, delivered,
                 tries, mishaps, lockLosses>>

(* /unsubscribe deletes the rule only. *)
DeleteRule(r) ==
  /\ \E p \in Replicas : Handles(p)
  /\ created[r] # NoTime
  /\ created' = [created EXCEPT ![r] = NoTime]
  /\ UNCHANGED <<now, occurred, resetting, since, quiet, overtaken, resets, process, jobs,
                 lock, delivered, tries, mishaps, lockLosses>>

(* "Reset everything": the rules first, then, in a second statement and no  *)
(* transaction, the unsent jobs.                                            *)
DeleteRules(p, c) ==
  /\ Handles(p)
  /\ resets < MaxResets
  /\ resets' = resets + 1
  /\ created' = [r \in Rules |-> IF RuleChat[r] = c THEN NoTime ELSE created[r]]
  /\ resetting' = [resetting EXCEPT ![p] = {c}]
  /\ UNCHANGED <<now, occurred, since, quiet, overtaken, process, jobs, lock, delivered,
                 tries, mishaps, lockLosses>>

(* Slip: everything but the dead counts as unsent. *)
SlipUnsent(j) == jobs[j] # NoJob /\ jobs[j].status # "dead"

Unsent(j) == jobs[j] # NoJob /\ jobs[j].status \in {"pending", "in_flight"}

DeleteQueuedJobs(p, c) ==
  /\ c \in resetting[p]
  /\ jobs' = [j \in Jobs |-> IF j[2] = c /\ Unsent(j) THEN NoJob ELSE jobs[j]]
  /\ resetting' = [resetting EXCEPT ![p] = {}]
  /\ quiet' = IF Ruled(c) THEN quiet ELSE quiet \cup {c}
  /\ overtaken' = [overtaken EXCEPT ![c] = IF Ruled(c) THEN @ + 1 ELSE @]
  /\ UNCHANGED <<now, occurred, created, since, resets, process, lock, delivered, tries,
                 mishaps, lockLosses>>

(* Its second statement fails; the error is only logged. *)
ResetFails(p) ==
  /\ resetting[p] # {}
  /\ mishaps < MaxMishaps
  /\ mishaps' = mishaps + 1
  /\ resetting' = [resetting EXCEPT ![p] = {}]
  /\ UNCHANGED <<now, occurred, created, since, quiet, overtaken, resets, process, jobs,
                 lock, delivered, tries, lockLosses>>

(* The filters of a rule, and its age. *)
SlipMatches(r, e) == created[r] # NoTime /\ occurred[e] # NoTime /\ e \in RuleWants[r]

Matches(r, e) ==
  /\ created[r] # NoTime /\ occurred[e] # NoTime
  /\ e \in RuleWants[r]
  /\ occurred[e] >= created[r]

Audience(e) == {RuleChat[r] : r \in {x \in Rules : Matches(x, e)}}

(* Slip: events whose jobs exist already are scanned as well. *)
SlipUndispatched == {e \in Events : Audience(e) # {}}

Undispatched == {e \in Events : \E c \in Audience(e) : jobs[<<e, c>>] = NoJob}

-----------------------------------------------------------------------------
(* Leadership *)

Start(p) ==
  /\ pc[p] = "off"
  /\ Goto(p, "reset")
  /\ UNCHANGED <<tables, todo, inserting, batch, sending, jobs, lock, delivered, tries,
                 mishaps, lockLosses>>

(* Slip: everything that is neither pending nor dead is requeued. *)
SlipInFlight(j) == jobs[j] # NoJob /\ jobs[j].status \notin {"pending", "dead"}

InFlight(j) == jobs[j] # NoJob /\ jobs[j].status = "in_flight"

(* Run begins by requeueing what a dead process left behind, before it     *)
(* knows whether it is the leader.                                         *)
ResetInFlight(p) ==
  /\ pc[p] = "reset"
  /\ jobs' = [j \in Jobs |->
       IF InFlight(j) THEN [jobs[j] EXCEPT !.status = "pending", !.due = TRUE] ELSE jobs[j]]
  /\ Goto(p, "try")
  /\ UNCHANGED <<tables, todo, inserting, batch, sending, lock, delivered, tries, mishaps,
                 lockLosses>>

(* pg_try_advisory_lock on whichever connection the pool hands out; a      *)
(* session that holds the lock gets it again.                              *)
SlipLockIsGranted(p, c) == TRUE

LockIsGranted(p, c) == lock \in {Nobody, <<p, c>>}

TryLeader(p, c) ==
  /\ pc[p] = "try"
  /\ IF LockIsGranted(p, c)
     THEN lock' = <<p, c>> /\ Goto(p, "scan")
     ELSE lock' = lock /\ Goto(p, "standby")
  /\ UNCHANGED <<tables, todo, inserting, batch, sending, jobs, delivered, tries, mishaps,
                 lockLosses>>

(* waitForLeadership: once it gets the lock it starts Run over. *)
StandbyGetsLock(p, c) ==
  /\ pc[p] = "standby"
  /\ LockIsGranted(p, c)
  /\ lock' = <<p, c>>
  /\ Goto(p, "reset")
  /\ UNCHANGED <<tables, todo, inserting, batch, sending, jobs, delivered, tries, mishaps,
                 lockLosses>>

-----------------------------------------------------------------------------
(* One tick of the leader *)

AtMost(n, cap) == IF n < cap THEN n ELSE cap

(* ORDER BY occurred_at LIMIT 100; which of the events of one poll come      *)
(* first, by their ids, is left open.                                        *)
Oldest(taken) ==
  /\ Cardinality(taken) = AtMost(Cardinality(Undispatched), ScanLimit)
  /\ \A e \in taken, later \in Undispatched \ taken : occurred[e] <= occurred[later]

(* EnqueueUndispatchedEvents: the SELECT. *)
Scan(p) ==
  /\ pc[p] = "scan"
  /\ \E taken \in SUBSET Undispatched :
       /\ Oldest(taken)
       /\ todo' = [todo EXCEPT ![p] = taken]
       /\ Goto(p, IF taken = {} THEN "claim" ELSE "enqueue")
  /\ UNCHANGED <<tables, inserting, batch, sending, jobs, lock, delivered, tries, mishaps,
                 lockLosses>>

(* EnqueueEvent is one INSERT ... SELECT: it reads the rules ... *)
EnqueueReads(p) ==
  /\ pc[p] = "enqueue"
  /\ \E e \in todo[p] :
       /\ \A later \in todo[p] : occurred[e] <= occurred[later]
       /\ todo' = [todo EXCEPT ![p] = @ \ {e}]
       /\ inserting' = [inserting EXCEPT ![p] = {e} \X Audience(e)]
  /\ Goto(p, "insert")
  /\ UNCHANGED <<tables, batch, sending, jobs, lock, delivered, tries, mishaps, lockLosses>>

(* ... and inserts, ON CONFLICT DO NOTHING. *)
Inserted(j) ==
  IF jobs[j] = NoJob THEN [status |-> "pending", attempts |-> 0, due |-> TRUE] ELSE jobs[j]

EnqueueInserts(p) ==
  /\ pc[p] = "insert"
  /\ jobs' = [j \in Jobs |-> IF j \in inserting[p] THEN Inserted(j) ELSE jobs[j]]
  /\ inserting' = [inserting EXCEPT ![p] = {}]
  /\ Goto(p, IF todo[p] = {} THEN "claim" ELSE "enqueue")
  /\ UNCHANGED <<tables, todo, batch, sending, lock, delivered, tries, mishaps, lockLosses>>

(* Slip: only pending jobs are claimed. *)
SlipDue == {j \in Jobs : jobs[j] # NoJob /\ jobs[j].status = "pending" /\ jobs[j].due}

(* claimDue takes jobs that are in flight, too: those of a tick that failed. *)
Due == {j \in Jobs : Unsent(j) /\ jobs[j].due}

Claimed(row) == [row EXCEPT !.status = "in_flight", !.attempts = row.attempts + 1]

ClaimDue(p) ==
  /\ pc[p] = "claim"
  /\ \E picked \in SUBSET Due :
       /\ Cardinality(picked) = AtMost(Cardinality(Due), Batch)
       /\ jobs' = [j \in Jobs |-> IF j \in picked THEN Claimed(jobs[j]) ELSE jobs[j]]
       /\ batch' = [batch EXCEPT ![p] =
            {[job |-> j, attempts |-> jobs'[j].attempts, ok |-> FALSE] : j \in picked}]
       /\ Goto(p, IF picked = {} THEN "scan" ELSE "send")
  /\ UNCHANGED <<tables, todo, inserting, sending, lock, delivered, tries, mishaps,
                 lockLosses>>

(* Telegram may refuse a message, or take it and have its answer lost. *)
Reply(p) ==
  /\ pc[p] = "send"
  /\ \E b \in batch[p], got \in BOOLEAN, ok \in BOOLEAN :
       /\ ok => got
       /\ mishaps' = IF got /\ ~ok THEN mishaps + 1 ELSE mishaps
       /\ mishaps' <= MaxMishaps
       /\ batch' = [batch EXCEPT ![p] = @ \ {b}]
       /\ sending' = [sending EXCEPT ![p] = {[b EXCEPT !.ok = ok]}]
       /\ delivered' = [delivered EXCEPT ![b.job] = IF got THEN @ + 1 ELSE @]
       /\ tries' = [tries EXCEPT ![b.job] = @ + 1]
  /\ Goto(p, "mark")
  /\ UNCHANGED <<tables, todo, inserting, jobs, lock, lockLosses>>

(* Slip: a failed message is marked as sent as well. *)
SlipMarked(row, b) == [row EXCEPT !.status = "sent"]

(* Slip: gives up one attempt early. *)
SlipMarkedEarly(row, b) ==
  IF b.ok THEN [row EXCEPT !.status = "sent"]
  ELSE [row EXCEPT !.status = IF b.attempts + 1 >= MaxAttempts THEN "dead" ELSE "pending",
                   !.due    = FALSE]

(* markSent, and markFailed with its limit on attempts.  Neither looks at   *)
(* the status it overwrites.                                                *)
Marked(row, b) ==
  IF b.ok THEN [row EXCEPT !.status = "sent"]
  ELSE [row EXCEPT !.status = IF b.attempts >= MaxAttempts THEN "dead" ELSE "pending",
                   !.due    = FALSE]

Mark(p) ==
  /\ pc[p] = "mark"
  /\ \E b \in sending[p] :
       jobs' = [jobs EXCEPT ![b.job] = IF @ = NoJob THEN NoJob ELSE Marked(@, b)]
  /\ sending' = [sending EXCEPT ![p] = {}]
  /\ Goto(p, IF batch[p] = {} THEN "scan" ELSE "send")
  /\ UNCHANGED <<tables, todo, inserting, batch, lock, delivered, tries, mishaps, lockLosses>>

(* The backoff after a failure has passed. *)
BackoffEnds(j) ==
  /\ jobs[j] # NoJob /\ ~jobs[j].due
  /\ jobs' = [jobs EXCEPT ![j].due = TRUE]
  /\ UNCHANGED <<tables, process, lock, delivered, tries, mishaps, lockLosses>>

-----------------------------------------------------------------------------
(* What goes wrong *)

Forgets(p) ==
  /\ todo' = [todo EXCEPT ![p] = {}]
  /\ inserting' = [inserting EXCEPT ![p] = {}]
  /\ batch' = [batch EXCEPT ![p] = {}]
  /\ sending' = [sending EXCEPT ![p] = {}]

(* A statement fails, or its answer is lost: Tick returns, the next one     *)
(* starts over.                                                             *)
TickFails(p) ==
  /\ pc[p] \in Working
  /\ mishaps < MaxMishaps
  /\ mishaps' = mishaps + 1
  /\ Forgets(p)
  /\ Goto(p, "scan")
  /\ UNCHANGED <<tables, jobs, lock, delivered, tries, lockLosses>>

(* The process dies, or Run returns an error and main stops it.  Its        *)
(* sessions end.                                                            *)
Crash(p) ==
  /\ pc[p] # "off"
  /\ mishaps < MaxMishaps
  /\ mishaps' = mishaps + 1
  /\ Forgets(p)
  /\ Goto(p, "off")
  /\ lock' = IF lock # Nobody /\ lock[1] = p THEN Nobody ELSE lock
  /\ resetting' = [resetting EXCEPT ![p] = {}]
  /\ UNCHANGED <<now, occurred, created, since, quiet, overtaken, resets, jobs, delivered,
                 tries, lockLosses>>

(* The pool closes the connection that holds the lock (MaxConnLifetime,     *)
(* MaxConnIdleTime); the replica does not notice.                           *)
LockConnCloses ==
  /\ lock # Nobody
  /\ lockLosses < MaxLockLoss
  /\ lockLosses' = lockLosses + 1
  /\ lock' = Nobody
  /\ UNCHANGED <<tables, process, jobs, delivered, tries, mishaps>>

Work(p) ==
  \/ Start(p) \/ ResetInFlight(p)
  \/ \E c \in Conns : TryLeader(p, c) \/ StandbyGetsLock(p, c)
  \/ Scan(p) \/ EnqueueReads(p) \/ EnqueueInserts(p)
  \/ ClaimDue(p) \/ Reply(p) \/ Mark(p)

Next ==
  \/ \E e \in Events : EventCommits(e)
  \/ \E r \in Rules : CreateRule(r) \/ DeleteRule(r)
  \/ \E p \in Replicas, c \in Chats : DeleteRules(p, c) \/ DeleteQueuedJobs(p, c)
  \/ \E p \in Replicas : ResetFails(p) \/ Work(p) \/ TickFails(p) \/ Crash(p)
  \/ \E j \in Jobs : BackoffEnds(j)
  \/ LockConnCloses

Spec == Init /\ [][Next]_vars

(* A replica is restarted by its supervisor and keeps running its loops;    *)
(* the clock ends every backoff; a started reset goes on.                   *)
FairSpec ==
  /\ Spec
  /\ \A p \in Replicas : WF_vars(Work(p))
  /\ \A j \in Jobs : WF_vars(BackoffEnds(j))
  /\ \A p \in Replicas, c \in Chats : WF_vars(DeleteQueuedJobs(p, c))

-----------------------------------------------------------------------------
(* Properties *)

(* As long as the connection that holds the lock stays open, at most one    *)
(* replica works on the queue at any time, and it is the one with the lock. *)
OneDispatcher ==
  lockLosses = 0 =>
    \A p \in Replicas : pc[p] \in Working => lock # Nobody /\ lock[1] = p

(* With one dispatcher a chat receives an event at most once, plus once for *)
(* every mishap and once for every reset of the chat that another replica   *)
(* overtook with a new rule, for the second DELETE then removes jobs that   *)
(* this rule enqueues again.  A standby that starts and requeues the        *)
(* leader's in-flight jobs costs nothing, nor does any other reset.         *)
DuplicatesNeedMishaps ==
  lockLosses = 0 => \A j \in Jobs : delivered[j] <= 1 + mishaps + overtaken[j[2]]

(* With one dispatcher a job that was marked as sent stays so: nothing      *)
(* requeues, fails or deletes it.                                           *)
SentIsFinal ==
  [][\A j \in Jobs : jobs[j] # NoJob /\ jobs[j].status = "sent"
       => lockLosses > 0 \/ (jobs'[j] # NoJob /\ jobs'[j].status = "sent")]_vars

(* A job that is marked as sent did reach its chat, whichever replicas      *)
(* worked on it.                                                            *)
SentWasDelivered ==
  \A j \in Jobs : jobs[j] # NoJob /\ jobs[j].status = "sent" => delivered[j] > 0

(* A job is given up only after MaxAttempts calls; every claim that came    *)
(* to nothing is a mishap.                                                  *)
DeadWasTried ==
  lockLosses = 0 =>
    \A j \in Jobs : jobs[j] # NoJob /\ jobs[j].status = "dead"
                    => tries[j] + mishaps >= MaxAttempts

(* A chat is never told of an event older than its rules.                   *)
NoStaleAlerts ==
  \A e \in Events, c \in Chats : delivered[<<e, c>>] > 0 =>
    \E r \in Rules : /\ RuleChat[r] = c /\ e \in RuleWants[r]
                     /\ since[r] # NoTime /\ since[r] <= occurred[e]

(* An event that a rule matches for good ends up sent, or given up after    *)
(* all its attempts.                                                        *)
AlertsSettle ==
  \A e \in Events, c \in Chats :
    <>[](c \in Audience(e))
    => <>[](jobs[<<e, c>>] # NoJob /\ jobs[<<e, c>>].status \in {"sent", "dead"})

(* commands/models.go:77 tells the chat to "Use Reset alert settings to     *)
(* clear everything and stop queued unsent alerts."  A job that is already  *)
(* claimed, or being enqueued, is sent after the reset has completed.       *)
ResetStopsAlerts ==
  [][\A j \in Jobs : delivered'[j] > delivered[j] => j[2] \notin quiet]_vars

===============================================================================
