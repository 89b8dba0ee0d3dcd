---------------------------- MODULE TgDispatchProofs ----------------------------
(***************************************************************************)
(* Theorems about TgDispatch, for any number of replicas, pooled           *)
(* connections, events, chats and rules, and every bound.                  *)
(***************************************************************************)
EXTENDS TgDispatch, TLAPS

-----------------------------------------------------------------------------
(* Part 1: types *)

Types == TypeOK /\ mishaps \in Nat /\ lockLosses \in Nat

(* What a statement writes into a row is a row. *)
LEMMA RowTypes ==
  ASSUME NEW row \in Row
  PROVE  /\ [row EXCEPT !.status = "pending", !.due = TRUE] \in Row
         /\ Claimed(row) \in Row
         /\ \A b : Marked(row, b) \in Row
<1>1. [row EXCEPT !.status = "pending", !.due = TRUE] \in Row
  BY DEF Row
<1>2. Claimed(row) \in Row
  <2>1. row.attempts + 1 \in Nat
    BY DEF Row
  <2> QED
    BY <2>1 DEF Row, Claimed
<1>3. \A b : Marked(row, b) \in Row
  <2>1. [row EXCEPT !.status = "sent"] \in Row
    BY DEF Row
  <2>2. \A st \in {"dead", "pending"} : [row EXCEPT !.status = st, !.due = FALSE] \in Row
    BY DEF Row
  <2> QED
    BY <2>1, <2>2 DEF Marked
<1> QED
  BY <1>1, <1>2, <1>3

(* A claim carries the job and the attempts of its row. *)
LEMMA ClaimTypes ==
  ASSUME NEW b \in Claim, NEW ok \in BOOLEAN
  PROVE  /\ b.job \in Jobs
         /\ [b EXCEPT !.ok = ok] \in Claim
         /\ [b EXCEPT !.ok = ok].job = b.job
         /\ [b EXCEPT !.ok = ok].ok = ok
  BY DEF Claim

LEMMA InitTypes == Init => Types
  BY LimitsAreNumbers DEF Init, Types, TypeOK, Working

(* The events, the rules and the resets. *)
LEMMA TableTypes ==
  ASSUME Types,
         \/ \E e \in Events : EventCommits(e)
         \/ \E r \in Rules : CreateRule(r) \/ DeleteRule(r)
         \/ \E p \in Replicas, c \in Chats : DeleteRules(p, c) \/ DeleteQueuedJobs(p, c)
         \/ \E p \in Replicas : ResetFails(p)
  PROVE  Types'
<1> USE DEF Types, TypeOK
<1>1. ASSUME NEW e \in Events, EventCommits(e) PROVE Types'
  BY <1>1, LimitsAreNumbers DEF EventCommits, process
<1>2. ASSUME NEW r \in Rules, CreateRule(r) PROVE Types'
  BY <1>2, LimitsAreNumbers DEF CreateRule, process
<1>3. ASSUME NEW r \in Rules, DeleteRule(r) PROVE Types'
  BY <1>3 DEF DeleteRule, process
<1>4. ASSUME NEW p \in Replicas, NEW c \in Chats, DeleteRules(p, c) PROVE Types'
  BY <1>4 DEF DeleteRules, process
<1>5. ASSUME NEW p \in Replicas, NEW c \in Chats, DeleteQueuedJobs(p, c) PROVE Types'
  BY <1>5 DEF DeleteQueuedJobs, process
<1>6. ASSUME NEW p \in Replicas, ResetFails(p) PROVE Types'
  BY <1>6 DEF ResetFails, process
<1> QED
  BY <1>1, <1>2, <1>3, <1>4, <1>5, <1>6

(* A replica that starts, competes for the lock or stands by. *)
LEMMA LeadershipTypes ==
  ASSUME Types, NEW p \in Replicas,
         \/ Start(p) \/ ResetInFlight(p)
         \/ \E c \in Conns : TryLeader(p, c) \/ StandbyGetsLock(p, c)
  PROVE  Types'
<1> USE DEF Types, TypeOK, Goto, tables, Working
<1>1. CASE Start(p)
  BY <1>1 DEF Start
<1>2. CASE ResetInFlight(p)
  <2>1. jobs' \in [Jobs -> Row \cup {NoJob}]
    BY <1>2, RowTypes DEF ResetInFlight, InFlight
  <2> QED
    BY <1>2, <2>1 DEF ResetInFlight
<1>3. ASSUME NEW c \in Conns, TryLeader(p, c) PROVE Types'
  BY <1>3 DEF TryLeader, LockIsGranted
<1>4. ASSUME NEW c \in Conns, StandbyGetsLock(p, c) PROVE Types'
  BY <1>4 DEF StandbyGetsLock, LockIsGranted
<1> QED
  BY <1>1, <1>2, <1>3, <1>4

(* The steps of a tick. *)
LEMMA TickTypes ==
  ASSUME Types, NEW p \in Replicas,
         \/ Scan(p) \/ EnqueueReads(p) \/ EnqueueInserts(p)
         \/ ClaimDue(p) \/ Reply(p) \/ Mark(p)
  PROVE  Types'
<1> USE DEF Types, TypeOK, Goto, tables, Working
<1>1. CASE Scan(p)
  <2>1. PICK taken \in SUBSET Undispatched :
          /\ todo' = [todo EXCEPT ![p] = taken]
          /\ Goto(p, IF taken = {} THEN "claim" ELSE "enqueue")
    BY <1>1 DEF Scan
  <2> QED
    BY <1>1, <2>1 DEF Scan, Undispatched
<1>2. CASE EnqueueReads(p)
  <2>1. PICK e \in todo[p] :
          /\ todo' = [todo EXCEPT ![p] = @ \ {e}]
          /\ inserting' = [inserting EXCEPT ![p] = {e} \X Audience(e)]
    BY <1>2 DEF EnqueueReads
  <2>2. {e} \X Audience(e) \in SUBSET Jobs
    BY RulesAreTyped DEF Audience, Jobs
  <2> HIDE DEF Jobs
  <2> QED
    BY <1>2, <2>1, <2>2 DEF EnqueueReads
<1>3. CASE EnqueueInserts(p)
  <2>1. jobs' \in [Jobs -> Row \cup {NoJob}]
    BY <1>3 DEF EnqueueInserts, Inserted, Row
  <2> QED
    BY <1>3, <2>1 DEF EnqueueInserts
<1>4. CASE ClaimDue(p)
  <2>1. PICK picked \in SUBSET Due :
          /\ jobs' = [j \in Jobs |-> IF j \in picked THEN Claimed(jobs[j]) ELSE jobs[j]]
          /\ batch' = [batch EXCEPT ![p] =
               {[job |-> j, attempts |-> jobs'[j].attempts, ok |-> FALSE] : j \in picked}]
          /\ Goto(p, IF picked = {} THEN "scan" ELSE "send")
    BY <1>4 DEF ClaimDue
  <2>2. \A j \in picked : j \in Jobs /\ jobs[j] \in Row
    BY DEF Due, Unsent
  <2>3. \A j \in picked : jobs'[j] \in Row
    <3> HIDE DEF TypeOK, Types, Goto, Working, tables
    <3> QED
      BY <2>1, <2>2, RowTypes
  <2>4. jobs' \in [Jobs -> Row \cup {NoJob}]
    BY <2>1, <2>2, <2>3
  <2>5. {[job |-> j, attempts |-> jobs'[j].attempts, ok |-> FALSE] : j \in picked}
          \in SUBSET Claim
    <3> HIDE DEF TypeOK, Types, Goto, Working, tables
    <3>1. ASSUME NEW j \in picked
          PROVE  [job |-> j, attempts |-> jobs'[j].attempts, ok |-> FALSE] \in Claim
      <4>1. jobs'[j].attempts \in Nat
        BY <2>2, <2>3 DEF Row
      <4> QED
        BY <2>2, <4>1 DEF Claim
    <3> QED
      BY <3>1
  <2> HIDE DEF Jobs
  <2>6. batch' \in [Replicas -> SUBSET Claim]
    BY <2>1, <2>5
  <2>7. picked = {} => batch'[p] = {}
    BY <2>1
  <2> QED
    BY <1>4, <2>1, <2>4, <2>6, <2>7 DEF ClaimDue
<1>5. CASE Reply(p)
  <2>1. PICK b \in batch[p], got \in BOOLEAN, ok \in BOOLEAN :
          /\ mishaps' = IF got /\ ~ok THEN mishaps + 1 ELSE mishaps
          /\ batch' = [batch EXCEPT ![p] = @ \ {b}]
          /\ sending' = [sending EXCEPT ![p] = {[b EXCEPT !.ok = ok]}]
          /\ delivered' = [delivered EXCEPT ![b.job] = IF got THEN @ + 1 ELSE @]
          /\ tries' = [tries EXCEPT ![b.job] = @ + 1]
    BY <1>5 DEF Reply
  <2>2. b \in Claim /\ [b EXCEPT !.ok = ok] \in Claim /\ b.job \in Jobs
    <3>1. b \in Claim
      OBVIOUS
    <3> QED
      BY <2>1, <3>1, ClaimTypes
  <2>3. /\ delivered' \in [Jobs -> Nat] /\ tries' \in [Jobs -> Nat] /\ mishaps' \in Nat
    BY <2>1, <2>2
  <2> QED
    <3>1. /\ batch' \in [Replicas -> SUBSET Claim]
          /\ sending' \in [Replicas -> SUBSET Claim] /\ sending'[p] # {}
      BY <2>1, <2>2
    <3>2. pc'[p] = "mark" /\ pc[p] = "send"
      BY <1>5 DEF Reply
    <3>3. \A q \in Replicas \ {p} :
            pc'[q] = pc[q] /\ batch'[q] = batch[q] /\ sending'[q] = sending[q]
      BY <1>5, <2>1 DEF Reply
    <3>4. pc' \in [Replicas -> {"off", "reset", "try", "standby"} \cup Working]
      BY <1>5 DEF Reply
    <3>5. UNCHANGED <<now, occurred, created, resetting, since, quiet, overtaken, todo,
                      inserting, jobs, lock, lockLosses>>
      BY <1>5 DEF Reply
    <3>6. \A q \in Replicas :
             /\ inserting'[q] # {} => pc'[q] = "insert"
             /\ batch'[q] # {} => pc'[q] \in {"send", "mark"}
             /\ sending'[q] # {} <=> pc'[q] = "mark"
      BY <3>1, <3>2, <3>3, <3>5
    <3> QED
      BY <2>3, <3>1, <3>4, <3>5, <3>6
<1>6. CASE Mark(p)
  <2>1. PICK b \in sending[p] :
          jobs' = [jobs EXCEPT ![b.job] = IF @ = NoJob THEN NoJob ELSE Marked(@, b)]
    BY <1>6 DEF Mark
  <2>2. b \in Claim /\ b.job \in Jobs
    BY ClaimTypes
  <2>3. jobs[b.job] # NoJob => Marked(jobs[b.job], b) \in Row
    BY <2>2, RowTypes
  <2>4. jobs' \in [Jobs -> Row \cup {NoJob}]
    BY <2>1, <2>2, <2>3
  <2> QED
    BY <1>6, <2>4 DEF Mark
<1> QED
  BY <1>1, <1>2, <1>3, <1>4, <1>5, <1>6

(* Time and mishaps. *)
LEMMA MishapTypes ==
  ASSUME Types,
         \/ \E p \in Replicas : TickFails(p) \/ Crash(p)
         \/ \E j \in Jobs : BackoffEnds(j)
         \/ LockConnCloses
         \/ UNCHANGED vars
  PROVE  Types'
<1> USE DEF Types, TypeOK, Goto, tables, process, Working
<1>1. ASSUME NEW p \in Replicas, TickFails(p) PROVE Types'
  BY <1>1 DEF TickFails, Forgets
<1>2. ASSUME NEW p \in Replicas, Crash(p) PROVE Types'
  <2>1. lock' \in (Replicas \X Conns) \cup {Nobody}
    BY <1>2 DEF Crash
  <2> QED
    BY <1>2, <2>1 DEF Crash, Forgets
<1>3. ASSUME NEW j \in Jobs, BackoffEnds(j) PROVE Types'
  <2>1. jobs' = [jobs EXCEPT ![j].due = TRUE] /\ jobs[j] \in Row
    BY <1>3 DEF BackoffEnds
  <2>2. [jobs[j] EXCEPT !.due = TRUE] \in Row
    BY <2>1 DEF Row
  <2>3. jobs' \in [Jobs -> Row \cup {NoJob}]
    BY <2>1, <2>2
  <2> QED
    BY <1>3, <2>3 DEF BackoffEnds
<1>4. CASE LockConnCloses
  BY <1>4 DEF LockConnCloses
<1>5. CASE UNCHANGED vars
  BY <1>5 DEF vars
<1> QED
  BY <1>1, <1>2, <1>3, <1>4, <1>5

LEMMA NextKeepsTypes == Types /\ [Next]_vars => Types'
  BY TableTypes, LeadershipTypes, TickTypes, MishapTypes DEF Next, Work

(* The types of every reachable state, for any number of replicas. *)
THEOREM TypeCorrect == Spec => []TypeOK
<1>1. Types => TypeOK
  BY DEF Types
<1> QED
  BY <1>1, InitTypes, NextKeepsTypes, PTL DEF Spec

-----------------------------------------------------------------------------
(* Part 2: one dispatcher *)

(* Steps that are not a replica's leave the lock and the replicas alone. *)
LEMMA OthersKeepAlone ==
  ASSUME Types, OneDispatcher,
         \/ \E e \in Events : EventCommits(e)
         \/ \E r \in Rules : CreateRule(r) \/ DeleteRule(r)
         \/ \E p \in Replicas, c \in Chats : DeleteRules(p, c) \/ DeleteQueuedJobs(p, c)
         \/ \E p \in Replicas : ResetFails(p)
         \/ \E j \in Jobs : BackoffEnds(j)
         \/ UNCHANGED vars
  PROVE  OneDispatcher'
<1>1. UNCHANGED <<pc, lock, lockLosses>>
  BY DEF EventCommits, CreateRule, DeleteRule, DeleteRules, DeleteQueuedJobs, ResetFails,
         BackoffEnds, process, vars
<1> QED
  BY <1>1 DEF OneDispatcher

(* A working replica goes on working under the lock it has. *)
LEMMA TickKeepsAlone ==
  ASSUME Types, OneDispatcher, NEW p \in Replicas,
         \/ Scan(p) \/ EnqueueReads(p) \/ EnqueueInserts(p)
         \/ ClaimDue(p) \/ Reply(p) \/ Mark(p) \/ TickFails(p)
  PROVE  OneDispatcher'
<1>1. pc[p] \in Working /\ UNCHANGED <<lock, lockLosses>>
  BY DEF Scan, EnqueueReads, EnqueueInserts, ClaimDue, Reply, Mark, TickFails, Working
<1>2. \A q \in Replicas : q # p => pc'[q] = pc[q]
  BY DEF Scan, EnqueueReads, EnqueueInserts, ClaimDue, Reply, Mark, TickFails, Goto,
         Types, TypeOK
<1> QED
  BY <1>1, <1>2 DEF OneDispatcher

(* The lock is granted only where no other replica has it. *)
LEMMA LeadershipKeepsAlone ==
  ASSUME Types, OneDispatcher, NEW p \in Replicas,
         \/ Start(p) \/ ResetInFlight(p)
         \/ \E c \in Conns : TryLeader(p, c) \/ StandbyGetsLock(p, c)
  PROVE  OneDispatcher'
<1> USE DEF OneDispatcher, Goto, Types, TypeOK, Working
<1>1. CASE Start(p) \/ ResetInFlight(p)
  BY <1>1 DEF Start, ResetInFlight
<1>2. ASSUME NEW c \in Conns, LockIsGranted(p, c), lockLosses = 0
      PROVE  \A q \in Replicas : pc[q] \in Working => q = p
  BY <1>2, MarksAreDistinct DEF LockIsGranted
<1>3. ASSUME NEW c \in Conns
      PROVE  <<p, c>> # Nobody /\ <<p, c>>[1] = p
  BY MarksAreDistinct
<1>4. ASSUME NEW c \in Conns, TryLeader(p, c) PROVE OneDispatcher'
  BY <1>2, <1>3, <1>4 DEF TryLeader
<1>5. ASSUME NEW c \in Conns, StandbyGetsLock(p, c) PROVE OneDispatcher'
  BY <1>2, <1>3, <1>5 DEF StandbyGetsLock
<1> QED
  BY <1>1, <1>4, <1>5

(* A process that dies frees its own lock only. *)
LEMMA MishapKeepsAlone ==
  ASSUME Types, OneDispatcher, (\E p \in Replicas : Crash(p)) \/ LockConnCloses
  PROVE  OneDispatcher'
<1> USE DEF OneDispatcher, Goto, Types, TypeOK, Working
<1>1. ASSUME NEW p \in Replicas, Crash(p) PROVE OneDispatcher'
  BY <1>1 DEF Crash
<1>2. CASE LockConnCloses
  BY <1>2 DEF LockConnCloses
<1> QED
  BY <1>1, <1>2

LEMMA NextKeepsAlone == Types /\ OneDispatcher /\ [Next]_vars => OneDispatcher'
  BY OthersKeepAlone, TickKeepsAlone, LeadershipKeepsAlone, MishapKeepsAlone DEF Next, Work

LEMMA InitAlone == Init => OneDispatcher
  BY DEF Init, OneDispatcher, Working

(* While the connection that holds the lock stays open, at most one replica *)
(* of any number dispatches.                                                *)
THEOREM Alone == Spec => []OneDispatcher
  BY InitTypes, NextKeepsTypes, InitAlone, NextKeepsAlone, PTL DEF Spec

-----------------------------------------------------------------------------
(* Part 3: what a message says of its rule, and a row of its message *)

(* Nothing happened later than now, and a rule is not younger than it was      *)
(* when it was created.                                                      *)
Clock ==
  /\ \A e \in Events : occurred[e] # NoTime => occurred[e] <= now
  /\ \A r \in Rules : since[r] # NoTime => since[r] <= now
  /\ \A r \in Rules : created[r] # NoTime => since[r] # NoTime /\ since[r] <= created[r]

(* Some rule of the chat matches the event and is not younger. *)
Aged(j) ==
  \E r \in Rules : /\ RuleChat[r] = j[2] /\ j[1] \in RuleWants[r]
                   /\ since[r] # NoTime /\ occurred[j[1]] # NoTime
                   /\ since[r] <= occurred[j[1]]

(* Wherever a job is, a rule asked for it; what is marked or about to be     *)
(* marked as sent was delivered.                                             *)
Honest ==
  /\ \A j \in Jobs : jobs[j] # NoJob \/ delivered[j] > 0 => Aged(j)
  /\ \A p \in Replicas : \A j \in inserting[p] : Aged(j)
  /\ \A p \in Replicas : \A b \in batch[p] \cup sending[p] : Aged(b.job)
  /\ \A j \in Jobs : jobs[j] # NoJob /\ jobs[j].status = "sent" => delivered[j] > 0
  /\ \A p \in Replicas : \A b \in sending[p] : b.ok => delivered[b.job] > 0

LEMMA NextKeepsClock == Types /\ Clock /\ [Next]_vars => Clock'
<1> SUFFICES ASSUME Types, Clock, [Next]_vars PROVE Clock'
  OBVIOUS
<1> USE DEF Clock, Types, TypeOK
<1>1. ASSUME NEW e \in Events, EventCommits(e) PROVE Clock'
  <2>1. PICK t \in 0..now : occurred' = [occurred EXCEPT ![e] = t]
    BY <1>1 DEF EventCommits
  <2>2. UNCHANGED <<now, created, since>>
    BY <1>1 DEF EventCommits
  <2>3. ASSUME NEW x \in Events, occurred'[x] # NoTime PROVE occurred'[x] <= now
    BY <2>1, <2>3
  <2> QED
    BY <2>2, <2>3
<1>2. ASSUME NEW r \in Rules, CreateRule(r) PROVE Clock'
  <2>1. /\ now' = now + 1 /\ now \in Nat
        /\ created' = [created EXCEPT ![r] = now']
        /\ since' = [since EXCEPT ![r] = now']
        /\ UNCHANGED occurred
    BY <1>2 DEF CreateRule
  <2>2. ASSUME NEW e \in Events, occurred'[e] # NoTime PROVE occurred'[e] <= now'
    BY <2>1, <2>2
  <2>3. ASSUME NEW x \in Rules, since'[x] # NoTime PROVE since'[x] <= now'
    BY <2>1, <2>3
  <2>4. ASSUME NEW x \in Rules, created'[x] # NoTime
        PROVE  since'[x] # NoTime /\ since'[x] <= created'[x]
    <3>1. CASE x = r
      BY <2>1, <3>1, MarksAreDistinct
    <3>2. CASE x # r
      BY <2>1, <2>4, <3>2
    <3> QED
      BY <3>1, <3>2
  <2> QED
    BY <2>2, <2>3, <2>4
<1>3. ASSUME NEW r \in Rules, DeleteRule(r) PROVE Clock'
  BY <1>3 DEF DeleteRule
<1>4. ASSUME NEW p \in Replicas, NEW c \in Chats, DeleteRules(p, c) PROVE Clock'
  BY <1>4 DEF DeleteRules
<1>5. CASE UNCHANGED <<now, occurred, created, since>>
  BY <1>5
<1>6. ASSUME NEW p \in Replicas,
             \/ \E c \in Chats : DeleteQueuedJobs(p, c)
             \/ ResetFails(p) \/ Work(p) \/ TickFails(p) \/ Crash(p)
      PROVE  UNCHANGED <<now, occurred, created, since>>
  BY <1>6 DEF DeleteQueuedJobs, ResetFails, Work, Start, ResetInFlight, TryLeader,
              StandbyGetsLock, Scan, EnqueueReads, EnqueueInserts, ClaimDue, Reply, Mark,
              TickFails, Crash, tables
<1>7. (\E j \in Jobs : BackoffEnds(j)) \/ LockConnCloses \/ UNCHANGED vars
        => UNCHANGED <<now, occurred, created, since>>
  BY DEF BackoffEnds, LockConnCloses, tables, vars
<1> QED
  BY <1>1, <1>2, <1>3, <1>4, <1>5, <1>6, <1>7 DEF Next

(* An event and the first creation of a rule keep their times. *)
LEMMA AgedStays ==
  ASSUME Types, [Next]_vars, NEW j \in Jobs, Aged(j)
  PROVE  Aged(j)'
<1> USE DEF Types, TypeOK
<1>1. PICK r \in Rules : /\ RuleChat[r] = j[2] /\ j[1] \in RuleWants[r]
                         /\ since[r] # NoTime /\ occurred[j[1]] # NoTime
                         /\ since[r] <= occurred[j[1]]
  BY DEF Aged
<1>2. j[1] \in Events
  BY DEF Jobs
<1>3. occurred'[j[1]] = occurred[j[1]]
  <2>1. ASSUME NEW e \in Events, EventCommits(e) PROVE occurred'[j[1]] = occurred[j[1]]
    BY <1>1, <1>2, <2>1 DEF EventCommits
  <2>2. (\E e \in Events : EventCommits(e)) \/ UNCHANGED occurred
    BY DEF Next, CreateRule, DeleteRule, DeleteRules, DeleteQueuedJobs, ResetFails, Work,
           Start, ResetInFlight, TryLeader, StandbyGetsLock, Scan, EnqueueReads,
           EnqueueInserts, ClaimDue, Reply, Mark, TickFails, Crash, BackoffEnds,
           LockConnCloses, vars, tables
  <2> QED
    BY <2>1, <2>2
<1>4. since'[r] = since[r]
  <2>1. ASSUME NEW x \in Rules, CreateRule(x) PROVE since'[r] = since[r]
    BY <1>1, <2>1 DEF CreateRule
  <2>2. (\E x \in Rules : CreateRule(x)) \/ UNCHANGED since
    BY DEF Next, EventCommits, DeleteRule, DeleteRules, DeleteQueuedJobs, ResetFails, Work,
           Start, ResetInFlight, TryLeader, StandbyGetsLock, Scan, EnqueueReads,
           EnqueueInserts, ClaimDue, Reply, Mark, TickFails, Crash, BackoffEnds,
           LockConnCloses, vars, tables
  <2> QED
    BY <2>1, <2>2
<1> QED
  BY <1>1, <1>3, <1>4 DEF Aged

(* The filters and the age of a rule decide what is enqueued. *)
LEMMA AudienceAged ==
  ASSUME Types, Clock, NEW e \in Events, NEW c \in Audience(e)
  PROVE  Aged(<<e, c>>)
<1>1. PICK r \in Rules : Matches(r, e) /\ c = RuleChat[r]
  BY DEF Audience
<1>2. /\ created[r] # NoTime /\ occurred[e] # NoTime /\ e \in RuleWants[r]
      /\ occurred[e] >= created[r]
  BY <1>1 DEF Matches
<1>3. since[r] # NoTime /\ since[r] <= created[r]
  BY <1>2 DEF Clock
<1>4. since[r] \in Nat /\ created[r] \in Nat /\ occurred[e] \in Nat
  BY <1>2, <1>3 DEF Types, TypeOK
<1>5. since[r] <= occurred[e]
  BY <1>2, <1>3, <1>4
<1> QED
  BY <1>1, <1>2, <1>3, <1>5 DEF Aged

(* Steps that add nothing to a row, a batch or an insert. *)
LEMMA LesserKeepsHonest ==
  ASSUME Types, Honest, [Next]_vars, UNCHANGED delivered,
         \A j \in Jobs : jobs'[j] # NoJob =>
            jobs[j] # NoJob /\ (jobs'[j].status = "sent" => jobs[j].status = "sent"),
         \A q \in Replicas : /\ inserting'[q] \subseteq inserting[q]
                             /\ batch'[q] \subseteq batch[q]
                             /\ sending'[q] \subseteq sending[q]
  PROVE  Honest'
<1>1. /\ \A q \in Replicas : \A j \in inserting[q] : j \in Jobs
      /\ \A q \in Replicas : \A b \in batch[q] \cup sending[q] : b.job \in Jobs
  BY ClaimTypes DEF Types, TypeOK
<1>2. \A j \in Jobs : Aged(j) => Aged(j)'
  BY AgedStays
<1> QED
  BY <1>1, <1>2 DEF Honest

LEMMA RequeueIsLesser ==
  ASSUME Types, UNCHANGED delivered,
         \/ \E p \in Replicas, c \in Chats : DeleteQueuedJobs(p, c)
         \/ \E p \in Replicas : ResetInFlight(p)
         \/ \E j \in Jobs : BackoffEnds(j)
  PROVE  /\ \A j \in Jobs : jobs'[j] # NoJob =>
               jobs[j] # NoJob /\ (jobs'[j].status = "sent" => jobs[j].status = "sent")
         /\ UNCHANGED <<inserting, batch, sending>>
<1> USE DEF Types, TypeOK, process, tables
<1>1. ASSUME NEW p \in Replicas, NEW c \in Chats, DeleteQueuedJobs(p, c), NEW j \in Jobs, jobs'[j] # NoJob
      PROVE  jobs'[j] = jobs[j]
  BY <1>1 DEF DeleteQueuedJobs
<1>2. ASSUME NEW p \in Replicas, ResetInFlight(p), NEW j \in Jobs, jobs'[j] # NoJob
      PROVE  jobs[j] # NoJob /\ (jobs'[j].status = "sent" => jobs[j].status = "sent")
  <2>1. jobs'[j] = IF InFlight(j) THEN [jobs[j] EXCEPT !.status = "pending", !.due = TRUE]
                                  ELSE jobs[j]
    BY <1>2 DEF ResetInFlight
  <2>2. CASE InFlight(j)
    <3>1. jobs[j] \in Row
      BY <2>2 DEF InFlight
    <3>2. [jobs[j] EXCEPT !.status = "pending", !.due = TRUE].status = "pending"
      BY <3>1 DEF Row
    <3> QED
      BY <2>1, <2>2, <3>2 DEF InFlight
  <2>3. CASE ~InFlight(j)
    BY <1>2, <2>1, <2>3
  <2> QED
    BY <2>2, <2>3
<1>3. ASSUME NEW k \in Jobs, BackoffEnds(k), NEW j \in Jobs, jobs'[j] # NoJob
      PROVE  jobs[j] # NoJob /\ (jobs'[j].status = "sent" => jobs[j].status = "sent")
  <2>1. jobs' = [jobs EXCEPT ![k].due = TRUE] /\ jobs[k] \in Row
    BY <1>3 DEF BackoffEnds
  <2>2. [jobs[k] EXCEPT !.due = TRUE].status = jobs[k].status
    BY <2>1 DEF Row
  <2> QED
    BY <1>3, <2>1, <2>2 DEF BackoffEnds
<1>4. UNCHANGED <<inserting, batch, sending>>
  BY DEF DeleteQueuedJobs, ResetInFlight, BackoffEnds
<1> QED
  BY <1>1, <1>2, <1>3, <1>4

(* What the INSERT ... SELECT read is what a rule asked for. *)
LEMMA EnqueueKeepsHonest ==
  ASSUME Types, Clock, Honest, [Next]_vars, NEW p \in Replicas,
         EnqueueReads(p) \/ EnqueueInserts(p)
  PROVE  Honest'
<1>1. /\ \A q \in Replicas : \A j \in inserting[q] : j \in Jobs
      /\ \A q \in Replicas : \A b \in batch[q] \cup sending[q] : b.job \in Jobs
  BY ClaimTypes DEF Types, TypeOK
<1>2. \A j \in Jobs : Aged(j) => Aged(j)'
  BY AgedStays
<1>3. CASE EnqueueReads(p)
  <2>1. PICK e \in todo[p] : inserting' = [inserting EXCEPT ![p] = {e} \X Audience(e)]
    BY <1>3 DEF EnqueueReads
  <2>2. UNCHANGED <<jobs, delivered, batch, sending>>
    BY <1>3 DEF EnqueueReads
  <2>3. e \in Events /\ \A c \in Audience(e) : c \in Chats
    BY RulesAreTyped DEF Types, TypeOK, Audience
  <2>4. ASSUME NEW q \in Replicas, NEW j \in inserting'[q] PROVE Aged(j)'
    <3>1. CASE q = p
      <4>1. PICK c \in Audience(e) : j = <<e, c>>
        BY <2>1, <3>1 DEF Types, TypeOK
      <4> QED
        BY <1>2, <2>3, <4>1, AudienceAged DEF Jobs
    <3>2. CASE q # p
      BY <1>1, <1>2, <2>1, <3>2 DEF Honest, Types, TypeOK
    <3> QED
      BY <3>1, <3>2
  <2> QED
    BY <1>1, <1>2, <2>2, <2>4 DEF Honest
<1>4. CASE EnqueueInserts(p)
  <2>1. /\ jobs' = [j \in Jobs |-> IF j \in inserting[p] THEN Inserted(j) ELSE jobs[j]]
        /\ inserting' = [inserting EXCEPT ![p] = {}]
        /\ UNCHANGED <<delivered, batch, sending>>
    BY <1>4 DEF EnqueueInserts
  <2>2. ASSUME NEW j \in Jobs
        PROVE  /\ jobs'[j] # NoJob => jobs[j] # NoJob \/ j \in inserting[p]
               /\ jobs'[j] # NoJob /\ jobs'[j].status = "sent"
                    => jobs[j] # NoJob /\ jobs[j].status = "sent"
    BY <2>1 DEF Inserted
  <2>3. \A q \in Replicas : inserting'[q] \subseteq inserting[q]
    BY <2>1 DEF Types, TypeOK
  <2> QED
    BY <1>1, <1>2, <2>1, <2>2, <2>3 DEF Honest
<1> QED
  BY <1>3, <1>4

LEMMA ClaimKeepsHonest ==
  ASSUME Types, Honest, [Next]_vars, NEW p \in Replicas, ClaimDue(p)
  PROVE  Honest'
<1>1. /\ \A q \in Replicas : \A j \in inserting[q] : j \in Jobs
      /\ \A q \in Replicas : \A b \in batch[q] \cup sending[q] : b.job \in Jobs
  BY ClaimTypes DEF Types, TypeOK
<1>2. \A j \in Jobs : Aged(j) => Aged(j)'
  BY AgedStays
<1>3. PICK picked \in SUBSET Due :
        /\ jobs' = [j \in Jobs |-> IF j \in picked THEN Claimed(jobs[j]) ELSE jobs[j]]
        /\ batch' = [batch EXCEPT ![p] =
             {[job |-> j, attempts |-> jobs'[j].attempts, ok |-> FALSE] : j \in picked}]
  BY DEF ClaimDue
<1>4. UNCHANGED <<inserting, sending, delivered>>
  BY DEF ClaimDue
<1>5. ASSUME NEW j \in picked
      PROVE  j \in Jobs /\ jobs[j] # NoJob /\ jobs'[j].status # "sent"
  <2>1. j \in Jobs /\ jobs[j] # NoJob /\ jobs[j] \in Row
    BY DEF Due, Unsent, Types, TypeOK
  <2>2. jobs'[j] = Claimed(jobs[j])
    BY <1>3, <2>1
  <2> QED
    BY <2>1, <2>2 DEF Claimed, Row
<1>6. ASSUME NEW j \in Jobs, jobs'[j] # NoJob
      PROVE  jobs[j] # NoJob /\ (jobs'[j].status = "sent" => jobs[j].status = "sent")
  BY <1>3, <1>5, <1>6
<1>7. ASSUME NEW q \in Replicas, NEW b \in batch'[q]
      PROVE  b \in batch[q] \/ (b.job \in Jobs /\ jobs[b.job] # NoJob)
  <2>1. CASE q # p
    BY <1>3, <1>7, <2>1 DEF Types, TypeOK
  <2>2. CASE q = p
    <3>1. PICK j \in picked :
            b = [job |-> j, attempts |-> jobs'[j].attempts, ok |-> FALSE]
      BY <1>3, <1>7, <2>2 DEF Types, TypeOK
    <3>2. b.job = j
      BY <3>1
    <3> QED
      BY <1>5, <3>2
  <2> QED
    BY <2>1, <2>2
<1> QED
  BY <1>1, <1>2, <1>4, <1>6, <1>7 DEF Honest

LEMMA ReplyKeepsHonest ==
  ASSUME Types, Honest, [Next]_vars, NEW p \in Replicas, Reply(p)
  PROVE  Honest'
<1>1. /\ \A q \in Replicas : \A j \in inserting[q] : j \in Jobs
      /\ \A q \in Replicas : \A b \in batch[q] \cup sending[q] : b.job \in Jobs
  BY ClaimTypes DEF Types, TypeOK
<1>2. \A j \in Jobs : Aged(j) => Aged(j)'
  BY AgedStays
<1>3. PICK b \in batch[p], got \in BOOLEAN, ok \in BOOLEAN :
        /\ ok => got
        /\ batch' = [batch EXCEPT ![p] = @ \ {b}]
        /\ sending' = [sending EXCEPT ![p] = {[b EXCEPT !.ok = ok]}]
        /\ delivered' = [delivered EXCEPT ![b.job] = IF got THEN @ + 1 ELSE @]
  BY DEF Reply
<1>4. UNCHANGED <<inserting, jobs>>
  BY DEF Reply
<1>5. b \in Claim /\ b.job \in Jobs /\ Aged(b.job)
  BY <1>1 DEF Types, TypeOK, Honest
<1> DEFINE sent == [b EXCEPT !.ok = ok]
<1>6. sent.job = b.job /\ sent.ok = ok
  BY <1>5, ClaimTypes
<1>7. \A j \in Jobs : /\ delivered[j] \in Nat /\ delivered'[j] \in Nat
                      /\ delivered[j] <= delivered'[j]
                      /\ j # b.job => delivered'[j] = delivered[j]
  BY <1>3 DEF Types, TypeOK
<1>8. ok => delivered'[b.job] > 0
  BY <1>3, <1>5 DEF Types, TypeOK
<1>9. \A q \in Replicas : /\ batch'[q] \subseteq batch[q]
                          /\ sending'[q] \subseteq sending[q] \cup {sent}
  BY <1>3 DEF Types, TypeOK
<1> HIDE DEF sent
<1> QED
  <2>1. \A j \in Jobs : jobs'[j] # NoJob \/ delivered'[j] > 0 => Aged(j)'
    BY <1>2, <1>4, <1>5, <1>7 DEF Honest
  <2>2. \A q \in Replicas : \A j \in inserting'[q] : Aged(j)'
    BY <1>1, <1>2, <1>4 DEF Honest
  <2>3. ASSUME NEW q \in Replicas, NEW x \in batch'[q] \cup sending'[q] PROVE Aged(x.job)'
    <3>1. x \in batch[q] \cup sending[q] \/ x.job = b.job
      BY <1>6, <1>9
    <3> QED
      BY <1>1, <1>2, <1>5, <3>1 DEF Honest
  <2>4. \A j \in Jobs : jobs'[j] # NoJob /\ jobs'[j].status = "sent" => delivered'[j] > 0
    <3>1. jobs' = jobs
      BY <1>4
    <3>2. \A j \in Jobs : jobs[j] # NoJob /\ jobs[j].status = "sent" => delivered[j] > 0
      BY DEF Honest
    <3>3. ASSUME NEW j \in Jobs, jobs[j] # NoJob /\ jobs[j].status = "sent"
          PROVE  delivered'[j] > 0
      <4>1. delivered[j] > 0
        BY <3>2, <3>3
      <4> QED
        BY <1>7, <4>1
    <3> QED
      BY <3>1, <3>3
  <2>5. ASSUME NEW q \in Replicas, NEW x \in sending'[q], x.ok PROVE delivered'[x.job] > 0
    <3>1. x \in sending[q] \/ x = sent
      BY <1>9
    <3>2. CASE x \in sending[q]
      <4>1. delivered[x.job] > 0 /\ x.job \in Jobs
        BY <1>1, <2>5, <3>2 DEF Honest
      <4> QED
        BY <1>7, <4>1
    <3>3. CASE x = sent
      BY <1>6, <1>8, <2>5, <3>3
    <3> QED
      BY <3>1, <3>2, <3>3
  <2> QED
    BY <2>1, <2>2, <2>3, <2>4, <2>5 DEF Honest

LEMMA MarkKeepsHonest ==
  ASSUME Types, Honest, [Next]_vars, NEW p \in Replicas, Mark(p)
  PROVE  Honest'
<1>1. /\ \A q \in Replicas : \A j \in inserting[q] : j \in Jobs
      /\ \A q \in Replicas : \A b \in batch[q] \cup sending[q] : b.job \in Jobs
  BY ClaimTypes DEF Types, TypeOK
<1>2. \A j \in Jobs : Aged(j) => Aged(j)'
  BY AgedStays
<1>3. PICK b \in sending[p] :
        jobs' = [jobs EXCEPT ![b.job] = IF @ = NoJob THEN NoJob ELSE Marked(@, b)]
  BY DEF Mark
<1>4. sending' = [sending EXCEPT ![p] = {}] /\ UNCHANGED <<inserting, batch, delivered>>
  BY DEF Mark
<1>5. b.job \in Jobs /\ (b.ok => delivered[b.job] > 0)
  BY <1>1 DEF Honest
<1>6. ASSUME jobs[b.job] # NoJob, ~b.ok
      PROVE  Marked(jobs[b.job], b).status # "sent"
  <2>1. jobs[b.job] \in Row
    BY <1>5, <1>6 DEF Types, TypeOK
  <2> QED
    BY <1>6, <2>1 DEF Marked, Row
<1>7. ASSUME NEW j \in Jobs, jobs'[j] # NoJob
      PROVE  /\ jobs[j] # NoJob
             /\ jobs'[j].status = "sent" => jobs[j].status = "sent" \/ delivered[j] > 0
  BY <1>3, <1>5, <1>6, <1>7 DEF Types, TypeOK
<1>8. \A q \in Replicas : sending'[q] \subseteq sending[q]
  BY <1>4 DEF Types, TypeOK
<1> QED
  BY <1>1, <1>2, <1>4, <1>7, <1>8 DEF Honest

(* The steps that leave rows and messages alone. *)
LEMMA QuietIsLesser ==
  ASSUME Types,
         \/ \E e \in Events : EventCommits(e)
         \/ \E r \in Rules : CreateRule(r) \/ DeleteRule(r)
         \/ \E p \in Replicas, c \in Chats : DeleteRules(p, c)
         \/ \E p \in Replicas : ResetFails(p)
         \/ \E p \in Replicas :
               \/ Start(p) \/ Scan(p) \/ TickFails(p) \/ Crash(p)
               \/ \E c \in Conns : TryLeader(p, c) \/ StandbyGetsLock(p, c)
         \/ LockConnCloses
         \/ UNCHANGED vars
  PROVE  /\ UNCHANGED <<jobs, delivered>>
         /\ \A q \in Replicas : /\ inserting'[q] \subseteq inserting[q]
                                /\ batch'[q] \subseteq batch[q]
                                /\ sending'[q] \subseteq sending[q]
<1> USE DEF process, vars, Types, TypeOK
<1>1. UNCHANGED <<jobs, delivered>>
  BY DEF EventCommits, CreateRule, DeleteRule, DeleteRules, ResetFails, Start, Scan,
         TickFails, Crash, TryLeader, StandbyGetsLock, LockConnCloses
<1>2. ASSUME NEW p \in Replicas, TickFails(p) \/ Crash(p), NEW q \in Replicas
      PROVE  /\ inserting'[q] \subseteq inserting[q]
             /\ batch'[q] \subseteq batch[q]
             /\ sending'[q] \subseteq sending[q]
  BY <1>2 DEF TickFails, Crash, Forgets
<1>3. (\E p \in Replicas : TickFails(p) \/ Crash(p)) \/ UNCHANGED <<inserting, batch, sending>>
  BY DEF EventCommits, CreateRule, DeleteRule, DeleteRules, ResetFails, Start, Scan,
         TryLeader, StandbyGetsLock, LockConnCloses
<1> QED
  BY <1>1, <1>2, <1>3

LEMMA NextKeepsHonest == Types /\ Clock /\ Honest /\ [Next]_vars => Honest'
<1> SUFFICES ASSUME Types, Clock, Honest, [Next]_vars PROVE Honest'
  OBVIOUS
<1>1. CASE \/ \E p \in Replicas, c \in Chats : DeleteQueuedJobs(p, c)
           \/ \E p \in Replicas : ResetInFlight(p)
           \/ \E j \in Jobs : BackoffEnds(j)
  <2>1. UNCHANGED delivered
    BY <1>1 DEF DeleteQueuedJobs, ResetInFlight, BackoffEnds
  <2> QED
    BY <1>1, <2>1, RequeueIsLesser, LesserKeepsHonest
<1>2. CASE \E p \in Replicas : EnqueueReads(p) \/ EnqueueInserts(p) \/ ClaimDue(p)
                              \/ Reply(p) \/ Mark(p)
  BY <1>2, EnqueueKeepsHonest, ClaimKeepsHonest, ReplyKeepsHonest, MarkKeepsHonest
<1>3. CASE \/ \E e \in Events : EventCommits(e)
           \/ \E r \in Rules : CreateRule(r) \/ DeleteRule(r)
           \/ \E p \in Replicas, c \in Chats : DeleteRules(p, c)
           \/ \E p \in Replicas : ResetFails(p)
           \/ \E p \in Replicas :
                 \/ Start(p) \/ Scan(p) \/ TickFails(p) \/ Crash(p)
                 \/ \E c \in Conns : TryLeader(p, c) \/ StandbyGetsLock(p, c)
           \/ LockConnCloses
           \/ UNCHANGED vars
  BY <1>3, QuietIsLesser, LesserKeepsHonest
<1> QED
  BY <1>1, <1>2, <1>3 DEF Next, Work

LEMMA InitHonest == Init => Clock /\ Honest
  BY DEF Init, Clock, Honest

(* A row is marked as sent only for a message that arrived. *)
THEOREM MarkedMeansDelivered == Spec => []SentWasDelivered
<1>1. Honest => SentWasDelivered
  BY DEF Honest, SentWasDelivered
<1> QED
  BY <1>1, InitTypes, InitHonest, NextKeepsTypes, NextKeepsClock, NextKeepsHonest, PTL
     DEF Spec

(* Every message a chat gets is of an event that one of its rules matches    *)
(* and is not younger than.                                                  *)
THEOREM AlertsAreFresh == Spec => []NoStaleAlerts
<1>1. Honest => NoStaleAlerts
  BY DEF Honest, NoStaleAlerts, Aged, Jobs
<1> QED
  BY <1>1, InitTypes, InitHonest, NextKeepsTypes, NextKeepsClock, NextKeepsHonest, PTL
     DEF Spec

-----------------------------------------------------------------------------
(* Part 4: duplicates *)

(* No rule of the chat, now or later, asks for the event. *)
Unmatchable(j) ==
  /\ occurred[j[1]] # NoTime
  /\ \A r \in Rules : RuleChat[r] = j[2] /\ created[r] # NoTime
                      => created[r] > occurred[j[1]]

(* The message of the job is not sent again: it is in no batch, and its row  *)
(* is marked, about to be marked, or gone for good.                          *)
Settled(j) ==
  /\ \A p \in Replicas : \A b \in batch[p] : b.job # j
  /\ \/ jobs[j] # NoJob /\ jobs[j].status = "sent"
     \/ \E p \in Replicas : \E b \in sending[p] : b.job = j /\ b.ok
     \/ jobs[j] = NoJob /\ Unmatchable(j) /\ \A p \in Replicas : j \notin inserting[p]

(* Messages of a job that mishaps and overtaken resets account for. *)
Allowed(j) == mishaps + overtaken[j[2]]

(* The row of a claim is not marked as sent.  Once deleted it never comes      *)
(* back, unless a reset was overtaken, which pays for the message in hand.    *)
ClaimsAreOpen ==
  \A p \in Replicas :
    /\ \A b \in batch[p] :
         IF jobs[b.job] = NoJob THEN Unmatchable(b.job) \/ delivered[b.job] < Allowed(b.job)
                                ELSE jobs[b.job].status # "sent"
    /\ \A b \in sending[p] :
         IF jobs[b.job] = NoJob THEN Unmatchable(b.job) \/ delivered[b.job] <= Allowed(b.job)
                                ELSE jobs[b.job].status # "sent"

(* Every job is claimed once. *)
ClaimsAreUnique ==
  \A p \in Replicas :
    /\ \A b1, b2 \in batch[p] : b1.job = b2.job => b1 = b2
    /\ \A b1 \in batch[p], b2 \in sending[p] : b1.job # b2.job
    /\ \A b1, b2 \in sending[p] : b1 = b2

(* All messages but one are accounted for, and that one is settled. *)
Paid(j) == delivered[j] <= Allowed(j) \/ (delivered[j] = Allowed(j) + 1 /\ Settled(j))

Single ==
  lockLosses = 0 => ClaimsAreOpen /\ ClaimsAreUnique /\ \A j \in Jobs : Paid(j)

(* Without a rule that matches now there is none later: new rules are younger. *)
LEMMA UnmatchableStays ==
  ASSUME Types, Clock, [Next]_vars, NEW j \in Jobs, Unmatchable(j)
  PROVE  Unmatchable(j)'
<1> USE DEF Types, TypeOK
<1>1. j[1] \in Events /\ occurred[j[1]] # NoTime
  BY DEF Jobs, Unmatchable
<1>2. occurred'[j[1]] = occurred[j[1]]
  <2>1. ASSUME NEW e \in Events, EventCommits(e) PROVE occurred'[j[1]] = occurred[j[1]]
    BY <1>1, <2>1 DEF EventCommits
  <2>2. (\E e \in Events : EventCommits(e)) \/ UNCHANGED occurred
    BY DEF Next, CreateRule, DeleteRule, DeleteRules, DeleteQueuedJobs, ResetFails, Work,
           Start, ResetInFlight, TryLeader, StandbyGetsLock, Scan, EnqueueReads,
           EnqueueInserts, ClaimDue, Reply, Mark, TickFails, Crash, BackoffEnds,
           LockConnCloses, vars, tables
  <2> QED
    BY <2>1, <2>2
<1>3. ASSUME NEW r \in Rules, RuleChat[r] = j[2], created'[r] # NoTime
      PROVE  created'[r] > occurred[j[1]]
  <2>1. ASSUME NEW x \in Rules, CreateRule(x) PROVE created'[r] > occurred[j[1]]
    <3>1. created' = [created EXCEPT ![x] = now + 1]
      BY <2>1 DEF CreateRule
    <3>2. occurred[j[1]] \in Nat /\ occurred[j[1]] <= now /\ now \in Nat
      BY <1>1 DEF Clock
    <3>3. CASE r = x
      BY <3>1, <3>2, <3>3
    <3>4. CASE r # x
      BY <1>3, <3>1, <3>4 DEF Unmatchable
    <3> QED
      BY <3>3, <3>4
  <2>2. CASE created'[r] = created[r]
    BY <1>3, <2>2 DEF Unmatchable
  <2>3. ASSUME NEW x \in Rules, DeleteRule(x) PROVE created'[r] \in {created[r], NoTime}
    BY <2>3 DEF DeleteRule
  <2>4. ASSUME NEW p \in Replicas, NEW c \in Chats, DeleteRules(p, c)
        PROVE  created'[r] \in {created[r], NoTime}
    BY <2>4 DEF DeleteRules
  <2>5. \/ \E x \in Rules : CreateRule(x) \/ DeleteRule(x)
        \/ \E p \in Replicas, c \in Chats : DeleteRules(p, c)
        \/ UNCHANGED created
    BY DEF Next, EventCommits, DeleteQueuedJobs, ResetFails, Work, Start, ResetInFlight,
           TryLeader, StandbyGetsLock, Scan, EnqueueReads, EnqueueInserts, ClaimDue, Reply, Mark, TickFails, Crash, BackoffEnds,
           LockConnCloses, vars, tables
  <2> QED
    BY <1>3, <2>1, <2>2, <2>3, <2>4, <2>5
<1> QED
  BY <1>1, <1>2, <1>3 DEF Unmatchable

(* Jobs of claims and inserts are jobs; what cannot match stays so. *)
LEMMA Context ==
  ASSUME Types, Clock, [Next]_vars
  PROVE  /\ \A q \in Replicas : \A b \in batch[q] \cup sending[q] : b.job \in Jobs
         /\ \A j \in Jobs : Unmatchable(j) => Unmatchable(j)'
         /\ \A j \in Jobs : delivered[j] \in Nat /\ Allowed(j) \in Nat
         /\ mishaps \in Nat
<1>1. \A j \in Jobs : Unmatchable(j) => Unmatchable(j)'
  BY UnmatchableStays
<1>2. \A q \in Replicas : \A b \in batch[q] \cup sending[q] : b.job \in Jobs
  BY ClaimTypes DEF Types, TypeOK
<1>3. \A j \in Jobs : Allowed(j) \in Nat
  BY DEF Allowed, Jobs, Types, TypeOK
<1> QED
  BY <1>1, <1>2, <1>3 DEF Types, TypeOK

(* The one that works is the only one with claims and inserts. *)
LEMMA Solo ==
  ASSUME Types, OneDispatcher, lockLosses = 0, NEW p \in Replicas, pc[p] \in Working,
         NEW q \in Replicas, q # p
  PROVE  batch[q] = {} /\ sending[q] = {} /\ inserting[q] = {}
<1>1. pc[q] \notin Working
  BY DEF OneDispatcher
<1> QED
  BY <1>1 DEF Types, TypeOK, Working

(* Steps that neither send, claim nor insert, and mark or delete no row. *)
LEMMA LesserKeepsSingle ==
  ASSUME Types, Clock, Single, [Next]_vars,
         UNCHANGED <<delivered, batch, sending, inserting, mishaps, overtaken>>,
         lockLosses' = 0 => lockLosses = 0,
         \A j \in Jobs : /\ jobs'[j] = NoJob <=> jobs[j] = NoJob
                         /\ jobs[j] # NoJob =>
                              (jobs'[j].status = "sent" <=> jobs[j].status = "sent")
  PROVE  Single'
<1> SUFFICES ASSUME lockLosses' = 0
             PROVE  (ClaimsAreOpen /\ ClaimsAreUnique /\ \A j \in Jobs : Paid(j))'
  BY DEF Single
<1>1. ClaimsAreOpen /\ ClaimsAreUnique /\ \A j \in Jobs : Paid(j)
  BY DEF Single
<1>2. ClaimsAreOpen'
  BY <1>1, Context DEF ClaimsAreOpen, Allowed
<1>3. ClaimsAreUnique'
  BY <1>1 DEF ClaimsAreUnique
<1>4. ASSUME NEW j \in Jobs, Settled(j) PROVE Settled(j)'
  BY <1>4, Context DEF Settled
<1>5. ASSUME NEW j \in Jobs PROVE Paid(j)'
  BY <1>1, <1>4 DEF Paid, Allowed
<1> QED
  BY <1>2, <1>3, <1>5

LEMMA StatusIsLesser ==
  ASSUME Types, (\E p \in Replicas : ResetInFlight(p)) \/ (\E j \in Jobs : BackoffEnds(j))
  PROVE  /\ UNCHANGED <<delivered, batch, sending, inserting, mishaps, overtaken, lockLosses>>
         /\ \A j \in Jobs : /\ jobs'[j] = NoJob <=> jobs[j] = NoJob
                            /\ jobs[j] # NoJob =>
                                 (jobs'[j].status = "sent" <=> jobs[j].status = "sent")
<1> USE DEF Types, TypeOK, process, tables
<1>1. UNCHANGED <<delivered, batch, sending, inserting, mishaps, overtaken, lockLosses>>
  BY DEF ResetInFlight, BackoffEnds, tables
<1>2. ASSUME NEW p \in Replicas, ResetInFlight(p), NEW j \in Jobs
      PROVE  /\ jobs'[j] = NoJob <=> jobs[j] = NoJob
             /\ jobs[j] # NoJob => (jobs'[j].status = "sent" <=> jobs[j].status = "sent")
  <2>1. jobs'[j] = IF InFlight(j) THEN [jobs[j] EXCEPT !.status = "pending", !.due = TRUE]
                                  ELSE jobs[j]
    BY <1>2 DEF ResetInFlight
  <2>2. CASE InFlight(j)
    <3>1. jobs[j] \in Row /\ jobs[j].status = "in_flight" /\ jobs[j] # NoJob
      BY <2>2 DEF InFlight
    <3>2. jobs'[j] \in Row
      BY <2>1, <2>2, <3>1, RowTypes
    <3>3. jobs'[j].status = "pending"
      BY <2>1, <2>2, <3>1 DEF Row
    <3> QED
      BY <3>1, <3>2, <3>3, NoJobIsNoRow
  <2>3. CASE ~InFlight(j)
    BY <2>1, <2>3
  <2> QED
    BY <2>2, <2>3
<1>3. ASSUME NEW k \in Jobs, BackoffEnds(k), NEW j \in Jobs
      PROVE  /\ jobs'[j] = NoJob <=> jobs[j] = NoJob
             /\ jobs[j] # NoJob => (jobs'[j].status = "sent" <=> jobs[j].status = "sent")
  <2>1. jobs' = [jobs EXCEPT ![k].due = TRUE] /\ jobs[k] \in Row
    BY <1>3 DEF BackoffEnds
  <2>2. /\ [jobs[k] EXCEPT !.due = TRUE].status = jobs[k].status
        /\ [jobs[k] EXCEPT !.due = TRUE] \in Row
    BY <2>1 DEF Row
  <2> QED
    BY <2>1, <2>2, NoJobIsNoRow
<1> QED
  BY <1>1, <1>2, <1>3

(* A mishap pays for whatever was delivered and is forgotten. *)
LEMMA MishapKeepsSingle ==
  ASSUME Types, Clock, Single, [Next]_vars,
         mishaps' = mishaps + 1, UNCHANGED <<jobs, delivered, overtaken, lockLosses>>,
         \A q \in Replicas : batch'[q] \subseteq batch[q] /\ sending'[q] \subseteq sending[q]
  PROVE  Single'
<1> SUFFICES ASSUME lockLosses' = 0
             PROVE  (ClaimsAreOpen /\ ClaimsAreUnique /\ \A j \in Jobs : Paid(j))'
  BY DEF Single
<1>1. ClaimsAreOpen /\ ClaimsAreUnique /\ \A j \in Jobs : Paid(j)
  BY DEF Single
<1>2. ClaimsAreOpen'
  <2>1. \A j \in Jobs : Allowed(j)' = Allowed(j) + 1
    BY Context DEF Allowed, Jobs, Types, TypeOK
  <2> QED
    BY <1>1, <2>1, Context DEF ClaimsAreOpen
<1>3. ClaimsAreUnique'
  BY <1>1 DEF ClaimsAreUnique
<1>4. ASSUME NEW j \in Jobs PROVE Paid(j)'
  <2>1. Allowed(j)' = Allowed(j) + 1
    BY DEF Allowed, Jobs, Types, TypeOK
  <2> QED
    BY <1>1, <2>1, Context DEF Paid
<1> QED
  BY <1>2, <1>3, <1>4

(* The second DELETE of a reset finds the chat without rules, so that the     *)
(* jobs it deletes do not come back, or it was overtaken and is accounted for. *)
LEMMA DeleteKeepsSingle ==
  ASSUME Types, Clock, Honest, Single, [Next]_vars, NEW p \in Replicas, NEW c \in Chats,
         DeleteQueuedJobs(p, c)
  PROVE  Single'
<1> SUFFICES ASSUME lockLosses' = 0
             PROVE  (ClaimsAreOpen /\ ClaimsAreUnique /\ \A j \in Jobs : Paid(j))'
  BY DEF Single
<1>1. /\ jobs' = [j \in Jobs |-> IF j[2] = c /\ Unsent(j) THEN NoJob ELSE jobs[j]]
      /\ overtaken' = [overtaken EXCEPT ![c] = IF Ruled(c) THEN @ + 1 ELSE @]
      /\ UNCHANGED <<lockLosses, batch, sending, inserting, delivered, mishaps,
                     occurred, created>>
  BY DEF DeleteQueuedJobs, process
<1>2. ClaimsAreOpen /\ ClaimsAreUnique /\ \A j \in Jobs : Paid(j)
  BY <1>1 DEF Single
<1>3. ASSUME NEW j \in Jobs
      PROVE  /\ Allowed(j)' \in Nat /\ Allowed(j)' >= Allowed(j)
             /\ j[2] = c /\ Ruled(c) => Allowed(j)' = Allowed(j) + 1
             /\ j[2] = c /\ Aged(j) /\ ~Ruled(c) => Unmatchable(j)
             /\ jobs'[j] = jobs[j] \/ (jobs'[j] = NoJob /\ jobs[j] # NoJob /\ j[2] = c)
             /\ jobs[j] # NoJob /\ jobs[j].status = "sent" => jobs'[j] = jobs[j]
  <2>1. j[2] \in Chats /\ overtaken \in [Chats -> Nat] /\ mishaps \in Nat
    BY DEF Jobs, Types, TypeOK
  <2>2. Allowed(j)' \in Nat
    BY <2>1, NextKeepsTypes DEF Allowed, Types, TypeOK
  <2>3. Allowed(j)' >= Allowed(j) /\ (j[2] = c /\ Ruled(c) => Allowed(j)' = Allowed(j) + 1)
    BY <1>1, <2>1 DEF Allowed
  <2>4. j[2] = c /\ Aged(j) /\ ~Ruled(c) => Unmatchable(j)
    BY DEF Unmatchable, Aged, Ruled
  <2>5. /\ jobs'[j] = jobs[j] \/ (jobs'[j] = NoJob /\ jobs[j] # NoJob /\ j[2] = c)
        /\ jobs[j] # NoJob /\ jobs[j].status = "sent" => jobs'[j] = jobs[j]
    BY <1>1 DEF Unsent
  <2> QED
    BY <2>2, <2>3, <2>4, <2>5
<1>4. ASSUME NEW j \in Jobs, Settled(j) PROVE Settled(j)'
  BY <1>1, <1>3, <1>4, Context DEF Settled
<1>5. ASSUME NEW j \in Jobs PROVE Paid(j)'
  <2>1. /\ delivered'[j] = delivered[j] /\ delivered[j] \in Nat
        /\ Allowed(j) \in Nat /\ Allowed(j)' \in Nat /\ Allowed(j)' >= Allowed(j)
    BY <1>1, <1>3, Context
  <2>2. delivered[j] <= Allowed(j) \/ (delivered[j] = Allowed(j) + 1 /\ Settled(j)')
    BY <1>2, <1>4 DEF Paid
  <2> QED
    BY <2>1, <2>2 DEF Paid
<1>6. ClaimsAreOpen'
  <2>1. ASSUME NEW q \in Replicas, NEW b \in batch[q] \cup sending[q],
               jobs[b.job] # NoJob, jobs'[b.job] = NoJob
        PROVE  \/ Unmatchable(b.job)'
               \/ delivered[b.job] < Allowed(b.job)'
               \/ b \in sending[q] /\ delivered[b.job] <= Allowed(b.job)'
    <3>1. b.job \in Jobs /\ Aged(b.job)
      BY Context DEF Honest
    <3>2. b.job[2] = c
      BY <1>3, <2>1, <3>1
    <3>3. CASE Ruled(c)
      <4>1. Allowed(b.job)' = Allowed(b.job) + 1 /\ Allowed(b.job) \in Nat
              /\ delivered[b.job] \in Nat
        BY <1>3, <3>1, <3>2, <3>3, Context
      <4>2. b \in batch[q] => ~Settled(b.job)
        BY DEF Settled
      <4> QED
        BY <1>2, <3>1, <4>1, <4>2 DEF Paid
    <3>4. CASE ~Ruled(c)
      BY <1>3, <3>1, <3>2, <3>4, Context
    <3> QED
      BY <3>3, <3>4
  <2>2. ASSUME NEW q \in Replicas, NEW b \in batch[q] \cup sending[q], jobs'[b.job] # NoJob
        PROVE  jobs'[b.job].status # "sent"
    <3>1. b.job \in Jobs
      BY Context
    <3>2. jobs'[b.job] = jobs[b.job]
      BY <1>3, <2>2, <3>1
    <3> QED
      BY <1>2, <2>2, <3>2 DEF ClaimsAreOpen
  <2>3. ASSUME NEW q \in Replicas, NEW b \in batch[q] \cup sending[q], jobs[b.job] = NoJob
        PROVE  \/ Unmatchable(b.job)'
               \/ b \in batch[q] /\ delivered[b.job] < Allowed(b.job)'
               \/ b \notin batch[q] /\ delivered[b.job] <= Allowed(b.job)'
    <3>1. b.job \in Jobs /\ Allowed(b.job)' >= Allowed(b.job)
      BY <1>3, Context
    <3>2. /\ Allowed(b.job) \in Nat /\ delivered[b.job] \in Nat /\ Allowed(b.job)' \in Nat
      BY <1>3, <3>1, Context
    <3> QED
      BY <1>2, <2>3, <3>1, <3>2, Context DEF ClaimsAreOpen
  <2>4. ASSUME NEW q \in Replicas, NEW b \in batch[q] \cap sending[q] PROVE FALSE
    BY <1>2, <2>4 DEF ClaimsAreUnique
  <2>5. ASSUME NEW q \in Replicas, NEW b \in batch[q], jobs'[b.job] = NoJob
        PROVE  Unmatchable(b.job)' \/ delivered[b.job] < Allowed(b.job)'
    BY <2>1, <2>3, <2>4, <2>5
  <2>6. ASSUME NEW q \in Replicas, NEW b \in sending[q], jobs'[b.job] = NoJob
        PROVE  Unmatchable(b.job)' \/ delivered[b.job] <= Allowed(b.job)'
    <3>1. b.job \in Jobs /\ delivered[b.job] \in Nat /\ Allowed(b.job)' \in Nat
      BY <1>3, Context
    <3> QED
      BY <2>1, <2>3, <2>4, <2>6, <3>1
  <2> QED
    BY <1>1, <2>2, <2>5, <2>6 DEF ClaimsAreOpen
<1>7. ClaimsAreUnique'
  BY <1>1, <1>2 DEF ClaimsAreUnique
<1> QED
  BY <1>5, <1>6, <1>7

(* An insert takes in nothing that cannot match, and finds no row of a job   *)
(* that cannot match.                                                        *)
LEMMA EnqueueKeepsSingle ==
  ASSUME Types, Clock, OneDispatcher, Single, [Next]_vars, NEW p \in Replicas,
         EnqueueReads(p) \/ EnqueueInserts(p)
  PROVE  Single'
<1> SUFFICES ASSUME lockLosses' = 0
             PROVE  (ClaimsAreOpen /\ ClaimsAreUnique /\ \A j \in Jobs : Paid(j))'
  BY DEF Single
<1>1. /\ UNCHANGED <<lockLosses, batch, sending, delivered, mishaps, overtaken, occurred,
                     created>>
      /\ pc[p] \in {"enqueue", "insert"}
  BY DEF EnqueueReads, EnqueueInserts, tables
<1>2. ClaimsAreOpen /\ ClaimsAreUnique /\ \A j \in Jobs : Paid(j)
  BY <1>1 DEF Single
<1>3. \A q \in Replicas : batch[q] = {} /\ sending[q] = {}
  <2>1. batch[p] = {} /\ sending[p] = {}
    BY <1>1 DEF Types, TypeOK
  <2>2. \A q \in Replicas : q # p => batch[q] = {} /\ sending[q] = {}
    BY <1>1, Solo DEF Working
  <2> QED
    BY <2>1, <2>2
<1>4. ClaimsAreOpen' /\ ClaimsAreUnique'
  BY <1>1, <1>3 DEF ClaimsAreOpen, ClaimsAreUnique
<1>5. ASSUME NEW j \in Jobs, Settled(j) PROVE Settled(j)'
  <2>1. CASE jobs[j] # NoJob /\ jobs[j].status = "sent"
    <3>1. jobs'[j] = jobs[j]
      BY <2>1 DEF EnqueueReads, EnqueueInserts, Inserted
    <3> QED
      BY <1>1, <1>3, <2>1, <3>1 DEF Settled
  <2>2. CASE jobs[j] = NoJob /\ Unmatchable(j) /\ \A q \in Replicas : j \notin inserting[q]
    <3>1. jobs'[j] = NoJob
      BY <2>2 DEF EnqueueReads, EnqueueInserts
    <3>2. Unmatchable(j)'
      BY <2>2, Context
    <3>3. ASSUME NEW q \in Replicas PROVE j \notin inserting'[q]
      <4>1. CASE EnqueueInserts(p)
        BY <2>2, <4>1 DEF EnqueueInserts, Types, TypeOK
      <4>2. CASE EnqueueReads(p)
        <5>1. PICK e \in todo[p] :
                inserting' = [inserting EXCEPT ![p] = {e} \X Audience(e)]
          BY <4>2 DEF EnqueueReads
        <5>2. ASSUME j[1] = e, j[2] \in Audience(e) PROVE FALSE
          <6>1. PICK r \in Rules : Matches(r, e) /\ j[2] = RuleChat[r]
            BY <5>2 DEF Audience
          <6>2. created[r] # NoTime /\ occurred[e] # NoTime /\ occurred[e] >= created[r]
            BY <6>1 DEF Matches
          <6>3. created[r] > occurred[e]
            BY <2>2, <5>2, <6>1, <6>2 DEF Unmatchable
          <6>4. created[r] \in Nat /\ occurred[e] \in Nat
            BY <6>2 DEF Types, TypeOK
          <6> QED
            BY <6>2, <6>3, <6>4
        <5>3. j \notin {e} \X Audience(e)
          BY <5>2
        <5> QED
          BY <2>2, <5>1, <5>3 DEF Types, TypeOK
      <4> QED
        BY <4>1, <4>2
    <3> QED
      BY <1>1, <1>3, <3>1, <3>2, <3>3 DEF Settled
  <2> QED
    BY <1>3, <1>5, <2>1, <2>2 DEF Settled
<1>6. ASSUME NEW j \in Jobs PROVE Paid(j)'
  BY <1>1, <1>2, <1>5 DEF Paid, Allowed
<1> QED
  BY <1>4, <1>6

(* A claim takes each job once, and no job that is settled. *)
LEMMA ClaimKeepsSingle ==
  ASSUME Types, Clock, OneDispatcher, Single, [Next]_vars, NEW p \in Replicas, ClaimDue(p)
  PROVE  Single'
<1> SUFFICES ASSUME lockLosses' = 0
             PROVE  (ClaimsAreOpen /\ ClaimsAreUnique /\ \A j \in Jobs : Paid(j))'
  BY DEF Single
<1>1. /\ UNCHANGED <<lockLosses, sending, inserting, delivered, mishaps, overtaken, occurred,
                     created>>
      /\ pc[p] = "claim"
  BY DEF ClaimDue, tables
<1>2. ClaimsAreOpen /\ ClaimsAreUnique /\ \A j \in Jobs : Paid(j)
  BY <1>1 DEF Single
<1>3. \A q \in Replicas : batch[q] = {} /\ sending[q] = {}
  <2>1. batch[p] = {} /\ sending[p] = {}
    BY <1>1 DEF Types, TypeOK
  <2>2. \A q \in Replicas : q # p => batch[q] = {} /\ sending[q] = {}
    BY <1>1, Solo DEF Working
  <2> QED
    BY <2>1, <2>2
<1>4. PICK picked \in SUBSET Due :
        /\ jobs' = [j \in Jobs |-> IF j \in picked THEN Claimed(jobs[j]) ELSE jobs[j]]
        /\ batch' = [batch EXCEPT ![p] =
             {[job |-> j, attempts |-> jobs'[j].attempts, ok |-> FALSE] : j \in picked}]
  BY DEF ClaimDue
<1>5. ASSUME NEW j \in picked
      PROVE  /\ j \in Jobs /\ jobs[j] # NoJob /\ jobs[j].status # "sent"
             /\ jobs'[j] # NoJob /\ jobs'[j].status # "sent"
  <2>1. j \in Jobs /\ jobs[j] # NoJob /\ jobs[j] \in Row /\ jobs[j].status # "sent"
    BY DEF Due, Unsent, Types, TypeOK
  <2>2. jobs'[j] = Claimed(jobs[j]) /\ Claimed(jobs[j]) \in Row
    BY <1>4, <2>1, RowTypes
  <2>3. Claimed(jobs[j]).status # "sent"
    BY <2>1 DEF Claimed, Row
  <2> QED
    BY <2>1, <2>2, <2>3, NoJobIsNoRow
<1>6. ASSUME NEW q \in Replicas, NEW b \in batch'[q]
      PROVE  q = p /\ b.job \in picked /\
             b = [job |-> b.job, attempts |-> jobs'[b.job].attempts, ok |-> FALSE]
  <2>1. q = p
    BY <1>3, <1>4, <1>6 DEF Types, TypeOK
  <2>2. PICK j \in picked : b = [job |-> j, attempts |-> jobs'[j].attempts, ok |-> FALSE]
    BY <1>4, <1>6, <2>1 DEF Types, TypeOK
  <2>3. b.job = j
    BY <2>2
  <2> QED
    BY <2>1, <2>2, <2>3
<1>7. \A q \in Replicas : sending'[q] = {}
  BY <1>1, <1>3
<1>8. ClaimsAreOpen'
  BY <1>5, <1>6, <1>7 DEF ClaimsAreOpen
<1>9. ClaimsAreUnique'
  <2>1. ASSUME NEW q \in Replicas, NEW b1 \in batch'[q], NEW b2 \in batch'[q],
               b1.job = b2.job
        PROVE  b1 = b2
    BY <1>6, <2>1
  <2> QED
    BY <1>7, <2>1 DEF ClaimsAreUnique
<1>10. ASSUME NEW j \in Jobs, Settled(j) PROVE Settled(j)'
  <2>1. j \notin picked
    BY <1>3, <1>5, <1>10 DEF Settled
  <2>2. jobs'[j] = jobs[j]
    BY <1>4, <2>1
  <2>3. \A q \in Replicas : \A b \in batch'[q] : b.job # j
    BY <1>6, <2>1
  <2> QED
    BY <1>1, <1>3, <1>10, <2>2, <2>3, Context DEF Settled
<1>11. ASSUME NEW j \in Jobs PROVE Paid(j)'
  BY <1>1, <1>2, <1>10 DEF Paid, Allowed
<1> QED
  BY <1>8, <1>9, <1>11

(* A message is sent for an open claim only, so that it is the one that is   *)
(* not paid for, unless its answer is lost, which is a mishap.               *)
LEMMA ReplyKeepsSingle ==
  ASSUME Types, Clock, OneDispatcher, Single, [Next]_vars, NEW p \in Replicas, Reply(p)
  PROVE  Single'
<1> SUFFICES ASSUME lockLosses' = 0
             PROVE  (ClaimsAreOpen /\ ClaimsAreUnique /\ \A j \in Jobs : Paid(j))'
  BY DEF Single
<1>1. UNCHANGED <<lockLosses, jobs, inserting, overtaken, occurred, created>> /\ pc[p] = "send"
  BY DEF Reply, tables
<1>2. ClaimsAreOpen /\ ClaimsAreUnique /\ \A j \in Jobs : Paid(j)
  BY <1>1 DEF Single
<1>3. PICK b \in batch[p], got \in BOOLEAN, ok \in BOOLEAN :
        /\ ok => got
        /\ mishaps' = IF got /\ ~ok THEN mishaps + 1 ELSE mishaps
        /\ batch' = [batch EXCEPT ![p] = @ \ {b}]
        /\ sending' = [sending EXCEPT ![p] = {[b EXCEPT !.ok = ok]}]
        /\ delivered' = [delivered EXCEPT ![b.job] = IF got THEN @ + 1 ELSE @]
  BY DEF Reply
<1> DEFINE sent == [b EXCEPT !.ok = ok]
<1>4. /\ b \in Claim /\ b.job \in Jobs
      /\ sent.job = b.job /\ sent.ok = ok
  <2>1. b \in Claim
    BY DEF Types, TypeOK
  <2> QED
    BY <2>1, ClaimTypes
<1>5. sending[p] = {}
  BY <1>1 DEF Types, TypeOK
<1>6. \A q \in Replicas : q # p => batch[q] = {} /\ sending[q] = {}
  BY <1>1, Solo DEF Working
<1>7. /\ batch'[p] = batch[p] \ {b} /\ sending'[p] = {sent}
      /\ \A q \in Replicas : q # p => batch'[q] = {} /\ sending'[q] = {}
  BY <1>3, <1>6 DEF Types, TypeOK
<1>8. /\ \A j \in Jobs : j # b.job => delivered'[j] = delivered[j]
      /\ delivered'[b.job] = IF got THEN delivered[b.job] + 1 ELSE delivered[b.job]
      /\ delivered \in [Jobs -> Nat] /\ mishaps \in Nat
  BY <1>3, <1>4 DEF Types, TypeOK
<1> HIDE DEF sent
<1>9. ASSUME NEW j \in Jobs
      PROVE  /\ Allowed(j) \in Nat /\ delivered[j] \in Nat
             /\ Allowed(j)' = IF got /\ ~ok THEN Allowed(j) + 1 ELSE Allowed(j)
  BY <1>1, <1>3, Context DEF Allowed, Jobs, Types, TypeOK
<1>10. ClaimsAreUnique'
  BY <1>2, <1>4, <1>7 DEF ClaimsAreUnique
<1>11. delivered[b.job] <= Allowed(b.job)
  BY <1>2, <1>4 DEF Paid, Settled
<1>12. ASSUME NEW j \in Jobs, j # b.job, Settled(j) PROVE Settled(j)'
  <2>1. \A q \in Replicas : \A x \in batch'[q] : x.job # j
    BY <1>7, <1>12 DEF Settled
  <2>2. ~\E q \in Replicas : \E x \in sending[q] : x.job = j
    BY <1>5, <1>6
  <2> QED
    BY <1>1, <1>12, <2>1, <2>2, Context DEF Settled
<1>13. ASSUME ok PROVE Settled(b.job)'
  <2>1. \A q \in Replicas : \A x \in batch'[q] : x.job # b.job
    BY <1>2, <1>7 DEF ClaimsAreUnique
  <2>2. \E x \in sending'[p] : x.job = b.job /\ x.ok
    BY <1>4, <1>7, <1>13
  <2> QED
    BY <2>1, <2>2 DEF Settled
<1>14. ASSUME NEW j \in Jobs PROVE Paid(j)'
  <2>1. CASE j # b.job
    <3>1. delivered'[j] = delivered[j] /\ Allowed(j)' \in {Allowed(j), Allowed(j) + 1}
      BY <1>8, <1>9, <2>1
    <3>2. Settled(j) => Settled(j)'
      BY <1>12, <2>1
    <3>3. delivered[j] <= Allowed(j) \/ (delivered[j] = Allowed(j) + 1 /\ Settled(j))
      BY <1>2 DEF Paid
    <3> QED
      BY <1>9, <3>1, <3>2, <3>3 DEF Paid
  <2>2. CASE j = b.job
    <3>1. CASE ok
      <4>1. delivered'[j] = delivered[j] + 1 /\ Allowed(j)' = Allowed(j)
        BY <1>3, <1>8, <1>9, <2>2, <3>1
      <4> QED
        BY <1>9, <1>11, <1>13, <2>2, <3>1, <4>1 DEF Paid
    <3>2. CASE ~ok
      BY <1>3, <1>8, <1>9, <1>11, <2>2, <3>2 DEF Paid
    <3> QED
      BY <3>1, <3>2
  <2> QED
    BY <2>1, <2>2
<1>15. ClaimsAreOpen'
  <2>1. ASSUME NEW x \in batch[p] \ {b}
        PROVE  /\ x.job \in Jobs /\ x.job # b.job /\ delivered'[x.job] = delivered[x.job]
               /\ Allowed(x.job)' >= Allowed(x.job)
    <3>1. x.job \in Jobs /\ x.job # b.job
      BY <1>2, Context DEF ClaimsAreUnique
    <3> QED
      BY <1>8, <1>9, <3>1
  <2>2. ASSUME NEW x \in batch[p] \ {b}, jobs[x.job] = NoJob
        PROVE  Unmatchable(x.job)' \/ delivered'[x.job] < Allowed(x.job)'
    <3>1. Unmatchable(x.job) \/ delivered[x.job] < Allowed(x.job)
      BY <1>2, <2>2 DEF ClaimsAreOpen
    <3> QED
      BY <1>9, <2>1, <3>1, Context
  <2>3. ASSUME jobs[b.job] = NoJob
        PROVE  Unmatchable(b.job)' \/ delivered'[b.job] <= Allowed(b.job)'
    <3>1. Unmatchable(b.job) \/ delivered[b.job] < Allowed(b.job)
      BY <1>2, <2>3 DEF ClaimsAreOpen
    <3> QED
      BY <1>4, <1>8, <1>9, <3>1, Context
  <2>4. \A x \in batch[p] : jobs[x.job] # NoJob => jobs[x.job].status # "sent"
    BY <1>2 DEF ClaimsAreOpen
  <2> QED
    BY <1>1, <1>4, <1>7, <2>2, <2>3, <2>4 DEF ClaimsAreOpen
<1> QED
  BY <1>10, <1>14, <1>15

(* The mark settles the message it follows. *)
LEMMA MarkKeepsSingle ==
  ASSUME Types, Clock, OneDispatcher, Single, [Next]_vars, NEW p \in Replicas, Mark(p)
  PROVE  Single'
<1> SUFFICES ASSUME lockLosses' = 0
             PROVE  (ClaimsAreOpen /\ ClaimsAreUnique /\ \A j \in Jobs : Paid(j))'
  BY DEF Single
<1>1. /\ UNCHANGED <<lockLosses, batch, inserting, delivered, mishaps, overtaken, occurred,
                     created>>
      /\ pc[p] = "mark"
  BY DEF Mark, tables
<1>2. ClaimsAreOpen /\ ClaimsAreUnique /\ \A j \in Jobs : Paid(j)
  BY <1>1 DEF Single
<1>3. PICK b \in sending[p] :
        jobs' = [jobs EXCEPT ![b.job] = IF @ = NoJob THEN NoJob ELSE Marked(@, b)]
  BY DEF Mark
<1>4. b.job \in Jobs /\ sending[p] = {b}
  BY <1>2, Context DEF ClaimsAreUnique
<1>5. \A q \in Replicas : q # p => batch[q] = {} /\ sending[q] = {} /\ inserting[q] = {}
  BY <1>1, Solo DEF Working
<1>6. inserting[p] = {} /\ \A q \in Replicas : sending'[q] = {}
  <2>1. inserting[p] = {}
    BY <1>1 DEF Types, TypeOK
  <2>2. sending' = [sending EXCEPT ![p] = {}]
    BY DEF Mark
  <2> QED
    BY <1>5, <2>1, <2>2 DEF Types, TypeOK
<1>7. /\ \A j \in Jobs : j # b.job => jobs'[j] = jobs[j]
      /\ jobs[b.job] = NoJob => jobs'[b.job] = NoJob
      /\ jobs[b.job] # NoJob => jobs'[b.job] = Marked(jobs[b.job], b)
  BY <1>3, <1>4 DEF Types, TypeOK
<1>8. \A q \in Replicas : \A x \in batch[q] : x.job # b.job /\ x.job \in Jobs
  BY <1>2, <1>5, Context DEF ClaimsAreUnique
<1>9. ClaimsAreOpen'
  <2>1. ASSUME NEW q \in Replicas, NEW x \in batch[q]
        PROVE  IF jobs'[x.job] = NoJob
               THEN Unmatchable(x.job)' \/ delivered[x.job] < Allowed(x.job)
               ELSE jobs'[x.job].status # "sent"
    BY <1>2, <1>7, <1>8, Context DEF ClaimsAreOpen
  <2> QED
    BY <1>1, <1>6, <2>1 DEF ClaimsAreOpen, Allowed
<1>10. ClaimsAreUnique'
  BY <1>1, <1>2, <1>6 DEF ClaimsAreUnique
<1>11. ASSUME NEW j \in Jobs, Settled(j) PROVE Settled(j)' \/ delivered[j] <= Allowed(j)
  <2>1. \A q \in Replicas : \A x \in batch'[q] : x.job # j
    BY <1>1, <1>11 DEF Settled
  <2>2. CASE jobs[j] # NoJob /\ jobs[j].status = "sent"
    <3>1. j # b.job
      BY <1>2, <1>4, <2>2 DEF ClaimsAreOpen
    <3> QED
      BY <1>7, <2>1, <2>2, <3>1 DEF Settled
  <2>3. CASE jobs[j] = NoJob /\ Unmatchable(j) /\ \A q \in Replicas : j \notin inserting[q]
    <3>1. jobs'[j] = NoJob
      BY <1>7, <2>3
    <3> QED
      BY <1>1, <2>1, <2>3, <3>1, Context DEF Settled
  <2>4. CASE j = b.job /\ b.ok
    <3>1. CASE jobs[j] = NoJob
      <4>1. Unmatchable(j) \/ delivered[j] <= Allowed(j)
        BY <1>2, <2>4, <3>1 DEF ClaimsAreOpen
      <4> QED
        BY <1>1, <1>5, <1>6, <1>7, <2>1, <2>4, <3>1, <4>1, Context DEF Settled
    <3>2. CASE jobs[j] # NoJob
      <4>1. jobs[j] \in Row
        BY <3>2 DEF Types, TypeOK
      <4>2. jobs'[j] = Marked(jobs[j], b) /\ Marked(jobs[j], b) \in Row
        BY <1>7, <2>4, <3>2, <4>1, RowTypes
      <4>3. Marked(jobs[j], b).status = "sent"
        BY <2>4, <4>1 DEF Marked, Row
      <4> QED
        BY <2>1, <4>2, <4>3, NoJobIsNoRow DEF Settled
    <3> QED
      BY <3>1, <3>2
  <2> QED
    BY <1>4, <1>5, <1>11, <2>2, <2>3, <2>4 DEF Settled
<1>12. ASSUME NEW j \in Jobs PROVE Paid(j)'
  BY <1>1, <1>2, <1>11 DEF Paid, Allowed
<1> QED
  BY <1>9, <1>10, <1>12

LEMMA NextKeepsSingle ==
  Types /\ OneDispatcher /\ Clock /\ Honest /\ Single /\ [Next]_vars => Single'
<1> SUFFICES ASSUME Types, OneDispatcher, Clock, Honest, Single, [Next]_vars PROVE Single'
  OBVIOUS
<1>1. CASE (\E p \in Replicas : ResetInFlight(p)) \/ (\E j \in Jobs : BackoffEnds(j))
  BY <1>1, StatusIsLesser, LesserKeepsSingle
<1>2. CASE \/ \E e \in Events : EventCommits(e)
           \/ \E r \in Rules : CreateRule(r) \/ DeleteRule(r)
           \/ \E p \in Replicas, c \in Chats : DeleteRules(p, c)
           \/ \E p \in Replicas : \/ Start(p) \/ Scan(p)
                                  \/ \E c \in Conns : TryLeader(p, c) \/ StandbyGetsLock(p, c)
           \/ LockConnCloses
           \/ UNCHANGED vars
  <2>1. UNCHANGED <<jobs, delivered, batch, sending, inserting, mishaps, overtaken>>
    BY <1>2 DEF EventCommits, CreateRule, DeleteRule, DeleteRules, Start, Scan, TryLeader,
                StandbyGetsLock, LockConnCloses, process, tables, vars
  <2>2. lockLosses' = 0 => lockLosses = 0
    BY <1>2 DEF EventCommits, CreateRule, DeleteRule, DeleteRules, Start, Scan, TryLeader,
                StandbyGetsLock, LockConnCloses, process, vars, Types
  <2> QED
    BY <2>1, <2>2, LesserKeepsSingle
<1>3. CASE \/ \E p \in Replicas : ResetFails(p)
           \/ \E p \in Replicas : TickFails(p) \/ Crash(p)
  <2>1. mishaps' = mishaps + 1 /\ UNCHANGED <<jobs, delivered, overtaken, lockLosses>>
    BY <1>3 DEF ResetFails, TickFails, Crash, tables
  <2>2. ASSUME NEW p \in Replicas, ResetFails(p) PROVE UNCHANGED <<batch, sending>>
    BY <2>2 DEF ResetFails, process
  <2>3. ASSUME NEW p \in Replicas, TickFails(p) \/ Crash(p), NEW q \in Replicas
        PROVE  batch'[q] \subseteq batch[q] /\ sending'[q] \subseteq sending[q]
    BY <2>3 DEF TickFails, Crash, Forgets, Types, TypeOK
  <2>4. \A q \in Replicas : batch'[q] \subseteq batch[q] /\ sending'[q] \subseteq sending[q]
    BY <1>3, <2>2, <2>3
  <2> QED
    BY <2>1, <2>4, MishapKeepsSingle
<1>4. CASE \E p \in Replicas, c \in Chats : DeleteQueuedJobs(p, c)
  BY <1>4, DeleteKeepsSingle
<1>5. CASE \E p \in Replicas : EnqueueReads(p) \/ EnqueueInserts(p)
  BY <1>5, EnqueueKeepsSingle
<1>6. CASE \E p \in Replicas : ClaimDue(p)
  BY <1>6, ClaimKeepsSingle
<1>7. CASE \E p \in Replicas : Reply(p)
  BY <1>7, ReplyKeepsSingle
<1>8. CASE \E p \in Replicas : Mark(p)
  BY <1>8, MarkKeepsSingle
<1> QED
  BY <1>1, <1>2, <1>3, <1>4, <1>5, <1>6, <1>7, <1>8 DEF Next, Work

LEMMA InitSingle == Init => Single
<1>1. ASSUME Init, NEW j \in Jobs PROVE Paid(j)
  BY <1>1 DEF Init, Paid, Allowed, Jobs
<1> QED
  BY <1>1 DEF Init, Single, ClaimsAreOpen, ClaimsAreUnique

(* The inductive invariant of the dispatcher. *)
IInv == Types /\ OneDispatcher /\ Clock /\ Honest /\ Single

THEOREM Invariance == Spec => []IInv
<1>1. Init => IInv
  BY InitTypes, InitAlone, InitHonest, InitSingle DEF IInv
<1>2. IInv /\ [Next]_vars => IInv'
  BY NextKeepsTypes, NextKeepsAlone, NextKeepsClock, NextKeepsHonest, NextKeepsSingle
     DEF IInv
<1> QED
  BY <1>1, <1>2, PTL DEF Spec

(* With one dispatcher a chat receives an event at most once, plus once for  *)
(* every crash, failed statement or lost answer, and once for every reset    *)
(* that a new rule of the chat overtook.                                     *)
THEOREM DuplicatesArePaidFor == Spec => []DuplicatesNeedMishaps
<1>1. IInv => DuplicatesNeedMishaps
  <2> SUFFICES ASSUME IInv, lockLosses = 0, NEW j \in Jobs
               PROVE  delivered[j] <= 1 + mishaps + overtaken[j[2]]
    BY DEF DuplicatesNeedMishaps
  <2>1. /\ Paid(j) /\ delivered[j] \in Nat
        /\ mishaps \in Nat /\ overtaken[j[2]] \in Nat
    BY DEF IInv, Single, Jobs, Types, TypeOK
  <2> QED
    BY <2>1 DEF Paid, Allowed
<1> QED
  BY <1>1, Invariance, PTL

(* With one dispatcher a job that is marked as sent stays so. *)
THEOREM SentForGood == Spec => SentIsFinal
<1>1. ASSUME IInv, [Next]_vars, lockLosses = 0, NEW j \in Jobs,
             jobs[j] # NoJob, jobs[j].status = "sent"
      PROVE  jobs'[j] # NoJob /\ jobs'[j].status = "sent"
  <2> USE DEF IInv, Types, TypeOK
  <2>1. ASSUME NEW p \in Replicas, NEW c \in Chats, DeleteQueuedJobs(p, c) PROVE jobs'[j] = jobs[j]
    BY <1>1, <2>1 DEF DeleteQueuedJobs, Unsent
  <2>2. ASSUME NEW p \in Replicas, EnqueueInserts(p) PROVE jobs'[j] = jobs[j]
    BY <1>1, <2>2 DEF EnqueueInserts, Inserted
  <2>3. ASSUME NEW p \in Replicas, ClaimDue(p) PROVE jobs'[j] = jobs[j]
    BY <1>1, <2>3 DEF ClaimDue, Due, Unsent
  <2>4. ASSUME NEW p \in Replicas, Mark(p) PROVE jobs'[j] = jobs[j]
    <3>1. PICK b \in sending[p] :
            jobs' = [jobs EXCEPT ![b.job] = IF @ = NoJob THEN NoJob ELSE Marked(@, b)]
      BY <2>4 DEF Mark
    <3>2. b.job # j
      BY <1>1 DEF Single, ClaimsAreOpen
    <3> QED
      BY <3>1, <3>2
  <2>5. CASE (\E p \in Replicas : ResetInFlight(p)) \/ (\E k \in Jobs : BackoffEnds(k))
    BY <1>1, <2>5, StatusIsLesser
  <2>6. \/ UNCHANGED jobs
        \/ \E p \in Replicas, c \in Chats : DeleteQueuedJobs(p, c)
        \/ \E p \in Replicas : EnqueueInserts(p) \/ ClaimDue(p) \/ Mark(p)
        \/ (\E p \in Replicas : ResetInFlight(p)) \/ (\E k \in Jobs : BackoffEnds(k))
    BY <1>1 DEF Next, Work, EventCommits, CreateRule, DeleteRule, DeleteRules, ResetFails, Start,
           TryLeader, StandbyGetsLock, Scan, EnqueueReads, Reply, TickFails, Crash,
           LockConnCloses, vars
  <2> QED
    BY <1>1, <2>1, <2>2, <2>3, <2>4, <2>5, <2>6
<1>2. IInv /\ [Next]_vars =>
        [\A j \in Jobs : jobs[j] # NoJob /\ jobs[j].status = "sent"
           => lockLosses > 0 \/ (jobs'[j] # NoJob /\ jobs'[j].status = "sent")]_vars
  <2>1. IInv => lockLosses = 0 \/ lockLosses > 0
    BY DEF IInv, Types
  <2> QED
    BY <1>1, <2>1
<1> QED
  BY <1>2, Invariance, PTL DEF Spec, SentIsFinal

-----------------------------------------------------------------------------
(* Part 5: what is given up was tried *)

(* What was spent on a job: calls of Telegram, and mishaps in their stead.   *)
Spent(j) == tries[j] + mishaps

(* An attempt that is counted and not yet spent is a claim in the batch.     *)
AttemptFits(j) ==
  /\ jobs[j].attempts <= Spent(j) + 1
  /\ (\A p \in Replicas : \A b \in batch[p] : b.job # j) => jobs[j].attempts <= Spent(j)
  /\ jobs[j].status = "dead" => Spent(j) >= MaxAttempts

Attempted ==
  lockLosses = 0 =>
    /\ \A p \in Replicas : \A b \in batch[p] : b.attempts <= Spent(b.job) + 1
    /\ \A p \in Replicas : \A b \in sending[p] : b.attempts <= Spent(b.job)
    /\ \A j \in Jobs : jobs[j] # NoJob => AttemptFits(j)

(* A row that is deleted, inserted, or neither counted nor given up.         *)
Spared(j) ==
  \/ jobs'[j] = NoJob
  \/ jobs'[j].attempts = 0 /\ jobs'[j].status = "pending"
  \/ /\ jobs[j] # NoJob /\ jobs'[j].attempts = jobs[j].attempts
     /\ jobs'[j].status = "dead" => jobs[j].status = "dead"

LEMMA NumbersOfAttempts ==
  ASSUME Types
  PROVE  /\ \A j \in Jobs : Spent(j) \in Nat /\ tries[j] \in Nat
         /\ \A j \in Jobs : jobs[j] # NoJob => jobs[j] \in Row /\ jobs[j].attempts \in Nat
         /\ \A p \in Replicas : \A b \in batch[p] \cup sending[p] :
              b \in Claim /\ b.job \in Jobs /\ b.attempts \in Nat
         /\ mishaps \in Nat /\ lockLosses \in Nat /\ MaxAttempts \in Nat \ {0}
<1>1. \A j \in Jobs : tries[j] \in Nat /\ Spent(j) \in Nat
  BY DEF Types, TypeOK, Spent
<1>2. \A j \in Jobs : jobs[j] # NoJob => jobs[j] \in Row /\ jobs[j].attempts \in Nat
  BY DEF Types, TypeOK, Row
<1>3. \A p \in Replicas : \A b \in batch[p] \cup sending[p] :
        b \in Claim /\ b.job \in Jobs /\ b.attempts \in Nat
  BY DEF Types, TypeOK, Claim
<1> QED
  BY <1>1, <1>2, <1>3, LimitsAreNumbers DEF Types

LEMMA SparedKeepsAttempted ==
  ASSUME Types, Attempted, UNCHANGED <<batch, sending, tries, mishaps>>,
         lockLosses' = 0 => lockLosses = 0,
         \A j \in Jobs : jobs'[j] = jobs[j] \/ Spared(j)
  PROVE  Attempted'
<1> SUFFICES ASSUME lockLosses' = 0 PROVE Attempted'
  BY DEF Attempted
<1>1. \A j : Spent(j)' = Spent(j)
  BY DEF Spent
<1>2. ASSUME NEW j \in Jobs, jobs'[j] # NoJob PROVE AttemptFits(j)'
  BY <1>1, <1>2, NumbersOfAttempts DEF AttemptFits, Attempted, Spared
<1> QED
  BY <1>1, <1>2 DEF Attempted

(* A tick that fails drops its claims, and is a mishap for each of them.     *)
LEMMA MishapKeepsAttempted ==
  ASSUME Types, Attempted, mishaps' = mishaps + 1, UNCHANGED <<jobs, tries, lockLosses>>,
         \A p \in Replicas : batch'[p] \subseteq batch[p] /\ sending'[p] \subseteq sending[p]
  PROVE  Attempted'
<1> SUFFICES ASSUME lockLosses' = 0 PROVE Attempted'
  BY DEF Attempted
<1>1. \A j \in Jobs : Spent(j)' = Spent(j) + 1
  BY NumbersOfAttempts DEF Spent
<1>2. ASSUME NEW j \in Jobs, jobs'[j] # NoJob PROVE AttemptFits(j)'
  BY <1>1, <1>2, NumbersOfAttempts DEF AttemptFits, Attempted
<1>3. ASSUME NEW p \in Replicas, NEW b \in batch'[p] PROVE b.attempts <= Spent(b.job)' + 1
  BY <1>1, <1>3, NumbersOfAttempts DEF Attempted
<1>4. ASSUME NEW p \in Replicas, NEW b \in sending'[p] PROVE b.attempts <= Spent(b.job)'
  BY <1>1, <1>4, NumbersOfAttempts DEF Attempted
<1> QED
  BY <1>2, <1>3, <1>4 DEF Attempted

(* A claim counts an attempt; no other claim is open then. *)
LEMMA ClaimKeepsAttempted ==
  ASSUME Types, OneDispatcher, Attempted, NEW p \in Replicas, ClaimDue(p)
  PROVE  Attempted'
<1> SUFFICES ASSUME lockLosses' = 0 PROVE Attempted'
  BY DEF Attempted
<1>1. UNCHANGED <<lockLosses, sending, tries, mishaps>> /\ pc[p] = "claim"
  BY DEF ClaimDue, tables
<1>2. \A q \in Replicas : batch[q] = {} /\ sending[q] = {}
  <2>1. batch[p] = {} /\ sending[p] = {}
    BY <1>1 DEF Types, TypeOK
  <2>2. \A q \in Replicas : q # p => batch[q] = {} /\ sending[q] = {}
    BY <1>1, Solo DEF Working
  <2> QED
    BY <2>1, <2>2
<1>3. PICK picked \in SUBSET Due :
        /\ jobs' = [j \in Jobs |-> IF j \in picked THEN Claimed(jobs[j]) ELSE jobs[j]]
        /\ batch' = [batch EXCEPT ![p] =
             {[job |-> j, attempts |-> jobs'[j].attempts, ok |-> FALSE] : j \in picked}]
  BY DEF ClaimDue
<1>4. \A j \in Jobs : Spent(j)' = Spent(j)
  BY <1>1 DEF Spent
<1>5. ASSUME NEW j \in picked
      PROVE  /\ j \in Jobs /\ jobs[j] # NoJob
             /\ jobs'[j].attempts = jobs[j].attempts + 1 /\ jobs'[j].status = "in_flight"
  <2>1. j \in Jobs /\ jobs[j] # NoJob /\ jobs[j] \in Row
    BY DEF Due, Unsent, Types, TypeOK
  <2>2. jobs'[j] = Claimed(jobs[j])
    BY <1>3, <2>1
  <2> QED
    BY <2>1, <2>2 DEF Claimed, Row
<1>6. ASSUME NEW j \in Jobs, jobs[j] # NoJob
      PROVE  /\ jobs[j].attempts <= Spent(j)
             /\ jobs[j].status = "dead" => Spent(j) >= MaxAttempts
  BY <1>1, <1>2, <1>6 DEF Attempted, AttemptFits
<1>7. batch'[p] = {[job |-> j, attempts |-> jobs'[j].attempts, ok |-> FALSE] : j \in picked}
  BY <1>3 DEF Types, TypeOK
<1>8. ASSUME NEW j \in Jobs, jobs'[j] # NoJob PROVE AttemptFits(j)'
  <2>1. CASE j \in picked
    <3>1. \E b \in batch'[p] : b.job = j
      <4> DEFINE b == [job |-> j, attempts |-> jobs'[j].attempts, ok |-> FALSE]
      <4>1. b \in batch'[p] /\ b.job = j
        BY <1>7, <2>1
      <4> QED
        BY <4>1
    <3>2. jobs'[j].attempts <= Spent(j) + 1
      BY <1>5, <1>6, <2>1, NumbersOfAttempts
    <3> QED
      BY <1>4, <1>5, <2>1, <3>1, <3>2 DEF AttemptFits
  <2>2. CASE j \notin picked
    <3>1. jobs'[j] = jobs[j]
      BY <1>3, <2>2
    <3> QED
      BY <1>4, <1>6, <1>8, <3>1, NumbersOfAttempts DEF AttemptFits
  <2> QED
    BY <2>1, <2>2
<1>9. ASSUME NEW q \in Replicas, NEW b \in batch'[q] PROVE b.attempts <= Spent(b.job)' + 1
  <2>1. q = p
    BY <1>2, <1>3, <1>9 DEF Types, TypeOK
  <2>2. PICK j \in picked : b = [job |-> j, attempts |-> jobs'[j].attempts, ok |-> FALSE]
    BY <1>7, <1>9, <2>1
  <2>3. b.job = j /\ b.attempts = jobs'[j].attempts
    BY <2>2
  <2> QED
    BY <1>4, <1>5, <1>6, <2>3, NumbersOfAttempts
<1>10. \A q \in Replicas : sending'[q] = {}
  BY <1>1, <1>2
<1> QED
  BY <1>8, <1>9, <1>10 DEF Attempted

(* A call spends the attempt of its claim. *)
LEMMA ReplyKeepsAttempted ==
  ASSUME Types, OneDispatcher, Single, Attempted, NEW p \in Replicas, Reply(p)
  PROVE  Attempted'
<1> SUFFICES ASSUME lockLosses' = 0 PROVE Attempted'
  BY DEF Attempted
<1>1. UNCHANGED <<lockLosses, jobs>> /\ pc[p] = "send"
  BY DEF Reply
<1>2. PICK b \in batch[p], got \in BOOLEAN, ok \in BOOLEAN :
        /\ mishaps' = IF got /\ ~ok THEN mishaps + 1 ELSE mishaps
        /\ batch' = [batch EXCEPT ![p] = @ \ {b}]
        /\ sending' = [sending EXCEPT ![p] = {[b EXCEPT !.ok = ok]}]
        /\ tries' = [tries EXCEPT ![b.job] = @ + 1]
  BY DEF Reply
<1>3. \A q \in Replicas : q # p => batch[q] = {} /\ sending[q] = {}
  BY <1>1, Solo DEF Working
<1>4. /\ batch'[p] = batch[p] \ {b} /\ sending'[p] = {[b EXCEPT !.ok = ok]}
      /\ \A q \in Replicas : q # p => batch'[q] = {} /\ sending'[q] = {}
  BY <1>2, <1>3 DEF Types, TypeOK
<1>5. /\ b \in Claim /\ b.job \in Jobs
      /\ [b EXCEPT !.ok = ok].job = b.job /\ [b EXCEPT !.ok = ok].attempts = b.attempts
  BY NumbersOfAttempts DEF Claim
<1>6. /\ \A j \in Jobs : Spent(j)' \in Nat /\ Spent(j)' >= Spent(j)
      /\ Spent(b.job)' >= Spent(b.job) + 1
  <2>1. tries \in [Jobs -> Nat] /\ mishaps' \in {mishaps, mishaps + 1}
    BY <1>2 DEF Types, TypeOK
  <2>2. \A j \in Jobs : tries'[j] = IF j = b.job THEN tries[j] + 1 ELSE tries[j]
    BY <1>2, <1>5, <2>1
  <2> QED
    BY <1>5, <2>1, <2>2, NumbersOfAttempts DEF Spent
<1>7. ASSUME NEW j \in Jobs, jobs'[j] # NoJob PROVE AttemptFits(j)'
  <2>1. AttemptFits(j)
    BY <1>1, <1>7 DEF Attempted
  <2>2. CASE j = b.job
    BY <1>1, <1>6, <1>7, <2>1, <2>2, NumbersOfAttempts DEF AttemptFits
  <2>3. CASE j # b.job
    <3>1. (\A q \in Replicas : \A x \in batch'[q] : x.job # j)
            => \A q \in Replicas : \A x \in batch[q] : x.job # j
      BY <1>3, <1>4, <2>3
    <3> QED
      BY <1>1, <1>6, <1>7, <2>1, <3>1, NumbersOfAttempts DEF AttemptFits
  <2> QED
    BY <2>2, <2>3
<1>8. ASSUME NEW q \in Replicas, NEW x \in batch'[q] PROVE x.attempts <= Spent(x.job)' + 1
  <2>1. x \in batch[p]
    BY <1>4, <1>8
  <2> QED
    BY <1>1, <1>6, <2>1, NumbersOfAttempts DEF Attempted
<1>9. ASSUME NEW q \in Replicas, NEW x \in sending'[q] PROVE x.attempts <= Spent(x.job)'
  <2>1. x.job = b.job /\ x.attempts = b.attempts
    BY <1>4, <1>5, <1>9
  <2>2. b.attempts <= Spent(b.job) + 1
    BY <1>1 DEF Attempted
  <2> QED
    BY <1>5, <1>6, <2>1, <2>2, NumbersOfAttempts
<1> QED
  BY <1>7, <1>8, <1>9 DEF Attempted

(* A mark gives up only when the spent attempts reach the limit. *)
LEMMA MarkKeepsAttempted ==
  ASSUME Types, Attempted, NEW p \in Replicas, Mark(p)
  PROVE  Attempted'
<1> SUFFICES ASSUME lockLosses' = 0 PROVE Attempted'
  BY DEF Attempted
<1>1. UNCHANGED <<lockLosses, batch, tries, mishaps>>
  BY DEF Mark
<1>2. PICK b \in sending[p] :
        jobs' = [jobs EXCEPT ![b.job] = IF @ = NoJob THEN NoJob ELSE Marked(@, b)]
  BY DEF Mark
<1>3. \A j : Spent(j)' = Spent(j)
  BY <1>1 DEF Spent
<1>4. b.job \in Jobs /\ b.attempts <= Spent(b.job) /\ b.attempts \in Nat
  BY <1>1, NumbersOfAttempts DEF Attempted
<1>5. ASSUME NEW j \in Jobs, jobs'[j] # NoJob PROVE AttemptFits(j)'
  <2>1. CASE j # b.job
    <3>1. jobs'[j] = jobs[j]
      BY <1>2, <2>1 DEF Types, TypeOK
    <3> QED
      BY <1>1, <1>3, <1>5, <3>1 DEF Attempted, AttemptFits
  <2>2. CASE j = b.job
    <3>1. jobs[j] # NoJob /\ jobs'[j] = Marked(jobs[j], b)
      BY <1>2, <1>5, <2>2 DEF Types, TypeOK
    <3>2. AttemptFits(j) /\ jobs[j] \in Row
      BY <1>1, <3>1, NumbersOfAttempts DEF Attempted
    <3>3. /\ jobs'[j].attempts = jobs[j].attempts
          /\ jobs'[j].status = "dead" => b.attempts >= MaxAttempts
      BY <3>1, <3>2 DEF Marked, Row
    <3>4. b.attempts >= MaxAttempts => Spent(j) >= MaxAttempts
      BY <1>4, <2>2, NumbersOfAttempts
    <3> QED
      BY <1>1, <1>3, <3>2, <3>3, <3>4 DEF AttemptFits
  <2> QED
    BY <2>1, <2>2
<1>6. \A q \in Replicas : sending'[q] \subseteq sending[q]
  <2>1. sending' = [sending EXCEPT ![p] = {}]
    BY DEF Mark
  <2> QED
    BY <2>1 DEF Types, TypeOK
<1> QED
  BY <1>1, <1>3, <1>5, <1>6 DEF Attempted

(* The other statements that write rows spare them. *)
LEMMA OtherWritesSpare ==
  ASSUME Types,
         \/ \E p \in Replicas, c \in Chats : DeleteQueuedJobs(p, c)
         \/ \E p \in Replicas : ResetInFlight(p) \/ EnqueueInserts(p)
         \/ \E j \in Jobs : BackoffEnds(j),
         NEW j \in Jobs
  PROVE  jobs'[j] = jobs[j] \/ Spared(j)
<1>1. ASSUME NEW p \in Replicas, NEW c \in Chats, DeleteQueuedJobs(p, c) PROVE jobs'[j] = jobs[j] \/ Spared(j)
  BY <1>1 DEF DeleteQueuedJobs, Spared
<1>2. ASSUME NEW p \in Replicas, ResetInFlight(p) PROVE jobs'[j] = jobs[j] \/ Spared(j)
  <2>1. jobs'[j] = IF InFlight(j) THEN [jobs[j] EXCEPT !.status = "pending", !.due = TRUE]
                                  ELSE jobs[j]
    BY <1>2 DEF ResetInFlight
  <2>2. CASE InFlight(j)
    <3>1. jobs[j] \in Row /\ jobs[j] # NoJob
      BY <2>2 DEF InFlight, Types, TypeOK
    <3>2. jobs'[j].attempts = jobs[j].attempts /\ jobs'[j].status = "pending"
      BY <2>1, <2>2, <3>1 DEF Row
    <3> QED
      BY <3>1, <3>2 DEF Spared
  <2> QED
    BY <2>1, <2>2
<1>3. ASSUME NEW p \in Replicas, EnqueueInserts(p) PROVE jobs'[j] = jobs[j] \/ Spared(j)
  <2>1. jobs'[j] \in {jobs[j], [status |-> "pending", attempts |-> 0, due |-> TRUE]}
    BY <1>3 DEF EnqueueInserts, Inserted
  <2> QED
    BY <2>1 DEF Spared
<1>4. ASSUME NEW k \in Jobs, BackoffEnds(k) PROVE jobs'[j] = jobs[j] \/ Spared(j)
  <2>1. jobs' = [jobs EXCEPT ![k].due = TRUE] /\ jobs[k] \in Row /\ jobs[k] # NoJob
    BY <1>4 DEF BackoffEnds, Types, TypeOK
  <2>2. j # k => jobs'[j] = jobs[j]
    BY <2>1 DEF Types, TypeOK
  <2>3. j = k => jobs'[j] = [jobs[j] EXCEPT !.due = TRUE]
    BY <2>1 DEF Types, TypeOK
  <2>4. j = k => jobs'[j].attempts = jobs[j].attempts /\ jobs'[j].status = jobs[j].status
    BY <2>1, <2>3 DEF Row
  <2> QED
    BY <2>1, <2>2, <2>4 DEF Spared
<1> QED
  BY <1>1, <1>2, <1>3, <1>4

LEMMA NextKeepsAttempted ==
  Types /\ OneDispatcher /\ Single /\ Attempted /\ [Next]_vars => Attempted'
<1> SUFFICES ASSUME Types, OneDispatcher, Single, Attempted, [Next]_vars PROVE Attempted'
  OBVIOUS
<1>1. CASE \/ \E p \in Replicas, c \in Chats : DeleteQueuedJobs(p, c)
           \/ \E p \in Replicas : ResetInFlight(p) \/ EnqueueInserts(p)
           \/ \E j \in Jobs : BackoffEnds(j)
  <2>1. UNCHANGED <<batch, sending, tries, mishaps, lockLosses>>
    BY <1>1 DEF DeleteQueuedJobs, ResetInFlight, EnqueueInserts, BackoffEnds, process
  <2> QED
    BY <1>1, <2>1, OtherWritesSpare, SparedKeepsAttempted
<1>2. CASE \/ \E e \in Events : EventCommits(e)
           \/ \E r \in Rules : CreateRule(r) \/ DeleteRule(r)
           \/ \E p \in Replicas, c \in Chats : DeleteRules(p, c)
           \/ \E p \in Replicas : \/ Start(p) \/ Scan(p) \/ EnqueueReads(p)
                                  \/ \E c \in Conns : TryLeader(p, c) \/ StandbyGetsLock(p, c)
           \/ LockConnCloses
           \/ UNCHANGED vars
  <2>1. UNCHANGED <<jobs, batch, sending, tries, mishaps>>
    BY <1>2 DEF EventCommits, CreateRule, DeleteRule, DeleteRules, Start, Scan, EnqueueReads,
                TryLeader, StandbyGetsLock, LockConnCloses, process, vars
  <2>2. lockLosses' = 0 => lockLosses = 0
    BY <1>2 DEF EventCommits, CreateRule, DeleteRule, DeleteRules, Start, Scan, EnqueueReads,
                TryLeader, StandbyGetsLock, LockConnCloses, process, vars, Types
  <2> QED
    BY <2>1, <2>2, SparedKeepsAttempted
<1>3. CASE \/ \E p \in Replicas : ResetFails(p)
           \/ \E p \in Replicas : TickFails(p) \/ Crash(p)
  <2>1. mishaps' = mishaps + 1 /\ UNCHANGED <<jobs, tries, lockLosses>>
    BY <1>3 DEF ResetFails, TickFails, Crash
  <2>2. ASSUME NEW p \in Replicas, ResetFails(p) PROVE UNCHANGED <<batch, sending>>
    BY <2>2 DEF ResetFails, process
  <2>3. ASSUME NEW p \in Replicas, TickFails(p) \/ Crash(p), NEW q \in Replicas
        PROVE  batch'[q] \subseteq batch[q] /\ sending'[q] \subseteq sending[q]
    BY <2>3 DEF TickFails, Crash, Forgets, Types, TypeOK
  <2>4. \A q \in Replicas : batch'[q] \subseteq batch[q] /\ sending'[q] \subseteq sending[q]
    BY <1>3, <2>2, <2>3
  <2> QED
    BY <2>1, <2>4, MishapKeepsAttempted
<1>4. CASE \E p \in Replicas : ClaimDue(p)
  BY <1>4, ClaimKeepsAttempted
<1>5. CASE \E p \in Replicas : Reply(p)
  BY <1>5, ReplyKeepsAttempted
<1>6. CASE \E p \in Replicas : Mark(p)
  BY <1>6, MarkKeepsAttempted
<1> QED
  BY <1>1, <1>2, <1>3, <1>4, <1>5, <1>6 DEF Next, Work

(* With one dispatcher a job is given up only after MaxAttempts calls of     *)
(* Telegram, of which each mishap may have cost one.                         *)
THEOREM DeadJobsWereTried == Spec => []DeadWasTried
<1>1. Init => Attempted
  BY DEF Init, Attempted
<1>2. Types /\ Attempted => DeadWasTried
  BY NumbersOfAttempts DEF Attempted, AttemptFits, DeadWasTried, Spent
<1>3. IInv => Types /\ OneDispatcher /\ Single
  BY DEF IInv
<1> QED
  BY <1>1, <1>2, <1>3, NextKeepsAttempted, Invariance, PTL DEF Spec

-----------------------------------------------------------------------------
(* Part 6: what a reset stops *)

(* A chat whose reset left it without rules, and that made none since, has     *)
(* none.                                                                     *)
Ruleless == \A r \in Rules : RuleChat[r] \in quiet => created[r] = NoTime

(* A replica is about to insert the job, or to send it, or to mark it.       *)
Holds(p, j) == j \in inserting[p] \/ \E b \in batch[p] \cup sending[p] : b.job = j

Open(j) == Unsent(j) \/ \E p \in Replicas : Holds(p, j)

(* What the chat may still be told of. *)
Outstanding(c) == {j \in Jobs : j[2] = c /\ Open(j)}

(* After a reset that ends with the chat having no rule nothing new is queued *)
(* for the chat, and only what was queued or in hand when it ended can still  *)
(* arrive (dispatch.go:128-225, commands/repository.go:164-183): what remains *)
(* of ResetStopsAlerts.                                                       *)
ResetOnlyDrains ==
  [][\A c \in quiet :
       /\ Outstanding(c)' \subseteq Outstanding(c)
       /\ \A j \in Jobs : j[2] = c /\ delivered'[j] # delivered[j] => j \in Outstanding(c)]_vars

LEMMA NextKeepsRuleless == Types /\ Ruleless /\ [Next]_vars => Ruleless'
<1> SUFFICES ASSUME Types, Ruleless, [Next]_vars PROVE Ruleless'
  OBVIOUS
<1> USE DEF Ruleless, Types, TypeOK
<1>1. ASSUME NEW r \in Rules, CreateRule(r) PROVE Ruleless'
  <2>1. \A x \in Rules : x # r => created'[x] = created[x]
    BY <1>1 DEF CreateRule
  <2>2. RuleChat[r] \notin quiet' /\ quiet' \subseteq quiet
    BY <1>1 DEF CreateRule
  <2> QED
    BY <2>1, <2>2
<1>2. ASSUME NEW r \in Rules, DeleteRule(r) PROVE Ruleless'
  BY <1>2 DEF DeleteRule
<1>3. ASSUME NEW p \in Replicas, NEW c \in Chats, DeleteRules(p, c) PROVE Ruleless'
  BY <1>3 DEF DeleteRules
<1>4. ASSUME NEW p \in Replicas, NEW c \in Chats, DeleteQueuedJobs(p, c) PROVE Ruleless'
  <2>1. created' = created /\ quiet' = IF Ruled(c) THEN quiet ELSE quiet \cup {c}
    BY <1>4 DEF DeleteQueuedJobs
  <2> QED
    BY <2>1 DEF Ruled
<1>5. CASE UNCHANGED <<created, quiet>>
  BY <1>5
<1>6. \/ UNCHANGED <<created, quiet>>
      \/ \E r \in Rules : CreateRule(r) \/ DeleteRule(r)
      \/ \E p \in Replicas, c \in Chats : DeleteRules(p, c) \/ DeleteQueuedJobs(p, c)
  BY DEF Next, Work, EventCommits, ResetFails, Start, ResetInFlight, TryLeader,
         StandbyGetsLock, Scan, EnqueueReads, EnqueueInserts, ClaimDue, Reply, Mark,
         TickFails, Crash, BackoffEnds, LockConnCloses, tables, vars
<1> QED
  BY <1>1, <1>2, <1>3, <1>4, <1>5, <1>6

(* The steps of a tick open no job of a chat without rules, whichever        *)
(* replicas make them.                                                       *)
LEMMA TickOpensNothing ==
  ASSUME Types, Ruleless, NEW p \in Replicas, NEW c \in quiet, NEW j \in Jobs, j[2] = c,
         \/ Scan(p) \/ EnqueueReads(p) \/ EnqueueInserts(p)
         \/ ClaimDue(p) \/ Reply(p) \/ Mark(p)
  PROVE  /\ Open(j)' => Open(j)
         /\ delivered'[j] # delivered[j] => Open(j)
<1> DEFINE Kept == \A q \in Replicas : Holds(q, j)' => Holds(q, j)
<1> USE DEF Types, TypeOK
<1>0. Kept /\ (Unsent(j)' => Open(j)) => (Open(j)' => Open(j))
  BY DEF Open
<1> HIDE DEF Kept
<1>1. CASE Scan(p)
  <2>1. UNCHANGED <<inserting, batch, sending, jobs, delivered>>
    BY <1>1 DEF Scan
  <2> QED
    BY <2>1 DEF Open, Holds, Unsent
<1>2. CASE EnqueueReads(p)
  <2>1. PICK e \in todo[p] : inserting' = [inserting EXCEPT ![p] = {e} \X Audience(e)]
    BY <1>2 DEF EnqueueReads
  <2>2. UNCHANGED <<batch, sending, jobs, delivered>>
    BY <1>2 DEF EnqueueReads
  <2>3. c \notin Audience(e)
    BY DEF Audience, Matches, Ruleless
  <2>4. j \notin {e} \X Audience(e)
    BY <2>3
  <2>5. Kept
    BY <2>1, <2>2, <2>4 DEF Holds, Kept
  <2> QED
    BY <1>0, <2>2, <2>5 DEF Open, Unsent
<1>3. CASE EnqueueInserts(p)
  <2>1. /\ jobs'[j] = IF j \in inserting[p] THEN Inserted(j) ELSE jobs[j]
        /\ inserting' = [inserting EXCEPT ![p] = {}]
        /\ UNCHANGED <<batch, sending, delivered>>
    BY <1>3 DEF EnqueueInserts
  <2>2. Kept
    BY <2>1 DEF Holds, Kept
  <2>3. Unsent(j)' => Open(j)
    BY <2>1 DEF Open, Holds, Unsent
  <2> QED
    BY <1>0, <2>1, <2>2, <2>3
<1>4. CASE ClaimDue(p)
  <2>1. PICK picked \in SUBSET Due :
          /\ jobs' = [x \in Jobs |-> IF x \in picked THEN Claimed(jobs[x]) ELSE jobs[x]]
          /\ batch' = [batch EXCEPT ![p] =
               {[job |-> x, attempts |-> jobs'[x].attempts, ok |-> FALSE] : x \in picked}]
    BY <1>4 DEF ClaimDue
  <2>2. UNCHANGED <<inserting, sending, delivered>>
    BY <1>4 DEF ClaimDue
  <2>3. j \in picked => Unsent(j)
    BY <2>1 DEF Due
  <2>4. ASSUME NEW q \in Replicas, Holds(q, j)' PROVE Holds(q, j) \/ j \in picked
    <3>1. inserting'[q] = inserting[q] /\ sending'[q] = sending[q]
      BY <2>2
    <3>2. CASE \E b \in batch'[q] : b.job = j
      <4>1. q # p => batch'[q] = batch[q]
        BY <2>1
      <4>2. batch'[p] = {[job |-> x, attempts |-> jobs'[x].attempts, ok |-> FALSE] : x \in picked}
        BY <2>1
      <4> QED
        BY <3>2, <4>1, <4>2 DEF Holds
    <3> QED
      BY <2>4, <3>1, <3>2 DEF Holds
  <2>5. Unsent(j)' => Open(j)
    BY <2>1, <2>3 DEF Open, Unsent
  <2> QED
    BY <2>2, <2>3, <2>4, <2>5 DEF Open
<1>5. CASE Reply(p)
  <2>1. PICK b \in batch[p], got \in BOOLEAN, ok \in BOOLEAN :
          /\ batch' = [batch EXCEPT ![p] = @ \ {b}]
          /\ sending' = [sending EXCEPT ![p] = {[b EXCEPT !.ok = ok]}]
          /\ delivered' = [delivered EXCEPT ![b.job] = IF got THEN @ + 1 ELSE @]
    BY <1>5 DEF Reply
  <2>2. UNCHANGED <<inserting, jobs>>
    BY <1>5 DEF Reply
  <2>3. b \in Claim /\ [b EXCEPT !.ok = ok].job = b.job
    BY ClaimTypes
  <2>4. ASSUME NEW q \in Replicas, Holds(q, j)' PROVE Holds(q, j)
    BY <2>1, <2>2, <2>3, <2>4 DEF Holds
  <2>5. delivered'[j] # delivered[j] => j = b.job
    BY <2>1
  <2>6. j = b.job => Open(j)
    BY <2>1 DEF Open, Holds
  <2> QED
    BY <1>0, <2>2, <2>4, <2>5, <2>6 DEF Kept, Open, Unsent
<1>6. CASE Mark(p)
  <2>1. PICK b \in sending[p] :
          jobs' = [jobs EXCEPT ![b.job] = IF @ = NoJob THEN NoJob ELSE Marked(@, b)]
    BY <1>6 DEF Mark
  <2>2. sending' = [sending EXCEPT ![p] = {}] /\ UNCHANGED <<inserting, batch, delivered>>
    BY <1>6 DEF Mark
  <2>3. Kept
    BY <2>2 DEF Holds, Kept
  <2>4. j = b.job => Open(j)
    BY <2>1 DEF Open, Holds
  <2>5. j # b.job => (Unsent(j)' => Unsent(j))
    BY <2>1 DEF Unsent
  <2> QED
    BY <1>0, <2>2, <2>3, <2>4, <2>5 DEF Open
<1> QED
  BY <1>1, <1>2, <1>3, <1>4, <1>5, <1>6

(* Nor does any other step. *)
LEMMA NothingOpens ==
  ASSUME Types, Ruleless, [Next]_vars, NEW c \in quiet, NEW j \in Jobs, j[2] = c
  PROVE  /\ Open(j)' => Open(j)
         /\ delivered'[j] # delivered[j] => Open(j)
<1> USE DEF Types, TypeOK
<1>1. CASE UNCHANGED <<inserting, batch, sending, jobs, delivered>>
  BY <1>1 DEF Open, Holds, Unsent
<1>2. ASSUME NEW p \in Replicas,
             Scan(p) \/ EnqueueReads(p) \/ EnqueueInserts(p) \/ ClaimDue(p) \/ Reply(p) \/ Mark(p)
      PROVE  (Open(j)' => Open(j)) /\ (delivered'[j] # delivered[j] => Open(j))
  BY <1>2, TickOpensNothing
<1>3. CASE \/ \E p \in Replicas, k \in Chats : DeleteQueuedJobs(p, k)
           \/ \E p \in Replicas : ResetInFlight(p)
           \/ \E k \in Jobs : BackoffEnds(k)
  <2>1. UNCHANGED <<inserting, batch, sending, delivered>>
    BY <1>3 DEF DeleteQueuedJobs, ResetInFlight, BackoffEnds, process
  <2>2. Unsent(j)' => Unsent(j)
    <3>1. ASSUME NEW p \in Replicas, NEW k \in Chats, DeleteQueuedJobs(p, k) PROVE Unsent(j)' => Unsent(j)
      BY <3>1 DEF DeleteQueuedJobs, Unsent
    <3>2. ASSUME NEW p \in Replicas, ResetInFlight(p) PROVE Unsent(j)' => Unsent(j)
      BY <3>2 DEF ResetInFlight, InFlight, Unsent
    <3>3. ASSUME NEW k \in Jobs, BackoffEnds(k) PROVE Unsent(j)' => Unsent(j)
      BY <3>3 DEF BackoffEnds, Unsent, Row
    <3> QED
      BY <1>3, <3>1, <3>2, <3>3
  <2> QED
    BY <2>1, <2>2 DEF Open, Holds
<1>4. ASSUME NEW p \in Replicas, TickFails(p) \/ Crash(p)
      PROVE  (Open(j)' => Open(j)) /\ (delivered'[j] # delivered[j] => Open(j))
  <2>1. UNCHANGED <<jobs, delivered>> /\ Forgets(p)
    BY <1>4 DEF TickFails, Crash
  <2>2. \A q \in Replicas : Holds(q, j)' => Holds(q, j)
    BY <2>1 DEF Forgets, Holds
  <2> QED
    BY <2>1, <2>2 DEF Open, Unsent
<1>5. \/ UNCHANGED <<inserting, batch, sending, jobs, delivered>>
      \/ \E p \in Replicas : \/ Scan(p) \/ EnqueueReads(p) \/ EnqueueInserts(p) \/ ClaimDue(p)
                             \/ Reply(p) \/ Mark(p) \/ TickFails(p) \/ Crash(p)
                             \/ ResetInFlight(p)
      \/ \E p \in Replicas, k \in Chats : DeleteQueuedJobs(p, k)
      \/ \E k \in Jobs : BackoffEnds(k)
  BY DEF Next, Work, EventCommits, CreateRule, DeleteRule, DeleteRules, ResetFails, Start,
         TryLeader, StandbyGetsLock, LockConnCloses, process, vars
<1> QED
  BY <1>1, <1>2, <1>3, <1>4, <1>5

(* A reset that ends with the chat having no rule stops everything but what   *)
(* was queued or in hand by then, and that only grows less, until the chat    *)
(* makes a rule: with any number of replicas, which may each be serving the   *)
(* chat, and any crashes and lost locks.  Of a reset that ends with the chat  *)
(* having a rule again, made between the two statements, it says nothing.     *)
THEOREM ResetDrains == Spec => ResetOnlyDrains
<1>1. Init => Ruleless
  BY DEF Init, Ruleless
<1>2. Types /\ Ruleless /\ [Next]_vars =>
        [\A c \in quiet :
           /\ Outstanding(c)' \subseteq Outstanding(c)
           /\ \A j \in Jobs : j[2] = c /\ delivered'[j] # delivered[j]
                                => j \in Outstanding(c)]_vars
  <2> SUFFICES ASSUME Types, Ruleless, [Next]_vars, NEW c \in quiet
      PROVE  /\ Outstanding(c)' \subseteq Outstanding(c)
             /\ \A j \in Jobs : j[2] = c /\ delivered'[j] # delivered[j] => j \in Outstanding(c)
    OBVIOUS
  <2>1. \A j \in Jobs : j[2] = c => /\ Open(j)' => Open(j)
                                    /\ delivered'[j] # delivered[j] => Open(j)
    BY NothingOpens
  <2> QED
    BY <2>1 DEF Outstanding
<1> QED
  BY <1>1, <1>2, NextKeepsRuleless, InitTypes, NextKeepsTypes, PTL DEF Spec, ResetOnlyDrains

===============================================================================
