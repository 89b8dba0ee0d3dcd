--------------------------- MODULE EventStreamProofs ---------------------------
(***************************************************************************)
(* Theorems about EventStream and about the web UI that follows it, for    *)
(* every number of events and sessions, every page and buffer size, and    *)
(* every way transactions divide the events.                               *)
(*                                                                         *)
(* EventStream: a session's steps touch its own record only, so the        *)
(* invariant says of each session apart that it is Sound.                  *)
(*                                                                         *)
(* WebFeed: what the page is due and has not shown follows its cursor, and *)
(* a session that is of use brings it before anything that follows it.     *)
(***************************************************************************)
EXTENDS WebFeed, FiniteSetTheorems, SequenceTheorems, TLAPS

(* The types of a session and of its history. *)
Typed(x, m, o) ==
  /\ x \in Session /\ m \in SUBSET Events /\ o \in Seq(Events)
  /\ x.phase = "free" => x = Free
  /\ Len(x.out) <= Buffer

(* Before it subscribes, a session has nothing to do with the dispatcher;    *)
(* afterwards its channel holds what it is owed.                             *)
Streams(x, o) ==
  /\ x.phase \in {"query", "send", "join"} => x.out = <<>> /\ x.evicted = FALSE
  /\ x.phase = "live" =>
       IF x.evicted
       THEN Len(x.out) < Len(o) /\ \A i \in 1..Len(x.out) : x.out[i] = o[i]
       ELSE x.out = o

(* What the session has to backfill and has not sent is still before it: all *)
(* of it follows the cursor while it is about to read, and is in the page or *)
(* after a full page while it sends.                                         *)
Backfills(x, m, c) ==
  /\ x.phase = "query" => \A e \in m : e \in c /\ e \in x.filter /\ e > x.cursor
  /\ x.phase = "send" =>
       /\ x.page # {}
       /\ \A r \in x.page : r > x.cursor
       /\ \A e \in m : /\ e \in c /\ e \in x.filter
                       /\ e \in x.page \/ (x.full /\ \A r \in x.page : r < e)
  /\ x.phase \in {"join", "live"} => m = {}

Sound(x, m, o, c) == Typed(x, m, o) /\ Streams(x, o) /\ Backfills(x, m, c)

(* The state that the sessions share. *)
Shared ==
  /\ committed \subseteq Events /\ aged \in Events \cup {Null}
  /\ listening \in BOOLEAN /\ notified \in Seq(Events)
  /\ mishaps \in 0..MaxMishaps /\ outages \in 0..MaxOutages /\ agings \in 0..MaxAgings

Functional ==
  /\ session = [s \in Sessions |-> session[s]]
  /\ missing = [s \in Sessions |-> missing[s]]
  /\ owed = [s \in Sessions |-> owed[s]]

IInv ==
  /\ Shared /\ Functional
  /\ \A s \in Sessions : Sound(session[s], missing[s], owed[s], committed)

-----------------------------------------------------------------------------
(* Part 1: finite sets of events *)

LEMMA EventsAreFinite ==
  ASSUME NEW S \in SUBSET Events
  PROVE  IsFiniteSet(S)
<1>1. Last \in Int /\ 1 \in Int
  BY TransactionsAreOrdered
<1>2. IsFiniteSet(1..Last)
  BY <1>1, FS_Interval
<1> QED
  BY <1>2, FS_Subset DEF Events

(* A page that is not full holds everything that follows the cursor. *)
LEMMA ShortPageIsAll ==
  ASSUME NEW rest \in SUBSET Events, NEW rows \in SUBSET rest,
         Cardinality(rows) = AtMost(Cardinality(rest), Page),
         Cardinality(rows) # Page \/ rows = {}
  PROVE  rows = rest
<1>1. IsFiniteSet(rest) /\ IsFiniteSet(rows)
  BY EventsAreFinite
<1>2. Cardinality(rest) \in Nat /\ Cardinality(rows) \in Nat
  BY <1>1, FS_CardinalityType
<1>3. rows = {} => Cardinality(rows) = 0
  BY FS_EmptySet
<1>4. Cardinality(rows) = Cardinality(rest)
  BY <1>2, <1>3, LimitsArePositive DEF AtMost
<1> QED
  BY <1>1, <1>4, FS_Subset

-----------------------------------------------------------------------------
(* Part 2: what the steps do to one session *)

LEMMA NullIsNoEvent == Null \notin Events /\ Events \subseteq Nat /\ Null \in Nat
  BY TransactionsAreOrdered DEF Null, Events

(* A record that differs from a sound one where the session has no more to   *)
(* do with history. *)
LEMMA FreeIsSound ==
  ASSUME NEW m \in SUBSET Events, NEW o \in Seq(Events), NEW c
  PROVE  Sound(Free, m, o, c)
<1>1. Free \in Session
  BY DEF Free, Session
<1>2. Len(Free.out) <= Buffer
  BY LimitsArePositive DEF Free
<1> QED
  BY <1>1, <1>2 DEF Sound, Typed, Streams, Backfills, Free

(* More events do not disturb a session. *)
LEMMA MoreIsSound ==
  ASSUME NEW x, NEW m, NEW o, NEW c, NEW d, c \subseteq d, Sound(x, m, o, c)
  PROVE  Sound(x, m, o, d)
  BY DEF Sound, Backfills

(* Only the connection changes. *)
LEMMA RewiredIsSound ==
  ASSUME NEW x, NEW m, NEW o, NEW c, Sound(x, m, o, c), x # Free,
         NEW wire \in Seq(Events), NEW up \in BOOLEAN,
         NEW y, y = [x EXCEPT !.wire = wire, !.up = up]
  PROVE  Sound(y, m, o, c)
<1>1. x \in Session
  BY DEF Sound, Typed
<1>2. /\ y \in Session
      /\ y.phase = x.phase /\ y.filter = x.filter /\ y.cursor = x.cursor /\ y.page = x.page
      /\ y.full = x.full /\ y.out = x.out /\ y.evicted = x.evicted
  BY <1>1 DEF Session
<1> QED
  BY <1>2 DEF Sound, Typed, Streams, Backfills

(* An event is published. *)
LEMMA OfferedIsSound ==
  ASSUME NEW x, NEW m, NEW o, NEW c, Sound(x, m, o, c), NEW e \in Events,
         NEW p, p = IF x.phase = "live" /\ e \in x.filter THEN Append(o, e) ELSE o
  PROVE  Sound(Offered(x, e), m, p, c)
<1> DEFINE y == Offered(x, e)
<1>1. x \in Session /\ o \in Seq(Events) /\ x.out \in Seq(Events) /\ x.evicted \in BOOLEAN
  BY DEF Sound, Typed, Session
<1>2. p \in Seq(Events) /\ Len(o) \in Nat /\ Len(x.out) \in Nat
  BY <1>1
<1>3. CASE ~(x.phase = "live" /\ e \in x.filter)
  BY <1>3 DEF Offered, Registered
<1>4. CASE x.phase = "live" /\ e \in x.filter /\ x.evicted
  <2>1. y = x /\ p = Append(o, e)
    BY <1>4 DEF Offered, Registered
  <2>2. Len(p) = Len(o) + 1 /\ \A i \in 1..Len(o) : p[i] = o[i]
    BY <2>1, <1>1
  <2>3. Streams(x, p)
    BY <2>2, <1>2, <1>4 DEF Sound, Streams
  <2> QED
    BY <2>1, <2>3, <1>2 DEF Sound, Typed
<1>5. CASE x.phase = "live" /\ e \in x.filter /\ x.evicted = FALSE /\ Len(x.out) < Buffer
  <2> DEFINE q == Append(x.out, e)
  <2>0. q \in Seq(Events)
    BY <1>1
  <2>1. y = [x EXCEPT !.out = q] /\ p = Append(o, e)
    BY <1>5 DEF Offered, Registered
  <2> HIDE DEF q
  <2>2. /\ y \in Session /\ y.phase = x.phase /\ y.filter = x.filter /\ y.page = x.page
        /\ y.cursor = x.cursor /\ y.full = x.full /\ y.evicted = x.evicted
        /\ y.out = q
    BY <2>0, <2>1, <1>1 DEF Session
  <2> USE DEF q
  <2>3. x.out = o
    BY <1>5 DEF Sound, Streams
  <2>4. Len(y.out) <= Buffer
    BY <2>2, <1>1, <1>2, <1>5, LimitsArePositive
  <2> HIDE DEF y
  <2>5. Sound(y, m, p, c)
    BY <2>1, <2>2, <2>3, <2>4, <1>2, <1>5 DEF Sound, Typed, Streams, Backfills
  <2> QED
    BY <2>5 DEF y
<1>6. CASE x.phase = "live" /\ e \in x.filter /\ x.evicted = FALSE /\ ~(Len(x.out) < Buffer)
  <2>1. y = [x EXCEPT !.evicted = TRUE] /\ p = Append(o, e)
    BY <1>6 DEF Offered, Registered
  <2>2. /\ y \in Session /\ y.phase = x.phase /\ y.filter = x.filter /\ y.page = x.page
        /\ y.cursor = x.cursor /\ y.full = x.full /\ y.evicted = TRUE /\ y.out = x.out
    BY <2>1, <1>1 DEF Session
  <2>3. x.out = o
    BY <1>6 DEF Sound, Streams
  <2>4. Len(p) = Len(o) + 1 /\ \A i \in 1..Len(o) : p[i] = o[i]
    BY <2>1, <1>1
  <2> HIDE DEF y
  <2>5. Sound(y, m, p, c)
    BY <2>2, <2>3, <2>4, <1>2, <1>6 DEF Sound, Typed, Streams, Backfills
  <2> QED
    BY <2>5 DEF y
<1> QED
  BY <1>1, <1>3, <1>4, <1>5, <1>6

(* Dispatcher.Subscribe. *)
LEMMA SubscribedIsSound ==
  ASSUME NEW x, NEW m, NEW o, NEW c, Sound(x, m, o, c), x.phase = "join",
         NEW y, y = [x EXCEPT !.phase = "live"]
  PROVE  Sound(y, m, <<>>, c)
<1>1. x \in Session
  BY DEF Sound, Typed
<1>2. /\ y \in Session /\ y.phase = "live" /\ y.out = x.out /\ y.evicted = x.evicted
  BY <1>1 DEF Session
<1>3. y.out = <<>> /\ y.evicted = FALSE /\ m = {}
  BY <1>2 DEF Sound, Streams, Backfills
<1>4. Len(y.out) <= Buffer
  BY <1>2 DEF Sound, Typed
<1> QED
  BY <1>2, <1>3, <1>4 DEF Sound, Typed, Streams, Backfills

(* A session that has come to its end, with whatever it holds. *)
LEMMA OverIsSound ==
  ASSUME NEW x, NEW m, NEW o, NEW c, Sound(x, m, o, c), NEW page \in SUBSET Events,
         NEW y, y = [x EXCEPT !.phase = "over", !.page = page]
  PROVE  Sound(y, m, o, c)
<1>1. x \in Session
  BY DEF Sound, Typed
<1>2. y \in Session /\ y.phase = "over" /\ y.out = x.out
  BY <1>1 DEF Session
<1>3. Len(y.out) <= Buffer
  BY <1>2 DEF Sound, Typed
<1> QED
  BY <1>2, <1>3 DEF Sound, Typed, Streams, Backfills

(* Backfill. *)
LEMMA BackfilledIsSound ==
  ASSUME NEW x, NEW m, NEW o, Sound(x, m, o, committed), x.phase = "query",
         committed \subseteq Events,
         NEW rows \in SUBSET After(x.cursor, x),
         Cardinality(rows) = AtMost(Cardinality(After(x.cursor, x)), Page),
         \A r \in rows, z \in After(x.cursor, x) \ rows : r < z,
         NEW y, y = [x EXCEPT !.page = rows, !.full = IsFull(rows),
                              !.phase = IF rows = {} THEN "join" ELSE "send"]
  PROVE  Sound(y, m, o, committed)
<1> DEFINE rest == After(x.cursor, x)
<1>1. x \in Session /\ rest \in SUBSET Events
  BY DEF Sound, Typed, After
<1>2. m \subseteq rest
  BY DEF Sound, Typed, Backfills, After
<1>3. Cardinality(rows) # Page \/ rows = {} => rows = rest
  BY <1>1, ShortPageIsAll
<1>4. IsFull(rows) \in BOOLEAN
  BY DEF IsFull
<1>5. /\ y \in Session
      /\ y.phase = (IF rows = {} THEN "join" ELSE "send")
      /\ y.page = rows /\ y.full = IsFull(rows)
      /\ y.filter = x.filter /\ y.cursor = x.cursor
      /\ y.out = x.out /\ y.evicted = x.evicted
  BY <1>1, <1>4 DEF Session
<1>6. Typed(y, m, o)
  BY <1>5 DEF Sound, Typed
<1>7. Streams(y, o)
  BY <1>5 DEF Sound, Streams
<1>8. Backfills(y, m, committed)
  <2>1. \A r \in rows : r > x.cursor
    BY DEF After
  <2>2. \A e \in m : /\ e \in committed /\ e \in x.filter
                     /\ e \in rows \/ (IsFull(rows) /\ \A r \in rows : r < e)
    BY <1>2, <1>3 DEF IsFull, After
  <2>3. rows = {} => m = {}
    BY <1>2, <1>3
  <2> QED
    BY <1>5, <2>1, <2>2, <2>3 DEF Backfills
<1> QED
  BY <1>6, <1>7, <1>8 DEF Sound

(* SendBackfilled: the first of the page is sent. *)
LEMMA SentIsSound ==
  ASSUME NEW x, NEW m, NEW o, NEW c, Sound(x, m, o, c), x.phase = "send",
         NEW e \in x.page, \A r \in x.page : e <= r, NEW wire \in Seq(Events),
         NEW y, y = [x EXCEPT !.page = @ \ {e}, !.cursor = e, !.wire = wire,
                       !.phase = IF x.page = {e} THEN Onward(x.full) ELSE "send"]
  PROVE  Sound(y, m \ {e}, o, c)
<1>1. x \in Session /\ m \in SUBSET Events /\ x.page \in SUBSET Events
  BY DEF Sound, Typed, Session
<1>2. Onward(x.full) = (IF x.full THEN "query" ELSE "join") /\ x.full \in BOOLEAN
  BY <1>1 DEF Onward, Session
<1>3. /\ y \in Session
      /\ y.phase = (IF x.page = {e} THEN Onward(x.full) ELSE "send")
      /\ y.page = x.page \ {e} /\ y.cursor = e /\ y.full = x.full
      /\ y.filter = x.filter /\ y.out = x.out /\ y.evicted = x.evicted
  BY <1>1, <1>2 DEF Session
<1>4. Typed(y, m \ {e}, o)
  BY <1>1, <1>2, <1>3 DEF Sound, Typed
<1>5. Streams(y, o)
  BY <1>2, <1>3 DEF Sound, Streams
<1>6. Backfills(y, m \ {e}, c)
  <2>1. \A r \in x.page \ {e} : r > e
    BY <1>1, NullIsNoEvent
  <2>2. \A z \in m \ {e} : /\ z \in c /\ z \in x.filter
                           /\ z \in x.page \ {e} \/ (x.full /\ \A r \in x.page : r < z)
    BY DEF Sound, Backfills
  <2>3. CASE x.page # {e}
    BY <1>3, <2>1, <2>2, <2>3 DEF Backfills
  <2>4. CASE x.page = {e} /\ x.full
    <3>1. \A z \in m \ {e} : z > e
      BY <2>2, <2>4, <1>1, NullIsNoEvent
    <3> QED
      BY <1>2, <1>3, <2>2, <2>4, <3>1 DEF Backfills
  <2>5. CASE x.page = {e} /\ ~x.full
    <3>1. m \ {e} = {}
      BY <2>2, <2>5
    <3> QED
      BY <1>2, <1>3, <2>5, <3>1 DEF Backfills
  <2> QED
    BY <2>3, <2>4, <2>5
<1> QED
  BY <1>4, <1>5, <1>6 DEF Sound

(* Write: the first of the channel is written. *)
LEMMA WrittenIsSound ==
  ASSUME NEW x, NEW m, NEW o, NEW c, Sound(x, m, o, c), x.phase = "live", x.out # <<>>,
         NEW wire \in Seq(Events),
         NEW y, y = [x EXCEPT !.wire = wire, !.out = Tail(@)]
  PROVE  Sound(y, m, Tail(o), c)
<1>1. x \in Session /\ o \in Seq(Events) /\ x.out \in Seq(Events) /\ x.evicted \in BOOLEAN
  BY DEF Sound, Typed, Session
<1> DEFINE q == Tail(x.out)
<1>2. q \in Seq(Events) /\ Len(q) = Len(x.out) - 1 /\ Len(x.out) \in Nat /\ Len(o) \in Nat
  BY <1>1
<1>3. \A i \in 1..Len(q) : q[i] = x.out[i + 1]
  BY <1>1
<1>4. y = [x EXCEPT !.wire = wire, !.out = q]
  OBVIOUS
<1> HIDE DEF q
<1>5. /\ y \in Session /\ y.phase = "live" /\ y.filter = x.filter /\ y.page = x.page
      /\ y.cursor = x.cursor /\ y.full = x.full /\ y.evicted = x.evicted /\ y.out = q
  BY <1>1, <1>2, <1>4 DEF Session
<1>6. Len(q) <= Buffer
  BY <1>2, LimitsArePositive DEF Sound, Typed
<1>7. CASE ~x.evicted
  <2>1. x.out = o
    BY <1>7 DEF Sound, Streams
  <2>2. q = Tail(o) /\ Tail(o) \in Seq(Events)
    BY <2>1, <1>2 DEF q
  <2> QED
    BY <1>5, <1>6, <1>7, <2>2 DEF Sound, Typed, Streams, Backfills
<1>8. CASE x.evicted
  <2>1. Len(x.out) < Len(o) /\ \A i \in 1..Len(x.out) : x.out[i] = o[i]
    BY <1>8 DEF Sound, Streams
  <2>2. o # <<>>
    BY <2>1, <1>1, <1>2
  <2>3. Tail(o) \in Seq(Events) /\ Len(Tail(o)) = Len(o) - 1
    BY <2>2, <1>1
  <2>4. \A i \in 1..Len(Tail(o)) : Tail(o)[i] = o[i + 1]
    BY <2>2, <1>1
  <2>5. \A i \in 1..Len(q) : q[i] = Tail(o)[i]
    BY <1>2, <1>3, <2>1, <2>3, <2>4
  <2> QED
    BY <1>2, <1>5, <1>6, <1>8, <2>1, <2>3, <2>5 DEF Sound, Typed, Streams, Backfills
<1> QED
  BY <1>1, <1>7, <1>8

-----------------------------------------------------------------------------
(* Part 3: steps *)

LEMMA InitIInv == Init => IInv
<1> SUFFICES ASSUME Init PROVE IInv
  OBVIOUS
<1>1. Shared
  <2>1. committed = {} /\ aged = Null /\ listening = FALSE /\ notified = <<>>
    BY DEF Init
  <2>2. mishaps = 0 /\ outages = 0 /\ agings = 0
    BY DEF Init
  <2>3. mishaps \in 0..MaxMishaps /\ outages \in 0..MaxOutages /\ agings \in 0..MaxAgings
    BY <2>2, LimitsArePositive
  <2>4. committed \subseteq Events /\ aged \in Events \cup {Null} /\ listening \in BOOLEAN
    BY <2>1
  <2>5. <<>> \in Seq(Events)
    OBVIOUS
  <2>6. notified \in Seq(Events)
    BY <2>1, <2>5
  <2> QED
    BY <2>3, <2>4, <2>6 DEF Shared
<1>2. Functional
  BY DEF Init, Functional
<1>3. \A s \in Sessions : session[s] = Free /\ missing[s] = {} /\ owed[s] = <<>>
  BY DEF Init
<1>4. {} \in SUBSET Events /\ <<>> \in Seq(Events)
  OBVIOUS
<1>5. Sound(Free, {}, <<>>, committed)
  BY <1>4, FreeIsSound
<1>6. \A s \in Sessions : Sound(session[s], missing[s], owed[s], committed)
  BY <1>3, <1>5
<1> QED
  BY <1>1, <1>2, <1>6 DEF IInv

(* What the invariant says of one session. *)
LEMMA SessionIsSound ==
  ASSUME IInv, NEW s \in Sessions
  PROVE  /\ Sound(session[s], missing[s], owed[s], committed)
         /\ session[s] \in Session /\ missing[s] \in SUBSET Events /\ owed[s] \in Seq(Events)
         /\ session[s].wire \in Seq(Events) /\ session[s].page \in SUBSET Events
         /\ session[s].filter \in SUBSET Events
  BY DEF IInv, Sound, Typed, Session

(* A step of one session. *)
LEMMA OneSession ==
  ASSUME IInv, Shared', UNCHANGED committed, NEW s \in Sessions,
         NEW y, NEW m, NEW o, Sound(y, m, o, committed),
         session' = [session EXCEPT ![s] = y],
         missing' = [missing EXCEPT ![s] = m],
         owed' = [owed EXCEPT ![s] = o]
  PROVE  IInv'
<1>1. Functional'
  BY DEF IInv, Functional
<1>2. \A t \in Sessions :
        /\ session'[t] = IF t = s THEN y ELSE session[t]
        /\ missing'[t] = IF t = s THEN m ELSE missing[t]
        /\ owed'[t] = IF t = s THEN o ELSE owed[t]
  BY DEF IInv, Functional
<1>3. \A t \in Sessions : Sound(session'[t], missing'[t], owed'[t], committed')
  BY <1>2 DEF IInv
<1> QED
  BY <1>1, <1>3 DEF IInv

(* The same when history stays. *)
LEMMA OneSessionOnly ==
  ASSUME IInv, Shared', UNCHANGED <<committed, history>>, NEW s \in Sessions,
         NEW y, Sound(y, missing[s], owed[s], committed),
         session' = [session EXCEPT ![s] = y]
  PROVE  IInv'
<1>1. /\ missing = [missing EXCEPT ![s] = missing[s]]
      /\ owed = [owed EXCEPT ![s] = owed[s]]
  BY DEF IInv, Functional
<1>2. missing' = missing /\ owed' = owed
  BY DEF history
<1>3. UNCHANGED committed
  OBVIOUS
<1> QED
  BY <1>1, <1>2, <1>3, OneSession

LEMMA CommitKeepsIInv ==
  ASSUME IInv, NEW t \in Transactions, Commit(t)
  PROVE  IInv'
<1>1. t \in Seq(Events) /\ Range(t) \subseteq Events
  BY TransactionsAreOrdered DEF Range
<1>2. Shared'
  BY <1>1 DEF IInv, Shared, Commit
<1>3. committed \subseteq committed' /\ UNCHANGED <<session, missing, owed>>
  BY DEF Commit, history
<1>4. \A s \in Sessions : Sound(session[s], missing[s], owed[s], committed')
  BY <1>3, MoreIsSound DEF IInv
<1> QED
  BY <1>2, <1>3, <1>4 DEF IInv, Functional

LEMMA SharedStepKeepsIInv ==
  ASSUME IInv, Age \/ ListenerStarts \/ ListenerStops
  PROVE  IInv'
<1>1. UNCHANGED <<committed, session, missing, owed>>
  BY DEF Age, ListenerStarts, ListenerStops, history, db
<1>2. CASE Age
  BY <1>2, LimitsArePositive DEF Age, IInv, Shared, Functional, bus, history
<1>3. CASE ListenerStarts
  BY <1>3 DEF ListenerStarts, IInv, Shared, Functional, db, history
<1>4. CASE ListenerStops
  <2>1. PICK n \in 0..Len(notified) : notified' = SubSeq(notified, 1, n)
    BY <1>4 DEF ListenerStops
  <2>2. notified' \in Seq(Events)
    BY <2>1 DEF IInv, Shared
  <2>3. outages' \in 0..MaxOutages
    BY <1>4, LimitsArePositive DEF ListenerStops, IInv, Shared
  <2> QED
    BY <1>4, <2>2, <2>3 DEF ListenerStops, IInv, Shared, Functional, db, history
<1> QED
  BY <1>2, <1>3, <1>4

LEMMA PublishKeepsIInv ==
  ASSUME IInv, Publish
  PROVE  IInv'
<1> DEFINE e == Head(notified)
           p(s) == IF session[s].phase = "live" /\ e \in session[s].filter
                   THEN Append(owed[s], e) ELSE owed[s]
<1>1. notified \in Seq(Events) /\ notified # <<>>
  BY DEF IInv, Shared, Publish
<1>2. e \in Events /\ Tail(notified) \in Seq(Events)
  BY <1>1
<1>3. Shared'
  BY <1>2 DEF IInv, Shared, Publish, db
<1>4. /\ session' = [s \in Sessions |-> Offered(session[s], e)]
      /\ owed' = [s \in Sessions |-> p(s)]
      /\ UNCHANGED <<committed, missing>>
  BY DEF Publish, db
<1>5. \A s \in Sessions : Sound(Offered(session[s], e), missing[s], p(s), committed)
  <2> SUFFICES ASSUME NEW s \in Sessions
               PROVE  Sound(Offered(session[s], e), missing[s], p(s), committed)
    OBVIOUS
  <2>1. Sound(session[s], missing[s], owed[s], committed)
    BY DEF IInv
  <2> HIDE DEF e
  <2> QED
    BY <1>2, <2>1, OfferedIsSound
<1> HIDE DEF e, p
<1>6. \A s \in Sessions : Sound(session'[s], missing'[s], owed'[s], committed')
  BY <1>4, <1>5
<1>7. Functional'
  BY <1>4 DEF IInv, Functional
<1> QED
  BY <1>3, <1>6, <1>7 DEF IInv

LEMMA AcceptedIsSound ==
  ASSUME committed \subseteq Events, NEW f \in SUBSET Events,
         NEW since \in Events \cup {Null}, NEW phase \in {"over", "join", "query"},
         NEW x, x = Asked(f, since, phase),
         NEW m, m = IF x.phase = "query" THEN After(since, x) ELSE {}
  PROVE  Sound(x, m, <<>>, committed)
<1>1. /\ x.phase = phase /\ x.filter = f /\ x.cursor = since
      /\ x.out = <<>> /\ x.evicted = FALSE
  BY DEF Asked
<1>2. x \in Session
  BY DEF Asked, Session
<1>3. m \in SUBSET Events
  BY DEF After
<1>4. Len(x.out) <= Buffer
  BY <1>1, LimitsArePositive
<1>5. phase = "query" => m = {e \in committed \cap f : e > since}
  BY <1>1 DEF After
<1>6. phase # "query" => m = {}
  BY <1>1
<1> HIDE DEF After
<1>7. Typed(x, m, <<>>)
  BY <1>1, <1>2, <1>3, <1>4 DEF Typed
<1>8. Streams(x, <<>>)
  BY <1>1 DEF Streams
<1>9. Backfills(x, m, committed)
  BY <1>1, <1>5, <1>6 DEF Backfills
<1> QED
  BY <1>7, <1>8, <1>9 DEF Sound

LEMMA AcceptKeepsIInv ==
  ASSUME IInv, NEW s \in Sessions, NEW f \in Filters, NEW since \in committed \cup {Null},
         Accept(s, f, since)
  PROVE  IInv'
<1> DEFINE x == Asked(f, since, FirstPhase(since))
           m == IF x.phase = "query" THEN After(since, x) ELSE {}
<1>1. f \in SUBSET Events /\ since \in Events \cup {Null} /\ committed \subseteq Events
  BY FiltersAreSets DEF IInv, Shared
<1>2. FirstPhase(since) \in {"over", "join", "query"}
  BY DEF FirstPhase
<1>3. Sound(x, m, <<>>, committed)
  BY <1>1, <1>2, AcceptedIsSound
<1>4. Shared' /\ UNCHANGED committed
  BY DEF IInv, Shared, Accept, db, bus
<1>5. /\ session' = [session EXCEPT ![s] = x] /\ missing' = [missing EXCEPT ![s] = m]
      /\ owed' = [owed EXCEPT ![s] = <<>>]
  BY DEF Accept
<1> HIDE DEF x, m
<1> QED
  BY <1>3, <1>4, <1>5, OneSession

(* A session's record after one of its steps, and that it is sound. *)

LEMMA SubscribeKeepsIInv ==
  ASSUME IInv, NEW s \in Sessions, Subscribe(s)
  PROVE  IInv'
<1> DEFINE y == [session[s] EXCEPT !.phase = "live"]
<1>1. Sound(session[s], missing[s], owed[s], committed) /\ session[s].phase = "join"
  BY SessionIsSound DEF Subscribe
<1>2. Sound(y, missing[s], <<>>, committed)
  BY <1>1, SubscribedIsSound
<1>3. Shared' /\ UNCHANGED committed
  BY DEF IInv, Shared, Subscribe, db, bus
<1>4. /\ session' = [session EXCEPT ![s] = y]
      /\ missing' = [missing EXCEPT ![s] = missing[s]]
      /\ owed' = [owed EXCEPT ![s] = <<>>]
  BY DEF IInv, Functional, Subscribe
<1> HIDE DEF y
<1> QED
  BY <1>2, <1>3, <1>4, OneSession

LEMMA BackfillKeepsIInv ==
  ASSUME IInv, NEW s \in Sessions, Backfill(s)
  PROVE  IInv'
<1> DEFINE rest == After(session[s].cursor, session[s])
<1>1. PICK rows \in SUBSET rest :
        /\ Cardinality(rows) = AtMost(Cardinality(rest), Page)
        /\ \A r \in rows, x \in rest \ rows : r < x
        /\ session' = [session EXCEPT
             ![s].page  = rows,
             ![s].full  = IsFull(rows),
             ![s].phase = IF rows = {} THEN "join" ELSE "send"]
  BY DEF Backfill
<1> DEFINE y == [session[s] EXCEPT !.page = rows, !.full = IsFull(rows),
                   !.phase = IF rows = {} THEN "join" ELSE "send"]
<1>2. /\ Sound(session[s], missing[s], owed[s], committed) /\ session[s].phase = "query"
      /\ committed \subseteq Events
  BY SessionIsSound DEF Backfill, IInv, Shared
<1>3. Sound(y, missing[s], owed[s], committed)
  BY <1>1, <1>2, BackfilledIsSound
<1>4. Shared' /\ UNCHANGED <<committed, history>>
  BY DEF IInv, Shared, Backfill, db, bus
<1>5. session' = [session EXCEPT ![s] = y]
  BY <1>1 DEF IInv, Functional
<1> HIDE DEF y
<1> QED
  BY <1>3, <1>4, <1>5, OneSessionOnly

LEMMA WiredIsSequence ==
  ASSUME IInv, NEW s \in Sessions, NEW e \in Events
  PROVE  Wired(session[s], e) \in Seq(Events)
  BY SessionIsSound DEF Wired

LEMMA SendKeepsIInv ==
  ASSUME IInv, NEW s \in Sessions, SendBackfilled(s)
  PROVE  IInv'
<1>1. PICK e \in session[s].page :
        /\ \A r \in session[s].page : e <= r
        /\ session' = [session EXCEPT
             ![s].page   = @ \ {e},
             ![s].cursor = e,
             ![s].wire   = Wired(session[s], e),
             ![s].phase  = IF session[s].page = {e} THEN Onward(session[s].full) ELSE "send"]
        /\ missing' = [missing EXCEPT ![s] = @ \ {e}]
  BY DEF SendBackfilled
<1> DEFINE w == Wired(session[s], e)
           y == [session[s] EXCEPT !.page = @ \ {e}, !.cursor = e, !.wire = w,
                   !.phase = IF session[s].page = {e} THEN Onward(session[s].full) ELSE "send"]
<1>2. Sound(session[s], missing[s], owed[s], committed) /\ session[s].phase = "send"
  BY SessionIsSound DEF SendBackfilled
<1>3. w \in Seq(Events)
  BY SessionIsSound, WiredIsSequence
<1>4. Sound(y, missing[s] \ {e}, owed[s], committed)
  <2> HIDE DEF w
  <2> QED
    BY <1>1, <1>2, <1>3, SentIsSound
<1>5. Shared' /\ UNCHANGED committed
  BY DEF IInv, Shared, SendBackfilled, db, bus
<1>6. session' = [session EXCEPT ![s] = y]
  BY <1>1 DEF IInv, Functional
<1>7. missing' = [missing EXCEPT ![s] = missing[s] \ {e}]
  BY <1>1 DEF IInv, Functional
<1>8. owed' = [owed EXCEPT ![s] = owed[s]]
  BY DEF IInv, Functional, SendBackfilled
<1> HIDE DEF y
<1> QED
  BY <1>4, <1>5, <1>6, <1>7, <1>8, OneSession

LEMMA BackfillFailsKeepsIInv ==
  ASSUME IInv, NEW s \in Sessions, BackfillFails(s)
  PROVE  IInv'
<1> DEFINE y == [session[s] EXCEPT !.phase = "over", !.page = {}]
<1>1. Sound(session[s], missing[s], owed[s], committed)
  BY SessionIsSound
<1>2. Sound(y, missing[s], owed[s], committed)
  BY <1>1, OverIsSound
<1>3. Shared' /\ UNCHANGED <<committed, history>>
  BY LimitsArePositive DEF IInv, Shared, BackfillFails, Mishap, db, bus
<1>4. session' = [session EXCEPT ![s] = y]
  BY DEF IInv, Functional, BackfillFails
<1> HIDE DEF y
<1> QED
  BY <1>2, <1>3, <1>4, OneSessionOnly

LEMMA WriteKeepsIInv ==
  ASSUME IInv, NEW s \in Sessions, Write(s)
  PROVE  IInv'
<1> DEFINE w == Wired(session[s], Head(session[s].out))
           y == [session[s] EXCEPT !.wire = w, !.out = Tail(@)]
<1>1. /\ Sound(session[s], missing[s], owed[s], committed)
      /\ session[s].phase = "live" /\ session[s].out # <<>> /\ session[s].out \in Seq(Events)
  BY SessionIsSound DEF Write, Session
<1>2. Head(session[s].out) \in Events
  BY <1>1
<1>3. w \in Seq(Events)
  BY <1>2, WiredIsSequence
<1>4. Sound(y, missing[s], Tail(owed[s]), committed)
  <2> HIDE DEF w
  <2> QED
    BY <1>1, <1>3, WrittenIsSound
<1>5. Shared' /\ UNCHANGED committed
  BY DEF IInv, Shared, Write, db, bus
<1>6. session' = [session EXCEPT ![s] = y]
  BY DEF IInv, Functional, Write
<1>7. owed' = [owed EXCEPT ![s] = Tail(owed[s])]
  BY DEF IInv, Functional, Write
<1>8. missing' = [missing EXCEPT ![s] = missing[s]]
  BY DEF IInv, Functional, Write
<1> HIDE DEF y
<1> QED
  BY <1>4, <1>5, <1>6, <1>7, <1>8, OneSession

LEMMA EndsKeepsIInv ==
  ASSUME IInv, NEW s \in Sessions, Ends(s)
  PROVE  IInv'
<1> DEFINE y == [session[s] EXCEPT !.phase = "over"]
           page == session[s].page
<1>1. Sound(session[s], missing[s], owed[s], committed) /\ page \in SUBSET Events
  BY SessionIsSound
<1>2. y = [session[s] EXCEPT !.phase = "over", !.page = page]
  BY SessionIsSound DEF Session
<1>3. Sound(y, missing[s], owed[s], committed)
  BY <1>1, <1>2, OverIsSound
<1>4. Shared' /\ UNCHANGED <<committed, history>>
  BY DEF IInv, Shared, Ends, db, bus
<1>5. session' = [session EXCEPT ![s] = y]
  BY DEF IInv, Functional, Ends
<1> HIDE DEF y
<1> QED
  BY <1>3, <1>4, <1>5, OneSessionOnly

LEMMA NoticesKeepsIInv ==
  ASSUME IInv, NEW s \in Sessions, Notices(s)
  PROVE  IInv'
<1>0. {} \in SUBSET Events /\ <<>> \in Seq(Events)
  OBVIOUS
<1>1. Sound(Free, {}, <<>>, committed)
  BY <1>0, FreeIsSound
<1>2. Shared' /\ UNCHANGED committed
  BY DEF IInv, Shared, Notices, db, bus
<1>3. /\ session' = [session EXCEPT ![s] = Free]
      /\ missing' = [missing EXCEPT ![s] = {}]
      /\ owed' = [owed EXCEPT ![s] = <<>>]
  BY DEF Notices
<1> QED
  BY <1>1, <1>2, <1>3, OneSession

LEMMA ReceiveKeepsIInv ==
  ASSUME IInv, NEW s \in Sessions, Receive(s)
  PROVE  IInv'
<1> DEFINE w == Tail(session[s].wire)
           up == session[s].up
           y == [session[s] EXCEPT !.wire = w, !.up = up]
<1>1. /\ Sound(session[s], missing[s], owed[s], committed)
      /\ session[s] \in Session /\ session[s].wire \in Seq(Events) /\ session[s].wire # <<>>
  BY SessionIsSound DEF Receive
<1>2. session[s] # Free
  BY <1>1 DEF Free
<1>3. w \in Seq(Events)
  BY <1>1
<1>4. up \in BOOLEAN
  BY <1>1 DEF Session
<1>5. Sound(y, missing[s], owed[s], committed)
  <2> HIDE DEF w, up
  <2> QED
    BY <1>1, <1>2, <1>3, <1>4, RewiredIsSound
<1>6. Shared' /\ UNCHANGED <<committed, history>>
  BY DEF IInv, Shared, Receive, db, bus
<1>7. session' = [session EXCEPT ![s].wire = w]
  BY DEF Receive
<1>8. session' = [session EXCEPT ![s] = y]
  <2>1. y = [session[s] EXCEPT !.wire = w]
    <3> HIDE DEF w
    <3> QED
      BY <1>1 DEF Session
  <2> HIDE DEF y, w
  <2> QED
    BY <1>7, <2>1 DEF IInv, Functional
<1> HIDE DEF y
<1> QED
  BY <1>5, <1>6, <1>8, OneSessionOnly

(* HangUp and Cut. *)
LEMMA DisconnectKeepsIInv ==
  ASSUME IInv, NEW s \in Sessions, HangUp(s) \/ Cut(s)
  PROVE  IInv'
<1> DEFINE wire == <<>>
           up == FALSE
           y == [session[s] EXCEPT !.wire = wire, !.up = up]
<1>1. Sound(session[s], missing[s], owed[s], committed) /\ session[s].up
  BY SessionIsSound DEF HangUp, Cut
<1>2. session[s] # Free
  BY <1>1 DEF Free
<1>3. wire \in Seq(Events) /\ up \in BOOLEAN
  OBVIOUS
<1>4. y = Disconnected(session[s])
  BY SessionIsSound DEF Disconnected, Session
<1>5. Sound(y, missing[s], owed[s], committed)
  <2> HIDE DEF wire, up
  <2> QED
    BY <1>1, <1>2, <1>3, RewiredIsSound
<1>6. Shared' /\ UNCHANGED <<committed, history>>
  BY LimitsArePositive DEF IInv, Shared, HangUp, Cut, Mishap, db, bus
<1>7. session' = [session EXCEPT ![s] = Disconnected(session[s])]
  BY DEF HangUp, Cut, IInv, Functional
<1>8. session' = [session EXCEPT ![s] = y]
  BY <1>4, <1>7
<1> HIDE DEF y
<1> QED
  BY <1>5, <1>6, <1>8, OneSessionOnly

LEMMA NextKeepsIInv == IInv /\ [Next]_streamVars => IInv'
<1> SUFFICES ASSUME IInv, [Next]_streamVars PROVE IInv'
  OBVIOUS
<1>1. CASE UNCHANGED streamVars
  BY <1>1 DEF streamVars, db, bus, history, IInv, Shared, Functional
<1>2. CASE \E t \in Transactions : Commit(t)
  BY <1>2, CommitKeepsIInv
<1>3. CASE Age \/ ListenerStarts \/ ListenerStops
  BY <1>3, SharedStepKeepsIInv
<1>4. CASE Publish
  BY <1>4, PublishKeepsIInv
<1>5. ASSUME NEW s \in Sessions, NEW f \in Filters, NEW since \in committed \cup {Null},
             Accept(s, f, since)
      PROVE  IInv'
  BY <1>5, AcceptKeepsIInv
<1>6. ASSUME NEW s \in Sessions, Serve(s)
      PROVE  IInv'
  BY <1>6, BackfillKeepsIInv, SendKeepsIInv, SubscribeKeepsIInv, WriteKeepsIInv,
     EndsKeepsIInv, NoticesKeepsIInv DEF Serve
<1>7. ASSUME NEW s \in Sessions, BackfillFails(s) \/ Receive(s) \/ HangUp(s) \/ Cut(s)
      PROVE  IInv'
  BY <1>7, BackfillFailsKeepsIInv, ReceiveKeepsIInv, DisconnectKeepsIInv
<1> QED
  BY <1>1, <1>2, <1>3, <1>4, <1>5, <1>6, <1>7 DEF Next

-----------------------------------------------------------------------------
(* Part 4: theorems *)

(* In every reachable state every session's channel holds what it is owed    *)
(* and what it has to backfill is still before it.                           *)
THEOREM Invariance == Spec => []IInv
  BY InitIInv, NextKeepsIInv, PTL DEF Spec

(* Every variable keeps its type, no channel exceeds its buffer, and serve   *)
(* leaves nothing of a session behind when it has ended.                     *)
THEOREM TypeCorrect == Spec => []TypeOK
<1>1. IInv => TypeOK
  BY DEF IInv, Shared, Functional, Sound, Typed, TypeOK
<1> QED
  BY <1>1, Invariance, PTL

(* A session's stream has no hole, whatever the size of the buffer. *)
THEOREM NoHoles == Spec => []LiveStreamHasNoHoles
<1>1. IInv => LiveStreamHasNoHoles
  <2> SUFFICES ASSUME IInv, NEW s \in Sessions, session[s].phase = "live"
               PROVE  Streams(session[s], owed[s])
    BY DEF LiveStreamHasNoHoles, Streams
  <2> QED
    BY SessionIsSound DEF Sound
<1> QED
  BY <1>1, Invariance, PTL

(* BackfillSince sends everything that it owes, whatever the size of a page. *)
THEOREM BackfillComplete == Spec => []BackfillIsComplete
<1>1. IInv => BackfillIsComplete
  BY DEF IInv, Sound, Backfills, BackfillIsComplete
<1> QED
  BY <1>1, Invariance, PTL

(* BackfillSince sends each event once and in order: what it sends is after  *)
(* the cursor, and becomes the cursor.                                       *)
THEOREM Ascends == Spec => BackfillAscends
<1>1. ASSUME IInv, NEW s \in Sessions, SendBackfilled(s)
      PROVE  session'[s].cursor > session[s].cursor
  <2>1. PICK e \in session[s].page :
          session' = [session EXCEPT
             ![s].page   = @ \ {e},
             ![s].cursor = e,
             ![s].wire   = Wired(session[s], e),
             ![s].phase  = IF session[s].page = {e} THEN Onward(session[s].full) ELSE "send"]
    BY <1>1 DEF SendBackfilled
  <2>2. session[s] \in Session /\ session = [t \in Sessions |-> session[t]]
    BY <1>1, SessionIsSound DEF IInv, Functional
  <2>3. session'[s].cursor = e
    <3> DEFINE w == Wired(session[s], e)
    <3> HIDE DEF w
    <3> QED
      BY <2>1, <2>2 DEF Session, w
  <2>4. \A r \in session[s].page : r > session[s].cursor
    BY <1>1, SessionIsSound DEF SendBackfilled, Sound, Backfills
  <2> QED
    BY <2>3, <2>4
<1>2. IInv /\ [Next]_streamVars =>
        [\A s \in Sessions :
           SendBackfilled(s) => session'[s].cursor > session[s].cursor]_streamVars
  BY <1>1
<1> QED
  BY <1>2, Invariance, PTL DEF Spec, BackfillAscends

-----------------------------------------------------------------------------
(* Part 5: the web UI's feed.  What its page is due and has not shown, it    *)
(* brings before anything that follows it in the order of cursors.           *)

(* In q no event from e on comes before e. *)
InTurn(q, e) == \A i \in DOMAIN q : q[i] >= e => \E j \in 1..i : q[j] = e

(* In n only events before e come before e. *)
Precedes(n, e) == \A i, j \in DOMAIN n : i < j /\ n[j] = e => n[i] < e

(* Session x still brings e in its turn, n being notified: it is on the wire, *)
(* or it is ahead of the backfill, or it will be published.                   *)
Brings(x, n, e) ==
  /\ InTurn(x.wire, e)
  /\ e \notin Range(x.wire) =>
       /\ InTurn(x.out, e)
       /\ x.phase \in {"query", "send", "join"} => e > x.cursor
       /\ x.phase = "send" =>
            e \in x.page \/ ((\A r \in x.page : r < e) /\ (x.full \/ e \in Range(n)))
       /\ x.phase = "join" => e \in Range(n)
       /\ x.phase = "live" /\ ~x.evicted => e \in Range(x.out) \cup Range(n)

(* A session that serves the filter f handles events of c. *)
Handles(x, c, f) ==
  /\ Range(x.wire) \subseteq c /\ Range(x.out) \subseteq c /\ x.page \subseteq c
  /\ x.cursor \in c \cup {Null} /\ x.filter = f

Serves(x, n, c, f, d) == Handles(x, c, f) /\ \A e \in d : Brings(x, n, e)

(* One page has one socket that is of use, and nothing is left on the wire of *)
(* a connection that is down.                                                *)
FeedTyped ==
  /\ ws \in Sessions \cup {NoSocket} /\ view = [s \in Sessions |-> view[s]]
  /\ wanted \in Filters /\ lastCursor \in committed \cup {Null}
  /\ \A s \in Sessions : view[s] \in {"connecting", "open"} => s = ws
  /\ \A s \in Sessions : session[s].up = FALSE => session[s].wire = <<>>
  /\ Range(notified) \subseteq committed

DueInOrder ==
  /\ due \subseteq committed \cap wanted
  /\ due # {} => lastCursor # Null
  /\ \A e \in due : Precedes(notified, e)
  /\ \A e \in due \ seen : e > lastCursor

FInv ==
  /\ IInv /\ FeedTyped /\ DueInOrder
  /\ Resumes = FALSE => Serves(session[ws], notified, committed, wanted, due \ seen)

LEMMA EmptyTurn ==
  ASSUME NEW e
  PROVE  InTurn(<<>>, e) /\ Range(<<>>) = {}
  BY DEF InTurn, Range

LEMMA AppendTurn ==
  ASSUME NEW q \in Seq(Events), NEW h \in Events
  PROVE  /\ Range(Append(q, h)) = Range(q) \cup {h}
         /\ \A e \in Events : InTurn(q, e) /\ (h <= e \/ e \in Range(q)) => InTurn(Append(q, h), e)
<1> DEFINE p == Append(q, h)
<1>1. /\ Len(q) \in Nat /\ DOMAIN q = 1..Len(q) /\ DOMAIN p = 1..(Len(q) + 1)
      /\ \A i \in 1..Len(q) : p[i] = q[i]
      /\ p[Len(q) + 1] = h
  BY AppendProperties, LenProperties
<1> HIDE DEF p
<1>2. Range(p) = Range(q) \cup {h}
  <2>1. DOMAIN p = DOMAIN q \cup {Len(q) + 1}
    BY <1>1
  <2> QED
    BY <1>1, <2>1 DEF Range
<1>3. ASSUME NEW e \in Events, InTurn(q, e), h <= e \/ e \in Range(q), NEW i \in DOMAIN p, p[i] >= e
      PROVE  \E j \in 1..i : p[j] = e
  <2>1. CASE i \in DOMAIN q
    <3>1. PICK j \in 1..i : q[j] = e
      BY <1>1, <1>3, <2>1 DEF InTurn
    <3>2. j \in DOMAIN q
      BY <1>1, <2>1
    <3> QED
      BY <1>1, <3>1, <3>2
  <2>2. CASE i = Len(q) + 1
    <3>1. CASE h <= e
      <4>1. h = e
        BY <1>1, <1>3, <2>2, <3>1, NullIsNoEvent
      <4> QED
        BY <1>1, <2>2, <4>1
    <3>2. CASE e \in Range(q)
      <4>1. PICK j \in DOMAIN q : q[j] = e
        BY <3>2 DEF Range
      <4>2. j \in 1..i /\ p[j] = e
        BY <1>1, <2>2, <4>1
      <4> QED
        BY <4>2
    <3> QED
      BY <1>3, <3>1, <3>2
  <2> QED
    BY <1>1, <2>1, <2>2
<1> QED
  BY <1>2, <1>3 DEF InTurn, p

LEMMA TailTurn ==
  ASSUME NEW q \in Seq(Events), q # <<>>
  PROVE  /\ Head(q) \in Events /\ Tail(q) \in Seq(Events)
         /\ Range(q) = Range(Tail(q)) \cup {Head(q)}
         /\ \A e \in Events : InTurn(q, e) /\ Head(q) # e => Head(q) < e /\ InTurn(Tail(q), e)
         /\ \A e \in Events : Precedes(q, e) => Precedes(Tail(q), e)
<1> DEFINE p == Tail(q)
<1>1. /\ Len(q) \in Nat \ {0} /\ DOMAIN q = 1..Len(q) /\ Head(q) = q[1]
      /\ p \in Seq(Events) /\ DOMAIN p = 1..(Len(q) - 1)
      /\ \A i \in 1..(Len(q) - 1) : p[i] = q[i + 1]
  <2>1. Len(q) \in Nat \ {0}
    BY EmptySeq, LenProperties
  <2> QED
    BY <2>1, HeadTailProperties, LenProperties
<1>2. q[1] \in Events
  BY <1>1, ElementOfSeq
<1> HIDE DEF p
<1>3. Range(q) = Range(p) \cup {q[1]}
  <2>1. \A i \in DOMAIN q : i = 1 \/ (i - 1 \in DOMAIN p /\ q[i] = p[i - 1])
    BY <1>1
  <2>2. \A i \in DOMAIN p : i + 1 \in DOMAIN q /\ p[i] = q[i + 1]
    BY <1>1
  <2>3. 1 \in DOMAIN q
    BY <1>1
  <2> QED
    BY <2>1, <2>2, <2>3 DEF Range
<1>4. ASSUME NEW e \in Events, InTurn(q, e), q[1] # e
      PROVE  q[1] < e /\ InTurn(p, e)
  <2>1. q[1] < e
    <3>1. ASSUME q[1] >= e PROVE FALSE
      <4>1. 1 \in DOMAIN q
        BY <1>1
      <4>2. PICK j \in 1..1 : q[j] = e
        BY <1>4, <3>1, <4>1 DEF InTurn
      <4> QED
        BY <1>4, <4>2
    <3>2. q[1] \in Nat /\ e \in Nat
      BY <1>2, NullIsNoEvent
    <3> QED
      BY <3>1, <3>2
  <2>2. ASSUME NEW i \in DOMAIN p, p[i] >= e PROVE \E j \in 1..i : p[j] = e
    <3>1. i + 1 \in DOMAIN q /\ q[i + 1] >= e
      BY <1>1, <2>2
    <3>2. PICK j \in 1..(i + 1) : q[j] = e
      BY <1>4, <3>1 DEF InTurn
    <3>3. j # 1
      BY <1>4, <3>2
    <3>4. i \in 1..(Len(q) - 1) /\ j - 1 \in 1..i /\ j = (j - 1) + 1
      BY <1>1, <3>2, <3>3
    <3>5. p[j - 1] = q[j]
      BY <1>1, <3>4
    <3> QED
      BY <3>2, <3>4, <3>5
  <2> QED
    BY <2>1, <2>2 DEF InTurn
<1>5. ASSUME NEW e \in Events, Precedes(q, e), NEW i \in DOMAIN p, NEW j \in DOMAIN p, i < j, p[j] = e
      PROVE  p[i] < e
  <2>1. i + 1 \in DOMAIN q /\ j + 1 \in DOMAIN q /\ i + 1 < j + 1 /\ p[i] = q[i + 1] /\ q[j + 1] = e
    BY <1>1, <1>5
  <2> QED
    BY <1>5, <2>1 DEF Precedes
<1> QED
  BY <1>1, <1>2, <1>3, <1>4, <1>5 DEF Precedes, p

(* What the steps of a session leave it to bring. *)

(* The bus changes, or there is less to bring. *)
LEMMA NotifiedServes ==
  ASSUME NEW x, NEW n, NEW k, NEW c, NEW b, c \subseteq b, NEW f, NEW d, NEW g, g \subseteq d,
         \A e \in g : e \in Range(n) => e \in Range(k), Serves(x, n, c, f, d)
  PROVE  Serves(x, k, b, f, g)
  BY DEF Serves, Handles, Brings

(* An event that follows every event so far and has been notified. *)
LEMMA NewestIsBrought ==
  ASSUME NEW x \in Session, NEW n, NEW c \in SUBSET Events, NEW f, Handles(x, c, f),
         NEW e \in Events, \A z \in c : z < e, e \in Range(n)
  PROVE  Brings(x, n, e)
<1>1. Null < e /\ \A z \in c : ~(z >= e)
  BY NullIsNoEvent DEF Null, Events
<1>2. InTurn(x.wire, e) /\ InTurn(x.out, e)
  BY <1>1 DEF Handles, InTurn, Range
<1>3. e > x.cursor
  <2>1. CASE x.cursor \in c
    <3>1. x.cursor < e /\ x.cursor \in Nat /\ e \in Nat
      BY <2>1, NullIsNoEvent
    <3> QED
      BY <3>1
  <2>2. CASE x.cursor = Null
    BY <1>1, <2>2, NullIsNoEvent
  <2> QED
    BY <2>1, <2>2 DEF Handles
<1>4. \A r \in x.page : r < e
  BY DEF Handles
<1> QED
  BY <1>2, <1>3, <1>4 DEF Brings

LEMMA AcceptedServes ==
  ASSUME NEW n, NEW c, NEW f \in SUBSET Events, NEW d \in SUBSET Events, NEW since \in c \cup {Null},
         d # {} => since # Null, \A e \in d : e > since
  PROVE  Serves(Asked(f, since, FirstPhase(since)), n, c, f, d)
<1> DEFINE x == Asked(f, since, FirstPhase(since))
<1>1. /\ x.wire = <<>> /\ x.out = <<>> /\ x.page = {} /\ x.cursor = since /\ x.filter = f
      /\ x.phase = FirstPhase(since)
  BY DEF Asked
<1>2. Handles(x, c, f)
  BY <1>1, EmptyTurn DEF Handles
<1>3. ASSUME NEW e \in d PROVE Brings(x, n, e)
  <2>1. x.phase \in {"over", "query"}
    BY <1>1, <1>3 DEF FirstPhase
  <2> QED
    BY <1>1, <1>3, <2>1, EmptyTurn DEF Brings
<1> QED
  BY <1>2, <1>3 DEF Serves

LEMMA BackfilledServes ==
  ASSUME NEW x \in Session, NEW n, NEW d, x.phase = "query",
         Serves(x, n, committed, x.filter, d), d \subseteq committed \cap x.filter,
         committed \subseteq Events,
         NEW rows \in SUBSET After(x.cursor, x),
         Cardinality(rows) = AtMost(Cardinality(After(x.cursor, x)), Page),
         \A r \in rows, z \in After(x.cursor, x) \ rows : r < z,
         NEW y, y = [x EXCEPT !.page = rows, !.full = IsFull(rows),
                              !.phase = IF rows = {} THEN "join" ELSE "send"]
  PROVE  Serves(y, n, committed, x.filter, d)
<1> DEFINE rest == After(x.cursor, x)
<1>1. rest \in SUBSET Events /\ rest \subseteq committed
  BY DEF After
<1>2. Cardinality(rows) # Page \/ rows = {} => rows = rest
  BY <1>1, ShortPageIsAll
<1>3. /\ y.phase = (IF rows = {} THEN "join" ELSE "send")
      /\ y.page = rows /\ y.full = IsFull(rows)
      /\ y.filter = x.filter /\ y.cursor = x.cursor
      /\ y.out = x.out /\ y.evicted = x.evicted /\ y.wire = x.wire
  BY DEF Session
<1>4. Handles(y, committed, x.filter)
  BY <1>1, <1>3 DEF Serves, Handles
<1>5. ASSUME NEW e \in d PROVE Brings(y, n, e)
  <2>1. Brings(x, n, e)
    BY DEF Serves
  <2>2. ASSUME e \notin Range(x.wire)
        PROVE  e > x.cursor /\ e \in rest /\ (e \in rows \/ (IsFull(rows) /\ \A r \in rows : r < e))
    <3>1. e > x.cursor
      BY <2>1, <2>2 DEF Brings
    <3>2. e \in rest
      BY <3>1 DEF After
    <3> QED
      BY <1>2, <3>1, <3>2 DEF IsFull
  <2>3. rows = {} => e \in Range(x.wire)
    BY <1>2, <2>2
  <2>4. y.phase \in {"send", "join"}
    BY <1>3
  <2> QED
    BY <1>3, <2>1, <2>2, <2>3, <2>4 DEF Brings
<1> QED
  BY <1>4, <1>5 DEF Serves

LEMMA SentServes ==
  ASSUME NEW x \in Session, NEW n, NEW c \in SUBSET Events, NEW f, NEW d \in SUBSET Events,
         x.phase = "send", Serves(x, n, c, f, d), x.up = TRUE,
         NEW e \in x.page, \A r \in x.page : e <= r,
         NEW y, y = [x EXCEPT !.page = @ \ {e}, !.cursor = e, !.wire = Wired(x, e),
                       !.phase = IF x.page = {e} THEN Onward(x.full) ELSE "send"]
  PROVE  Serves(y, n, c, f, d)
<1>1. x.wire \in Seq(Events) /\ e \in Events /\ e \in c /\ x.full \in BOOLEAN /\ x.page \subseteq Events
  BY DEF Session, Serves, Handles
<1>2. /\ y.phase = (IF x.page = {e} THEN Onward(x.full) ELSE "send")
      /\ y.page = x.page \ {e} /\ y.cursor = e /\ y.full = x.full
      /\ y.filter = x.filter /\ y.out = x.out /\ y.evicted = x.evicted
      /\ y.wire = Append(x.wire, e)
  <2>1. Wired(x, e) = Append(x.wire, e)
    BY DEF Wired
  <2> QED
    BY <2>1 DEF Session
<1>3. Range(y.wire) = Range(x.wire) \cup {e}
  BY <1>1, <1>2, AppendTurn
<1>4. Handles(y, c, f)
  BY <1>1, <1>2, <1>3 DEF Serves, Handles
<1>5. ASSUME NEW z \in d PROVE Brings(y, n, z)
  <2>1. Brings(x, n, z) /\ z \in Events
    BY DEF Serves
  <2>2. z \notin Range(x.wire) =>
          z \in x.page \/ ((\A r \in x.page : r < z) /\ (x.full \/ z \in Range(n)))
    BY <2>1 DEF Brings
  <2>3. e <= z \/ z \in Range(x.wire)
    <3>1. e < z => e <= z
      BY <1>1, <2>1, NullIsNoEvent
    <3> QED
      BY <2>2, <3>1
  <2>4. InTurn(y.wire, z)
    <3>1. InTurn(x.wire, z)
      BY <2>1 DEF Brings
    <3>2. InTurn(Append(x.wire, e), z)
      BY <1>1, <2>1, <2>3, <3>1, AppendTurn
    <3> QED
      BY <1>2, <3>2
  <2>5. ASSUME z \notin Range(y.wire)
        PROVE  /\ z > y.cursor /\ InTurn(y.out, z)
               /\ z \in y.page \/ ((\A r \in y.page : r < z) /\ (y.full \/ z \in Range(n)))
    <3>1. z \notin Range(x.wire) /\ z # e
      BY <1>3, <2>5
    <3>2. z > e
      BY <1>1, <2>1, <2>3, <3>1, NullIsNoEvent
    <3> QED
      BY <1>2, <2>1, <2>2, <3>1, <3>2 DEF Brings
  <2>6. y.phase \in {"query", "send", "join"}
    BY <1>2 DEF Onward
  <2>7. y.phase = "join" => y.page = {} /\ y.full = FALSE
    BY <1>1, <1>2 DEF Onward
  <2> QED
    BY <2>4, <2>5, <2>6, <2>7 DEF Brings
<1> QED
  BY <1>4, <1>5 DEF Serves

LEMMA SubscribedServes ==
  ASSUME NEW x \in Session, NEW n, NEW c, NEW f, NEW d, x.phase = "join", Serves(x, n, c, f, d),
         NEW y, y = [x EXCEPT !.phase = "live"]
  PROVE  Serves(y, n, c, f, d)
<1>1. /\ y.phase = "live" /\ y.page = x.page /\ y.cursor = x.cursor /\ y.filter = x.filter
      /\ y.out = x.out /\ y.wire = x.wire
  BY DEF Session
<1> QED
  BY <1>1 DEF Serves, Handles, Brings

(* Ends and BackfillFails. *)
LEMMA OverServes ==
  ASSUME NEW x \in Session, NEW n, NEW c, NEW f, NEW d, Serves(x, n, c, f, d),
         NEW page \in SUBSET x.page, NEW y, y = [x EXCEPT !.phase = "over", !.page = page]
  PROVE  Serves(y, n, c, f, d)
<1>1. /\ y.phase = "over" /\ y.page = page /\ y.cursor = x.cursor /\ y.filter = x.filter
      /\ y.out = x.out /\ y.wire = x.wire
  BY DEF Session
<1> QED
  BY <1>1 DEF Serves, Handles, Brings

LEMMA WrittenServes ==
  ASSUME NEW x \in Session, NEW n, NEW c, NEW f, NEW d \in SUBSET Events,
         x.phase = "live", x.out # <<>>, x.up = TRUE, Serves(x, n, c, f, d),
         NEW y, y = [x EXCEPT !.wire = Wired(x, Head(x.out)), !.out = Tail(@)]
  PROVE  Serves(y, n, c, f, d)
<1> DEFINE h == Head(x.out)
<1>1. x.wire \in Seq(Events) /\ x.out \in Seq(Events) /\ x.evicted \in BOOLEAN
  BY DEF Session
<1>2. h \in Events /\ Range(x.out) = Range(Tail(x.out)) \cup {h}
  BY <1>1, TailTurn
<1>3. /\ y.phase = "live" /\ y.page = x.page /\ y.cursor = x.cursor /\ y.filter = x.filter
      /\ y.evicted = x.evicted /\ y.out = Tail(x.out) /\ y.wire = Append(x.wire, h)
  <2>1. Wired(x, Head(x.out)) = Append(x.wire, h)
    BY DEF Wired
  <2> QED
    BY <2>1 DEF Session
<1> HIDE DEF h
<1>4. Range(y.wire) = Range(x.wire) \cup {h}
  BY <1>1, <1>2, <1>3, AppendTurn
<1>5. Handles(y, c, f)
  BY <1>2, <1>3, <1>4 DEF Serves, Handles
<1>6. ASSUME NEW e \in d PROVE Brings(y, n, e)
  <2>1. Brings(x, n, e) /\ e \in Events
    BY DEF Serves
  <2>2. e \notin Range(x.wire) => h <= e
    <3>1. ASSUME e \notin Range(x.wire), h # e PROVE h < e
      BY <1>1, <2>1, <3>1, TailTurn DEF Brings, h
    <3> QED
      BY <1>2, <2>1, <3>1, NullIsNoEvent
  <2>3. InTurn(y.wire, e)
    <3>1. InTurn(x.wire, e)
      BY <2>1 DEF Brings
    <3>2. InTurn(Append(x.wire, h), e)
      BY <1>1, <1>2, <2>1, <2>2, <3>1, AppendTurn
    <3> QED
      BY <1>3, <3>2
  <2>4. ASSUME e \notin Range(y.wire)
        PROVE  InTurn(y.out, e) /\ (~y.evicted => e \in Range(y.out) \cup Range(n))
    <3>1. e \notin Range(x.wire) /\ e # h
      BY <1>4, <2>4
    <3>2. InTurn(Tail(x.out), e)
      BY <1>1, <2>1, <3>1, TailTurn DEF Brings, h
    <3> QED
      BY <1>2, <1>3, <2>1, <3>1, <3>2 DEF Brings
  <2> QED
    BY <1>3, <2>3, <2>4 DEF Brings
<1> QED
  BY <1>5, <1>6 DEF Serves

LEMMA ReceivedServes ==
  ASSUME NEW x \in Session, NEW n, NEW c, NEW f, NEW d \in SUBSET Events,
         x.wire # <<>>, Serves(x, n, c, f, d), NEW h, h = Head(x.wire),
         NEW y, y.wire = Tail(x.wire), y.phase = x.phase, y.page = x.page, y.cursor = x.cursor,
         y.filter = x.filter, y.evicted = x.evicted, y.out = x.out, y.full = x.full
  PROVE  Serves(y, n, c, f, d \ {h}) /\ h \in c
<1>1. x.wire \in Seq(Events)
  BY DEF Session
<1>2. h \in Events /\ Range(x.wire) = Range(Tail(x.wire)) \cup {h}
  BY <1>1, TailTurn
<1>3. Handles(y, c, f) /\ h \in c
  BY <1>2 DEF Serves, Handles
<1>4. ASSUME NEW e \in d \ {h} PROVE Brings(y, n, e)
  <2>1. Brings(x, n, e) /\ e \in Events
    BY DEF Serves
  <2>2. InTurn(Tail(x.wire), e)
    BY <1>1, <2>1, TailTurn DEF Brings
  <2>3. e \in Range(x.wire) <=> e \in Range(y.wire)
    BY <1>2
  <2> QED
    BY <2>1, <2>2, <2>3 DEF Brings
<1> QED
  BY <1>3, <1>4 DEF Serves

LEMMA ReceivedFirst ==
  ASSUME NEW x \in Session, NEW n, NEW e \in Events, x.wire # <<>>, Brings(x, n, e), e # Head(x.wire)
  PROVE  e > Head(x.wire)
<1>1. Head(x.wire) \in Events /\ Head(x.wire) < e
  BY TailTurn DEF Session, Brings
<1> QED
  BY <1>1, NullIsNoEvent

(* Publish: what was published in the gap before Subscribe is no longer due. *)
LEMMA OfferedServes ==
  ASSUME NEW x \in Session, NEW n \in Seq(Events), n # <<>>, NEW c, Range(n) \subseteq c, NEW f,
         NEW d \in SUBSET Events, d \subseteq f, Serves(x, n, c, f, d),
         \A e \in d : Precedes(n, e), InGap(x, Head(n)) => Head(n) \notin d
  PROVE  Serves(Offered(x, Head(n)), Tail(n), c, f, d)
<1> DEFINE h == Head(n)
           y == Offered(x, h)
<1>1. /\ h \in Events /\ Tail(n) \in Seq(Events) /\ Range(n) = Range(Tail(n)) \cup {h}
      /\ Len(n) \in Nat \ {0} /\ DOMAIN n = 1..Len(n) /\ h = n[1]
  BY TailTurn, EmptySeq, LenProperties
<1>2. x.out \in Seq(Events) /\ x.evicted \in BOOLEAN /\ x.full \in BOOLEAN
  BY DEF Session
<1>3. /\ y.phase = x.phase /\ y.page = x.page /\ y.cursor = x.cursor /\ y.filter = x.filter
      /\ y.wire = x.wire /\ y.full = x.full
      /\ x.phase # "live" => y = x
      /\ x.evicted = TRUE => y = x
      /\ x.phase = "live" /\ x.evicted = FALSE =>
           \/ h \notin x.filter /\ y = x
           \/ h \in x.filter /\ y.evicted = FALSE /\ y.out = Append(x.out, h)
           \/ y.evicted = TRUE /\ y.out = x.out
  BY <1>2 DEF Session, Offered, Registered
<1>4. h \in c /\ x.filter = f
  BY <1>1 DEF Serves, Handles
<1> HIDE DEF h, y
<1>5. Range(Append(x.out, h)) = Range(x.out) \cup {h}
  BY <1>1, <1>2, AppendTurn
<1>6. Handles(y, c, f)
  <2>1. y.out = x.out \/ y.out = Append(x.out, h)
    BY <1>2, <1>3
  <2>2. Range(y.out) \subseteq c
    BY <1>4, <1>5, <2>1 DEF Serves, Handles
  <2> QED
    BY <1>3, <2>2 DEF Serves, Handles
<1>7. ASSUME NEW e \in d PROVE Brings(y, Tail(n), e)
  <2>1. Brings(x, n, e) /\ e \in Events /\ e \in f
    BY DEF Serves
  <2>2. e \in Range(n) => h <= e
    <3>1. SUFFICES ASSUME e \in Range(n), h # e PROVE h <= e
      BY <1>1, NullIsNoEvent
    <3>2. PICK j \in DOMAIN n : n[j] = e
      BY <3>1 DEF Range
    <3>3. 1 < j /\ 1 \in DOMAIN n
      BY <1>1, <3>1, <3>2
    <3>4. n[1] < e
      BY <3>2, <3>3 DEF Precedes
    <3> QED
      BY <1>1, <2>1, <3>4, NullIsNoEvent
  <2>3. CASE e \in Range(x.wire)
    BY <1>3, <2>1, <2>3 DEF Brings
  <2>4. CASE e \notin Range(x.wire) /\ x.phase # "live"
    <3>1. e = h => ~InGap(x, h)
      BY DEF h
    <3>2. y = x
      BY <1>3, <2>4
    <3>3. x.phase = "join" => e # h
      BY <2>1, <2>4, <3>1 DEF InGap, Brings
    <3>4. x.phase = "send" /\ e \notin x.page /\ ~x.full => e # h
      BY <2>1, <2>4, <3>1 DEF InGap, Brings
    <3> QED
      BY <1>1, <2>1, <2>4, <3>2, <3>3, <3>4 DEF Brings
  <2>5. CASE e \notin Range(x.wire) /\ x.phase = "live"
    <3>1. CASE x.evicted = TRUE
      BY <1>3, <2>1, <2>5, <3>1 DEF Brings
    <3>2. CASE x.evicted = FALSE
      <4>1. InTurn(x.out, e) /\ InTurn(x.wire, e) /\ e \in Range(x.out) \cup Range(n)
        BY <2>1, <2>5, <3>2 DEF Brings
      <4>2. CASE h \notin x.filter /\ y = x
        BY <1>1, <1>4, <2>1, <2>5, <4>1, <4>2 DEF Brings
      <4>3. CASE y.evicted = TRUE /\ y.out = x.out
        BY <1>3, <2>5, <4>1, <4>3 DEF Brings
      <4>4. CASE y.evicted = FALSE /\ y.out = Append(x.out, h)
        <5>1. InTurn(y.out, e)
          BY <1>1, <1>2, <2>1, <2>2, <4>1, <4>4, AppendTurn
        <5>2. e \in Range(y.out) \cup Range(Tail(n))
          BY <1>1, <1>5, <4>1, <4>4
        <5> QED
          BY <1>3, <2>5, <4>1, <5>1, <5>2 DEF Brings
      <4> QED
        BY <1>3, <2>5, <3>2, <4>2, <4>3, <4>4
    <3> QED
      BY <1>2, <3>1, <3>2
  <2> QED
    BY <2>3, <2>4, <2>5
<1> QED
  BY <1>6, <1>7 DEF Serves, h, y

(* The bus *)

LEMMA ConcatOrder ==
  ASSUME NEW n \in Seq(Events), NEW t \in Seq(Events), Range(n) \cap Range(t) = {},
         \A i, j \in DOMAIN t : i < j => t[i] < t[j]
  PROVE  /\ Range(n \o t) = Range(n) \cup Range(t)
         /\ \A e \in Range(n) : Precedes(n, e) => Precedes(n \o t, e)
         /\ \A e : e \notin Range(n) /\ e \notin Range(t) => Precedes(n \o t, e)
         /\ \A e \in Range(t) : (\A z \in Range(n) : z < e) => Precedes(n \o t, e)
<1> DEFINE p == n \o t
<1>1. /\ Len(n) \in Nat /\ Len(t) \in Nat /\ DOMAIN n = 1..Len(n) /\ DOMAIN t = 1..Len(t)
      /\ DOMAIN p = 1..(Len(n) + Len(t))
      /\ \A i \in 1..(Len(n) + Len(t)) : p[i] = IF i <= Len(n) THEN n[i] ELSE t[i - Len(n)]
  BY ConcatProperties, LenProperties
<1> HIDE DEF p
<1>2. \A i \in DOMAIN n : i \in DOMAIN p /\ p[i] = n[i]
  BY <1>1
<1>3. \A i \in DOMAIN t : Len(n) + i \in DOMAIN p /\ p[Len(n) + i] = t[i]
  BY <1>1
<1>4. ASSUME NEW i \in DOMAIN p
      PROVE  \/ i \in DOMAIN n /\ p[i] = n[i]
             \/ i > Len(n) /\ i - Len(n) \in DOMAIN t /\ p[i] = t[i - Len(n)]
  BY <1>1
<1>5. Range(p) = Range(n) \cup Range(t)
  BY <1>2, <1>3, <1>4 DEF Range
<1>6. ASSUME NEW e \in Range(n), Precedes(n, e), NEW i \in DOMAIN p, NEW j \in DOMAIN p, i < j, p[j] = e
      PROVE  p[i] < e
  <2>1. j \in DOMAIN n /\ p[j] = n[j]
    BY <1>4, <1>6 DEF Range
  <2>2. i \in DOMAIN n /\ p[i] = n[i]
    BY <1>1, <1>2, <1>6, <2>1
  <2> QED
    BY <1>6, <2>1, <2>2 DEF Precedes
<1>7. ASSUME NEW e \in Range(t), \A z \in Range(n) : z < e,
             NEW i \in DOMAIN p, NEW j \in DOMAIN p, i < j, p[j] = e
      PROVE  p[i] < e
  <2>1. CASE i \in DOMAIN n /\ p[i] = n[i]
    BY <1>7, <2>1 DEF Range
  <2>2. CASE i > Len(n) /\ i - Len(n) \in DOMAIN t /\ p[i] = t[i - Len(n)]
    <3>1. j > Len(n) /\ j - Len(n) \in DOMAIN t /\ p[j] = t[j - Len(n)] /\ i - Len(n) < j - Len(n)
      BY <1>1, <1>4, <1>7, <2>2
    <3> QED
      BY <1>7, <2>2, <3>1
  <2> QED
    BY <1>4, <2>1, <2>2
<1> QED
  BY <1>5, <1>6, <1>7 DEF Precedes, Range, p

LEMMA ConcatOld ==
  ASSUME NEW n \in Seq(Events), NEW t \in Seq(Events), Range(n) \cap Range(t) = {},
         \A i, j \in DOMAIN t : i < j => t[i] < t[j],
         NEW e, Precedes(n, e), e \notin Range(t)
  PROVE  Precedes(n \o t, e)
<1>1. CASE e \in Range(n)
  BY <1>1, ConcatOrder
<1>2. CASE e \notin Range(n)
  BY <1>2, ConcatOrder
<1> QED
  BY <1>1, <1>2

LEMMA ConcatNew ==
  ASSUME NEW n \in Seq(Events), NEW t \in Seq(Events), Range(n) \cap Range(t) = {},
         \A i, j \in DOMAIN t : i < j => t[i] < t[j],
         NEW e \in Range(t), \A z \in Range(n) : z < e
  PROVE  Precedes(n \o t, e)
  BY ConcatOrder

LEMMA PrefixOrder ==
  ASSUME NEW n \in Seq(Events), NEW k \in 0..Len(n)
  PROVE  /\ Range(SubSeq(n, 1, k)) \subseteq Range(n)
         /\ \A e : Precedes(n, e) => Precedes(SubSeq(n, 1, k), e)
<1> DEFINE p == SubSeq(n, 1, k)
<1>1. Len(n) \in Nat /\ DOMAIN n = 1..Len(n) /\ \A i \in 1..k : n[i] \in Events
  BY LenProperties, ElementOfSeq
<1>2. p \in Seq(Events) /\ Len(p) = k /\ \A i \in 1..k : p[i] = n[i]
  BY <1>1, SubSeqProperties
<1>3. DOMAIN p = 1..k
  BY <1>2, LenProperties
<1> HIDE DEF p
<1>4. \A i \in DOMAIN p : i \in DOMAIN n /\ p[i] = n[i]
  BY <1>1, <1>2, <1>3
<1> QED
  BY <1>4 DEF Range, Precedes, p

-----------------------------------------------------------------------------
(* Part 6: the steps of the feed *)

LEMMA ResumesIs ==
  ASSUME IInv, FeedTyped
  PROVE  Resumes = FALSE => ws \in Sessions /\ view[ws] = "open" /\ session[ws].up = TRUE
  BY SessionIsSound DEF Resumes, FeedTyped, Session

LEMMA ResumesNext ==
  ASSUME IInv', FeedTyped', Resumes' = FALSE
  PROVE  ws' \in Sessions /\ view'[ws'] = "open" /\ session'[ws'].up = TRUE
<1>1. ws' \in Sessions /\ view'[ws'] = "open"
  BY DEF Resumes, FeedTyped
<1>2. session'[ws'].up \in BOOLEAN
  BY <1>1 DEF IInv, Sound, Typed, Session
<1> QED
  BY <1>1, <1>2 DEF Resumes

LEMMA DueAreEvents ==
  ASSUME IInv, DueInOrder
  PROVE  committed \subseteq Events /\ due \subseteq Events /\ due \ seen \in SUBSET Events
  BY DEF IInv, Shared, DueInOrder

(* The session of the page's socket is typed and serves what is due. *)
LEMMA ServedPage ==
  ASSUME FInv, Resumes = FALSE
  PROVE  /\ ws \in Sessions /\ session[ws] \in Session /\ session[ws].up = TRUE
         /\ session[ws].filter = wanted
         /\ Serves(session[ws], notified, committed, wanted, due \ seen)
  BY ResumesIs, SessionIsSound DEF FInv, Serves, Handles

(* A step of the server in one session. *)
LEMMA OneServed ==
  ASSUME FInv, IInv', NEW s \in Sessions, NEW y, session' = [session EXCEPT ![s] = y],
         UNCHANGED <<committed, notified, ui, due>>,
         y.up = FALSE => y.wire = <<>>, y.up = TRUE => session[s].up = TRUE,
         s = ws /\ Resumes = FALSE /\ y.up = TRUE =>
           Serves(y, notified, committed, wanted, due \ seen)
  PROVE  FInv'
<1>1. \A t \in Sessions : session'[t] = IF t = s THEN y ELSE session[t]
  BY DEF FInv, IInv, Functional
<1>2. FeedTyped'
  BY <1>1 DEF FInv, FeedTyped, ui
<1>3. DueInOrder'
  BY DEF FInv, DueInOrder, ui
<1>4. ASSUME Resumes' = FALSE
      PROVE  Serves(session'[ws], notified, committed, wanted, due \ seen)
  <2>1. ws \in Sessions /\ view[ws] = "open" /\ session'[ws].up = TRUE
    BY <1>2, <1>4, ResumesNext DEF ui
  <2>2. session[ws].up = TRUE
    BY <1>1, <2>1
  <2>3. Resumes = FALSE
    BY <2>1, <2>2, UIStartsTyped DEF Resumes
  <2> QED
    BY <1>1, <2>1, <2>3 DEF FInv
<1> QED
  BY <1>2, <1>3, <1>4 DEF FInv, ui

LEMMA CommitKeepsFInv ==
  ASSUME FInv, NEW t \in Transactions, CommitFor(t)
  PROVE  FInv'
<1> DEFINE new == Newest(t) \cap wanted
<1>1. IInv' /\ committed' = committed \cup Range(t) /\ Range(t) \cap committed = {}
  BY CommitKeepsIInv DEF FInv, CommitFor, Commit
<1>2. UNCHANGED <<session, ui>>
  BY DEF CommitFor, Commit
<1>3. /\ t \in Seq(Events) /\ notified \in Seq(Events) /\ Range(notified) \subseteq committed
      /\ \A i, j \in DOMAIN t : i < j => t[i] < t[j]
      /\ committed \in SUBSET Events
  BY TransactionsAreOrdered DEF FInv, IInv, Shared, FeedTyped
<1>4. Range(notified) \cap Range(t) = {}
  BY <1>1, <1>3
<1>5. \/ listening /\ notified' = notified \o t
      \/ listening = FALSE /\ notified' = notified
  BY DEF CommitFor, Commit, FInv, IInv, Shared
<1>6. /\ due \subseteq due' /\ due' \subseteq due \cup new
      /\ due' # due => listening /\ lastCursor # Null
  BY DEF CommitFor
<1>7. Range(notified \o t) = Range(notified) \cup Range(t)
  BY <1>3, <1>4, ConcatOrder
<1>8. /\ Range(notified) \subseteq Range(notified') /\ Range(notified') \subseteq committed'
      /\ listening => Range(t) \subseteq Range(notified')
  BY <1>1, <1>3, <1>5, <1>7
<1>9. \A e \in new : e \in Events /\ e \in Range(t) /\ \A z \in committed : z < e
  <2>1. new \subseteq Newest(t)
    OBVIOUS
  <2> QED
    BY <1>3, <2>1, NullIsNoEvent DEF Newest
<1> HIDE DEF new
<1>10. FeedTyped'
  BY <1>1, <1>2, <1>8 DEF FInv, FeedTyped, ui
<1>11. ASSUME NEW e \in due PROVE Precedes(notified', e)
  <2>1. Precedes(notified, e) /\ e \in committed
    BY DEF FInv, DueInOrder
  <2>2. e \notin Range(t)
    BY <1>1, <2>1
  <2>3. Precedes(notified \o t, e)
    BY <1>3, <1>4, <2>1, <2>2, ConcatOld
  <2>4. CASE notified' = notified \o t
    BY <2>3, <2>4
  <2>5. CASE notified' = notified
    BY <2>1, <2>5
  <2> QED
    BY <1>5, <2>4, <2>5
<1>12. ASSUME NEW e \in new, listening PROVE Precedes(notified', e)
  <2>1. \A z \in Range(notified) : z < e
    BY <1>3, <1>9
  <2>2. e \in Range(t) /\ notified' = notified \o t
    BY <1>5, <1>9, <1>12
  <2>3. Precedes(notified \o t, e)
    BY <1>3, <1>4, <2>1, <2>2, ConcatNew
  <2> QED
    BY <2>2, <2>3
<1>13. ASSUME NEW e \in new, lastCursor # Null PROVE e > lastCursor
  <2>1. lastCursor \in committed
    BY <1>13 DEF FInv, FeedTyped
  <2>2. lastCursor < e /\ lastCursor \in Nat /\ e \in Nat
    BY <1>3, <1>9, <2>1, NullIsNoEvent
  <2> QED
    BY <2>2
<1>14. DueInOrder'
  <2>1. due' \subseteq committed' \cap wanted
    <3>1. new \subseteq wanted /\ new \subseteq committed'
      BY <1>1, <1>9 DEF new
    <3> QED
      BY <1>1, <1>6, <3>1 DEF FInv, DueInOrder
  <2>2. due' # {} => lastCursor # Null
    BY <1>6 DEF FInv, DueInOrder
  <2>3. \A e \in due' : Precedes(notified', e)
    BY <1>6, <1>11, <1>12
  <2>4. \A e \in due' \ seen : e > lastCursor
    BY <1>6, <1>13 DEF FInv, DueInOrder
  <2> QED
    BY <1>2, <2>1, <2>2, <2>3, <2>4 DEF DueInOrder, ui
<1>15. ASSUME Resumes = FALSE
       PROVE  Serves(session[ws], notified', committed', wanted, due' \ seen)
  <2>1. Serves(session[ws], notified, committed, wanted, due \ seen) /\ session[ws] \in Session
    BY <1>15, ServedPage
  <2>2. Serves(session[ws], notified', committed', wanted, due \ seen)
    BY <1>1, <1>8, <2>1, NotifiedServes
  <2>3. ASSUME NEW e \in due' \ seen, e \notin due PROVE Brings(session[ws], notified', e)
    <3>1. listening /\ e \in new
      BY <1>6, <2>3
    <3>2. e \in Range(notified') /\ e \in Events /\ \A z \in committed : z < e
      BY <1>8, <1>9, <3>1
    <3> QED
      BY <1>3, <2>1, <3>2, NewestIsBrought DEF Serves
  <2> QED
    BY <2>2, <2>3 DEF Serves
<1>16. Resumes' = Resumes
  BY <1>2 DEF Resumes, ui
<1> QED
  BY <1>1, <1>2, <1>10, <1>14, <1>15, <1>16 DEF FInv, ui

LEMMA ListenerStopsKeepsFInv ==
  ASSUME FInv, ListenerStopsFor
  PROVE  FInv'
<1>1. IInv' /\ UNCHANGED <<committed, session, ui>>
  BY SharedStepKeepsIInv DEF FInv, ListenerStopsFor, ListenerStops, db
<1>2. PICK n \in 0..Len(notified) : notified' = SubSeq(notified, 1, n)
  BY DEF ListenerStopsFor, ListenerStops
<1>3. /\ Range(notified') \subseteq Range(notified)
      /\ \A e : Precedes(notified, e) => Precedes(notified', e)
  <2>1. notified \in Seq(Events)
    BY DEF FInv, IInv, Shared
  <2> QED
    BY <1>2, <2>1, PrefixOrder
<1>4. due' \subseteq due /\ \A e \in due' : e \in Range(notified) => e \in Range(notified')
  BY DEF ListenerStopsFor
<1>5. FeedTyped'
  BY <1>1, <1>3 DEF FInv, FeedTyped, ui
<1>6. DueInOrder'
  BY <1>1, <1>3, <1>4 DEF FInv, DueInOrder, ui
<1>7. ASSUME Resumes = FALSE
      PROVE  Serves(session[ws], notified', committed, wanted, due' \ seen)
  <2>1. Serves(session[ws], notified, committed, wanted, due \ seen)
    BY <1>7, ServedPage
  <2>2. due' \ seen \subseteq due \ seen /\ committed \subseteq committed
    BY <1>4
  <2> QED
    BY <1>4, <2>1, <2>2, NotifiedServes
<1>8. Resumes' = Resumes
  BY <1>1 DEF Resumes, ui
<1> QED
  BY <1>1, <1>5, <1>6, <1>7, <1>8 DEF FInv, ui

LEMMA PublishKeepsFInv ==
  ASSUME FInv, PublishFor
  PROVE  FInv'
<1> DEFINE h == Head(notified)
<1>1. /\ IInv' /\ UNCHANGED <<committed, ui>> /\ notified # <<>> /\ notified' = Tail(notified)
      /\ \A s \in Sessions : session'[s] = Offered(session[s], h)
  BY PublishKeepsIInv DEF FInv, PublishFor, Publish, db
<1>2. notified \in Seq(Events) /\ Range(notified) \subseteq committed
  BY DEF FInv, FeedTyped, IInv, Shared
<1>3. /\ Range(notified') \subseteq Range(notified)
      /\ \A e \in Events : Precedes(notified, e) => Precedes(notified', e)
  BY <1>1, <1>2, TailTurn
<1>4. /\ due' \subseteq due
      /\ ws # NoSocket /\ InGap(session[ws], h) => h \notin due'
  BY DEF PublishFor
<1>5. \A s \in Sessions : session'[s].up = session[s].up /\ session'[s].wire = session[s].wire
  <2> SUFFICES ASSUME NEW s \in Sessions
               PROVE  session'[s].up = session[s].up /\ session'[s].wire = session[s].wire
    OBVIOUS
  <2>1. session[s] \in Session
    BY SessionIsSound DEF FInv
  <2> HIDE DEF h
  <2> QED
    BY <1>1, <2>1 DEF Offered, Session
<1>6. FeedTyped'
  BY <1>1, <1>2, <1>3, <1>5 DEF FInv, FeedTyped, ui
<1>7. DueInOrder'
  <2>1. due \subseteq Events
    BY DueAreEvents DEF FInv
  <2> QED
    BY <1>1, <1>3, <1>4, <2>1 DEF FInv, DueInOrder, ui
<1>8. ASSUME Resumes' = FALSE
      PROVE  Serves(session'[ws], notified', committed, wanted, due' \ seen)
  <2>1. ws \in Sessions /\ view[ws] = "open" /\ session'[ws].up = TRUE
    BY <1>1, <1>6, <1>8, ResumesNext DEF ui
  <2>2. Resumes = FALSE /\ ws # NoSocket
    BY <1>5, <2>1, UIStartsTyped DEF Resumes
  <2>3. /\ session[ws] \in Session
        /\ Serves(session[ws], notified, committed, wanted, due \ seen)
    BY <2>2, ServedPage
  <2>4. Serves(session[ws], notified, committed, wanted, due' \ seen)
    <3>1. due' \ seen \subseteq due \ seen /\ committed \subseteq committed
      BY <1>4
    <3> QED
      BY <2>3, <3>1, NotifiedServes
  <2>5. /\ due' \ seen \in SUBSET Events /\ due' \ seen \subseteq wanted
        /\ \A e \in due' \ seen : Precedes(notified, e)
        /\ InGap(session[ws], h) => h \notin due' \ seen
    BY <1>4, <2>2, DueAreEvents DEF FInv, DueInOrder
  <2>6. Serves(Offered(session[ws], h), Tail(notified), committed, wanted, due' \ seen)
    BY <1>1, <1>2, <2>3, <2>4, <2>5, OfferedServes
  <2> QED
    BY <1>1, <2>1, <2>6
<1> QED
  BY <1>1, <1>6, <1>7, <1>8 DEF FInv, ui

LEMMA BackfillKeepsFInv ==
  ASSUME FInv, NEW s \in Sessions, Backfill(s), UNCHANGED <<ui, due>>
  PROVE  FInv'
<1> DEFINE x == session[s]
           rest == After(x.cursor, x)
<1>1. PICK rows \in SUBSET rest :
        /\ Cardinality(rows) = AtMost(Cardinality(rest), Page)
        /\ \A r \in rows, z \in rest \ rows : r < z
        /\ session' = [session EXCEPT
             ![s].page  = rows,
             ![s].full  = IsFull(rows),
             ![s].phase = IF rows = {} THEN "join" ELSE "send"]
  BY DEF Backfill
<1> DEFINE y == [x EXCEPT !.page = rows, !.full = IsFull(rows),
                   !.phase = IF rows = {} THEN "join" ELSE "send"]
<1>2. /\ x \in Session /\ x.phase = "query" /\ committed \subseteq Events
      /\ IInv' /\ UNCHANGED <<committed, notified>>
  BY SessionIsSound, BackfillKeepsIInv DEF Backfill, FInv, IInv, Shared, db, bus
<1>3. session' = [session EXCEPT ![s] = y]
  BY <1>1 DEF FInv, IInv, Functional
<1>4. y.up = x.up /\ y.wire = x.wire
  BY <1>2 DEF Session
<1>5. ASSUME s = ws, Resumes = FALSE
      PROVE  Serves(y, notified, committed, wanted, due \ seen)
  <2>1. Serves(x, notified, committed, wanted, due \ seen) /\ x.filter = wanted
    BY <1>5, ServedPage
  <2>2. due \ seen \subseteq committed \cap x.filter
    BY <2>1 DEF FInv, DueInOrder
  <2>3. Serves(y, notified, committed, x.filter, due \ seen)
    BY <1>1, <1>2, <2>1, <2>2, BackfilledServes
  <2> QED
    BY <2>1, <2>3
<1>6. (y.up = FALSE => y.wire = <<>>) /\ (y.up = TRUE => session[s].up = TRUE)
  BY <1>4 DEF FInv, FeedTyped
<1> HIDE DEF y
<1> QED
  BY <1>2, <1>3, <1>5, <1>6, OneServed

LEMMA SendKeepsFInv ==
  ASSUME FInv, NEW s \in Sessions, SendBackfilled(s), UNCHANGED <<ui, due>>
  PROVE  FInv'
<1> DEFINE x == session[s]
<1>1. PICK e \in x.page :
        /\ \A r \in x.page : e <= r
        /\ session' = [session EXCEPT
             ![s].page   = @ \ {e},
             ![s].cursor = e,
             ![s].wire   = Wired(x, e),
             ![s].phase  = IF x.page = {e} THEN Onward(x.full) ELSE "send"]
  BY DEF SendBackfilled
<1> DEFINE y == [x EXCEPT !.page = @ \ {e}, !.cursor = e, !.wire = Wired(x, e),
                   !.phase = IF x.page = {e} THEN Onward(x.full) ELSE "send"]
<1>2. /\ x \in Session /\ x.phase = "send" /\ committed \in SUBSET Events
      /\ IInv' /\ UNCHANGED <<committed, notified>>
  BY SessionIsSound, SendKeepsIInv DEF SendBackfilled, FInv, IInv, Shared, db, bus
<1>3. session' = [session EXCEPT ![s] = y]
  BY <1>1 DEF FInv, IInv, Functional
<1>4. y.up = x.up /\ y.wire = Wired(x, e) /\ x.up \in BOOLEAN
  BY <1>2 DEF Session
<1>5. ASSUME s = ws, Resumes = FALSE
      PROVE  Serves(y, notified, committed, wanted, due \ seen)
  <2>1. Serves(x, notified, committed, wanted, due \ seen) /\ x.up = TRUE
    BY <1>5, ServedPage
  <2>2. due \ seen \in SUBSET Events
    BY DueAreEvents DEF FInv
  <2> QED
    BY <1>1, <1>2, <2>1, <2>2, SentServes
<1>6. (y.up = FALSE => y.wire = <<>>) /\ (y.up = TRUE => session[s].up = TRUE)
  BY <1>4 DEF FInv, FeedTyped, Wired
<1> HIDE DEF y
<1> QED
  BY <1>2, <1>3, <1>5, <1>6, OneServed

LEMMA SubscribeKeepsFInv ==
  ASSUME FInv, NEW s \in Sessions, Subscribe(s), UNCHANGED <<ui, due>>
  PROVE  FInv'
<1> DEFINE x == session[s]
           y == [x EXCEPT !.phase = "live"]
<1>1. /\ x \in Session /\ x.phase = "join" /\ IInv' /\ UNCHANGED <<committed, notified>>
  BY SessionIsSound, SubscribeKeepsIInv DEF Subscribe, FInv, db, bus
<1>2. session' = [session EXCEPT ![s] = y]
  BY DEF Subscribe, FInv, IInv, Functional
<1>3. y.up = x.up /\ y.wire = x.wire
  BY <1>1 DEF Session
<1>4. ASSUME s = ws, Resumes = FALSE
      PROVE  Serves(y, notified, committed, wanted, due \ seen)
  BY <1>1, <1>4, ServedPage, SubscribedServes
<1>5. (y.up = FALSE => y.wire = <<>>) /\ (y.up = TRUE => session[s].up = TRUE)
  BY <1>3 DEF FInv, FeedTyped
<1> HIDE DEF y
<1> QED
  BY <1>1, <1>2, <1>4, <1>5, OneServed

(* Ends and BackfillFails. *)
LEMMA OverKeepsFInv ==
  ASSUME FInv, NEW s \in Sessions, Ends(s) \/ BackfillFails(s), UNCHANGED <<ui, due>>
  PROVE  FInv'
<1> DEFINE x == session[s]
<1>1. x \in Session /\ IInv' /\ UNCHANGED <<committed, notified>>
  BY SessionIsSound, EndsKeepsIInv, BackfillFailsKeepsIInv DEF Ends, BackfillFails, FInv, db, bus
<1>2. PICK page \in SUBSET x.page : session' = [session EXCEPT ![s] = [x EXCEPT !.phase = "over", !.page = page]]
  <2>1. CASE Ends(s)
    <3>1. [x EXCEPT !.phase = "over"] = [x EXCEPT !.phase = "over", !.page = x.page]
      BY <1>1 DEF Session
    <3>2. session' = [session EXCEPT ![s] = [x EXCEPT !.phase = "over"]]
      BY <2>1 DEF Ends, FInv, IInv, Functional
    <3>3. session' = [session EXCEPT ![s] = [x EXCEPT !.phase = "over", !.page = x.page]]
      BY <3>1, <3>2
    <3> QED
      BY <3>3
  <2>2. CASE BackfillFails(s)
    <3>1. session' = [session EXCEPT ![s] = [x EXCEPT !.phase = "over", !.page = {}]]
      BY <2>2 DEF BackfillFails, FInv, IInv, Functional
    <3> QED
      BY <3>1
  <2> QED
    BY <2>1, <2>2
<1> DEFINE y == [x EXCEPT !.phase = "over", !.page = page]
<1>3. y.up = x.up /\ y.wire = x.wire
  BY <1>1 DEF Session
<1>4. ASSUME s = ws, Resumes = FALSE
      PROVE  Serves(y, notified, committed, wanted, due \ seen)
  BY <1>1, <1>4, ServedPage, OverServes
<1>5. (y.up = FALSE => y.wire = <<>>) /\ (y.up = TRUE => session[s].up = TRUE)
  BY <1>3 DEF FInv, FeedTyped
<1>6. session' = [session EXCEPT ![s] = y]
  BY <1>2
<1> HIDE DEF y
<1> QED
  BY <1>1, <1>4, <1>5, <1>6, OneServed

LEMMA WriteKeepsFInv ==
  ASSUME FInv, NEW s \in Sessions, Write(s), UNCHANGED <<ui, due>>
  PROVE  FInv'
<1> DEFINE x == session[s]
           y == [x EXCEPT !.wire = Wired(x, Head(x.out)), !.out = Tail(@)]
<1>1. /\ x \in Session /\ x.phase = "live" /\ x.out # <<>>
      /\ IInv' /\ UNCHANGED <<committed, notified>>
  BY SessionIsSound, WriteKeepsIInv DEF Write, FInv, db, bus
<1>2. session' = [session EXCEPT ![s] = y]
  BY DEF Write, FInv, IInv, Functional
<1>3. y.up = x.up /\ y.wire = Wired(x, Head(x.out)) /\ x.up \in BOOLEAN
  BY <1>1 DEF Session
<1>4. ASSUME s = ws, Resumes = FALSE
      PROVE  Serves(y, notified, committed, wanted, due \ seen)
  <2>1. Serves(x, notified, committed, wanted, due \ seen) /\ x.up = TRUE
    BY <1>4, ServedPage
  <2>2. due \ seen \in SUBSET Events
    BY DueAreEvents DEF FInv
  <2> QED
    BY <1>1, <2>1, <2>2, WrittenServes
<1>5. (y.up = FALSE => y.wire = <<>>) /\ (y.up = TRUE => session[s].up = TRUE)
  BY <1>3 DEF FInv, FeedTyped, Wired
<1> HIDE DEF y
<1> QED
  BY <1>1, <1>2, <1>4, <1>5, OneServed

(* The connection goes down, or serve notices that it has. *)
LEMMA DownKeepsFInv ==
  ASSUME FInv, NEW s \in Sessions, Notices(s) \/ Cut(s), UNCHANGED <<ui, due>>
  PROVE  FInv'
<1>1. session[s] \in Session /\ IInv' /\ UNCHANGED <<committed, notified>>
  BY SessionIsSound, NoticesKeepsIInv, DisconnectKeepsIInv DEF Notices, Cut, FInv, db, bus
<1>2. PICK y \in {Free, Disconnected(session[s])} : session' = [session EXCEPT ![s] = y]
  BY DEF Notices, Cut, FInv, IInv, Functional
<1>3. y.up = FALSE /\ y.wire = <<>>
  <2>1. Free.up = FALSE /\ Free.wire = <<>>
    BY DEF Free
  <2>2. Disconnected(session[s]).up = FALSE /\ Disconnected(session[s]).wire = <<>>
    BY <1>1 DEF Disconnected, Session
  <2> QED
    BY <2>1, <2>2
<1> QED
  BY <1>1, <1>2, <1>3, OneServed

LEMMA ServerKeepsFInv ==
  ASSUME FInv, ServerStep
  PROVE  FInv'
<1>1. UNCHANGED <<ui, due>>
  BY DEF ServerStep
<1>2. CASE Age \/ ListenerStarts
  <2>1. IInv' /\ UNCHANGED <<committed, notified, session>>
    BY <1>2, SharedStepKeepsIInv DEF FInv, Age, ListenerStarts, db, bus
  <2>2. FeedTyped' /\ DueInOrder' /\ Resumes' = Resumes
    BY <1>1, <2>1 DEF FInv, FeedTyped, DueInOrder, Resumes, ui
  <2> QED
    BY <1>1, <2>1, <2>2 DEF FInv, ui
<1>3. ASSUME NEW s \in Sessions, Serve(s) PROVE FInv'
  BY <1>1, <1>3, BackfillKeepsFInv, SendKeepsFInv, SubscribeKeepsFInv, WriteKeepsFInv,
     OverKeepsFInv, DownKeepsFInv DEF Serve
<1>4. ASSUME NEW s \in Sessions, BackfillFails(s) \/ Cut(s) PROVE FInv'
  BY <1>1, <1>4, OverKeepsFInv, DownKeepsFInv
<1> QED
  BY <1>2, <1>3, <1>4 DEF ServerStep

(* A new socket is of no use yet, and the one before it no longer. *)
LEMMA ConnectKeepsFInv ==
  ASSUME FInv, Connect, UNCHANGED UnchangedByConnect,
         wanted' \in Filters, lastCursor' \in committed \cup {Null}, DueInOrder'
  PROVE  FInv'
<1>1. PICK s \in Sessions :
        /\ ws' = s
        /\ view' = [t \in Sessions |->
             IF t = s THEN "connecting"
             ELSE IF t = ws /\ view[t] # "none" THEN "closing" ELSE view[t]]
        /\ session' = IF ws # NoSocket /\ session[ws].up
                      THEN [session EXCEPT ![ws] = Disconnected(@)] ELSE session
  BY DEF Connect
<1>2. UNCHANGED <<db, bus, history, mishaps, committed, notified>>
  BY DEF UnchangedByConnect, db, bus
<1>3. CASE session' = session
  <2>1. UNCHANGED streamVars
    BY <1>2, <1>3 DEF streamVars
  <2>2. IInv'
    BY <2>1, NextKeepsIInv DEF FInv
  <2>3. \A t \in Sessions : session'[t].up = FALSE => session'[t].wire = <<>>
    BY <1>3 DEF FInv, FeedTyped
  <2>4. FeedTyped'
    BY <1>1, <1>2, <2>3 DEF FInv, FeedTyped
  <2>5. Resumes' = TRUE
    BY <1>1 DEF Resumes
  <2> QED
    BY <2>2, <2>4, <2>5 DEF FInv
<1>4. CASE session' # session
  <2>1. /\ ws \in Sessions /\ session[ws].up /\ session[ws] \in Session
        /\ session' = [session EXCEPT ![ws] = Disconnected(@)]
    BY <1>1, <1>4, SessionIsSound DEF FInv, FeedTyped
  <2>2. HangUp(ws)
    BY <1>2, <2>1 DEF HangUp
  <2>3. IInv'
    BY <2>1, <2>2, DisconnectKeepsIInv DEF FInv
  <2>4. \A t \in Sessions : session'[t] = IF t = ws THEN Disconnected(session[ws]) ELSE session[t]
    BY <2>1 DEF FInv, IInv, Functional
  <2>5. Disconnected(session[ws]).wire = <<>>
    BY <2>1 DEF Disconnected, Session
  <2>6. \A t \in Sessions : session'[t].up = FALSE => session'[t].wire = <<>>
    BY <2>4, <2>5 DEF FInv, FeedTyped
  <2>7. FeedTyped'
    BY <1>1, <1>2, <2>6 DEF FInv, FeedTyped
  <2>8. Resumes' = TRUE
    BY <1>1 DEF Resumes
  <2> QED
    BY <2>3, <2>7, <2>8 DEF FInv
<1> QED
  BY <1>3, <1>4

LEMMA NewSocketKeepsFInv ==
  ASSUME FInv, TimerFires \/ \E f \in Filters : ChangeFilter(f)
  PROVE  FInv'
<1>1. UNCHANGED UnchangedByConnect /\ Connect
  BY DEF TimerFires, ChangeFilter
<1>2. UNCHANGED <<committed, notified>>
  BY <1>1 DEF UnchangedByConnect, db, bus
<1>3. CASE TimerFires
  <2>1. wanted' \in Filters /\ lastCursor' \in committed \cup {Null} /\ DueInOrder'
    BY <1>2, <1>3 DEF TimerFires, FInv, FeedTyped, DueInOrder
  <2> QED
    BY <1>1, <2>1, ConnectKeepsFInv
<1>4. ASSUME NEW f \in Filters, ChangeFilter(f) PROVE FInv'
  <2>1. wanted' \in Filters /\ lastCursor' \in committed \cup {Null} /\ DueInOrder'
    BY <1>4 DEF ChangeFilter, DueInOrder
  <2> QED
    BY <1>1, <2>1, ConnectKeepsFInv
<1> QED
  BY <1>3, <1>4

LEMMA OpensKeepsFInv ==
  ASSUME FInv, NEW s \in Sessions, Opens(s)
  PROVE  FInv'
<1> DEFINE y == Asked(wanted, lastCursor, FirstPhase(lastCursor))
<1>1. /\ s = ws /\ Accept(s, wanted, lastCursor)
      /\ view' = [view EXCEPT ![s] = "open"]
      /\ UNCHANGED <<ws, wanted, lastCursor, seen, due, committed, notified>>
  BY DEF Opens, FInv, FeedTyped, Accept, db, bus
<1>2. wanted \in Filters /\ lastCursor \in committed \cup {Null} /\ wanted \in SUBSET Events
  BY FiltersAreSets DEF FInv, FeedTyped
<1>3. IInv'
  BY <1>1, <1>2, AcceptKeepsIInv DEF FInv
<1>4. session' = [session EXCEPT ![s] = y]
  BY <1>1 DEF Accept
<1>5. \A t \in Sessions : session'[t] = IF t = s THEN y ELSE session[t]
  BY <1>4 DEF FInv, IInv, Functional
<1>6. y.up = TRUE
  BY DEF Asked
<1>7. FeedTyped'
  <2> HIDE DEF y
  <2> QED
    BY <1>1, <1>5, <1>6 DEF FInv, FeedTyped
<1>8. DueInOrder'
  BY <1>1 DEF FInv, DueInOrder
<1>9. Serves(y, notified, committed, wanted, due \ seen)
  <2>1. due \ seen \in SUBSET Events
    BY DueAreEvents DEF FInv
  <2>2. (due \ seen # {} => lastCursor # Null) /\ \A e \in due \ seen : e > lastCursor
    BY DEF FInv, DueInOrder
  <2> QED
    BY <1>2, <2>1, <2>2, AcceptedServes
<1> HIDE DEF y
<1> QED
  BY <1>1, <1>3, <1>5, <1>7, <1>8, <1>9 DEF FInv

LEMMA MessageKeepsFInv ==
  ASSUME FInv, NEW s \in Sessions, Message(s)
  PROVE  FInv'
<1> DEFINE x == session[s]
           h == Head(x.wire)
           y == [x EXCEPT !.wire = Tail(@)]
           d == due \ seen
<1>1. /\ s = ws /\ view[s] = "open" /\ x \in Session /\ x.wire # <<>> /\ Receive(s)
      /\ session' = [session EXCEPT ![s].wire = Tail(@)]
      /\ lastCursor' = h /\ seen' = Shown(h)
      /\ UNCHANGED <<ws, view, wanted, due, committed, notified>>
  BY SessionIsSound DEF Message, Receive, FInv, FeedTyped, db, bus
<1>2. IInv' /\ session' = [session EXCEPT ![s] = y]
  BY <1>1, ReceiveKeepsIInv DEF FInv, IInv, Functional
<1>3. \A t \in Sessions : session'[t] = IF t = s THEN y ELSE session[t]
  BY <1>2 DEF FInv, IInv, Functional
<1>4. y.up = x.up /\ x.up = TRUE
  BY <1>1 DEF FInv, FeedTyped, Session
<1>5. Resumes = FALSE
  BY <1>1, <1>4, UIStartsTyped DEF Resumes
<1>6. Serves(x, notified, committed, wanted, d) /\ d \in SUBSET Events
  BY <1>1, <1>5, ServedPage, DueAreEvents DEF FInv
<1>7. /\ Serves(y, notified, committed, wanted, d \ {h})
      /\ h \in committed /\ \A e \in d \ {h} : e > h
  <2>1. x \in Session /\ x.wire # <<>> /\ h = Head(x.wire)
        /\ y.wire = Tail(x.wire) /\ y.phase = x.phase /\ y.page = x.page /\ y.cursor = x.cursor
        /\ y.filter = x.filter /\ y.evicted = x.evicted /\ y.out = x.out /\ y.full = x.full
    BY <1>1 DEF Session
  <2> HIDE DEF x, y, d, h
  <2>2. d \in SUBSET Events /\ Serves(x, notified, committed, wanted, d)
    BY <1>6
  <2>3. h \in committed
    BY <2>1, <2>2, ReceivedServes
  <2>4. Serves(y, notified, committed, wanted, d \ {h})
    BY <2>1, <2>2, ReceivedServes
  <2>5. ASSUME NEW e \in d \ {h} PROVE e > h
    <3>1. Brings(x, notified, e) /\ e \in Events /\ e # h
      BY <2>2, <2>5 DEF Serves
    <3> QED
      BY <2>1, <3>1, ReceivedFirst
  <2> QED
    BY <2>3, <2>4, <2>5
<1>8. due \ seen' \subseteq d \ {h}
  BY <1>1 DEF Shown, FInv, DueInOrder
<1>9. Serves(y, notified, committed, wanted, due \ seen')
  BY <1>7, <1>8 DEF Serves
<1>10. h # Null
  <2>1. h \in Events
    BY <1>7 DEF FInv, IInv, Shared
  <2> QED
    BY <2>1, NullIsNoEvent
<1> HIDE DEF y, h, d
<1>11. FeedTyped'
  BY <1>1, <1>3, <1>4, <1>7 DEF FInv, FeedTyped
<1>12. DueInOrder'
  BY <1>1, <1>7, <1>8, <1>10 DEF FInv, DueInOrder
<1> QED
  BY <1>1, <1>2, <1>3, <1>9, <1>11, <1>12 DEF FInv

(* Closes and FailsToOpen. *)
LEMMA ReconnectingKeepsFInv ==
  ASSUME FInv, NEW s \in Sessions, Closes(s) \/ FailsToOpen(s)
  PROVE  FInv'
<1>1. /\ view' = [view EXCEPT ![s] = "none"] /\ session[s] \in Session
      /\ UNCHANGED <<db, bus, history, ws, wanted, lastCursor, seen, due, committed, notified>>
  BY SessionIsSound DEF Closes, FailsToOpen, Reconnecting, FInv, db, bus
<1>2. \/ session' = session
      \/ /\ session[s].up = TRUE /\ HangUp(s)
         /\ session' = [session EXCEPT ![s] = Disconnected(session[s])]
  <2>1. CASE FailsToOpen(s)
    BY <2>1 DEF FailsToOpen
  <2>2. CASE Closes(s) /\ session[s].up = TRUE
    BY <1>1, <2>2 DEF Closes, HangUp
  <2>3. CASE Closes(s) /\ session[s].up = FALSE
    <3>1. session[s].wire = <<>>
      BY <2>3 DEF FInv, FeedTyped
    <3>2. Disconnected(session[s]) = session[s]
      BY <1>1, <2>3, <3>1 DEF Disconnected, Session
    <3> QED
      BY <2>3, <3>2 DEF Closes, FInv, IInv, Functional
  <2>4. session[s].up \in BOOLEAN
    BY <1>1 DEF Session
  <2> QED
    BY <2>1, <2>2, <2>3, <2>4
<1>3. IInv'
  <2>1. CASE HangUp(s)
    BY <2>1, DisconnectKeepsIInv DEF FInv
  <2>2. CASE session' = session
    <3>1. mishaps' \in 0..MaxMishaps
      BY LimitsArePositive DEF Closes, FailsToOpen, Mishap, FInv, IInv, Shared
    <3> QED
      BY <1>1, <2>2, <3>1 DEF FInv, IInv, Shared, Functional, db, bus, history
  <2> QED
    BY <1>2, <2>1, <2>2
<1>4. /\ \A t \in Sessions \ {s} : session'[t] = session[t]
      /\ session'[s] = session[s] \/ session'[s] = Disconnected(session[s])
  BY <1>2 DEF FInv, IInv, Functional
<1>5. Disconnected(session[s]).wire = <<>>
  BY <1>1 DEF Disconnected, Session
<1>6. \A t \in Sessions : session'[t].up = FALSE => session'[t].wire = <<>>
  BY <1>4, <1>5 DEF FInv, FeedTyped
<1>7. FeedTyped'
  BY <1>1, <1>6 DEF FInv, FeedTyped
<1>8. DueInOrder'
  BY <1>1 DEF FInv, DueInOrder
<1>9. ASSUME Resumes' = FALSE
      PROVE  Serves(session'[ws], notified, committed, wanted, due \ seen)
  <2>1. ws \in Sessions /\ view'[ws] = "open" /\ session'[ws].up = TRUE
    BY <1>1, <1>3, <1>7, <1>9, ResumesNext
  <2>2. ws # s /\ view[ws] = "open"
    BY <1>1, <2>1 DEF FInv, FeedTyped
  <2>3. session'[ws] = session[ws]
    BY <1>4, <2>1, <2>2
  <2>4. Resumes = FALSE
    BY <2>1, <2>2, <2>3, UIStartsTyped DEF Resumes
  <2> QED
    BY <2>3, <2>4 DEF FInv
<1> QED
  BY <1>1, <1>3, <1>7, <1>8, <1>9 DEF FInv

LEMMA UIInitFInv == UIInit => FInv
<1> SUFFICES ASSUME UIInit PROVE FInv
  OBVIOUS
<1>1. IInv
  BY InitIInv DEF UIInit
<1>2. Range(notified) = {}
  BY EmptyTurn DEF UIInit, Init
<1>3. FeedTyped
  <2>1. \A s \in Sessions : view[s] = "none" /\ session[s] = Free
    BY DEF UIInit, Init
  <2>2. Free.wire = <<>>
    BY DEF Free
  <2> QED
    BY <1>2, <2>1, <2>2, UIStartsTyped DEF UIInit, FeedTyped
<1>4. DueInOrder
  BY DEF UIInit, DueInOrder
<1>5. Resumes = TRUE
  BY DEF UIInit, Resumes
<1> QED
  BY <1>1, <1>3, <1>4, <1>5 DEF FInv

LEMMA UINextKeepsFInv == FInv /\ [UINext]_vars => FInv'
<1> SUFFICES ASSUME FInv, [UINext]_vars PROVE FInv'
  OBVIOUS
<1>1. CASE UNCHANGED vars
  <2>1. UNCHANGED <<streamVars, ui, due, session, committed, notified>>
    BY <1>1 DEF vars, streamVars, db, bus
  <2>2. IInv'
    BY <2>1, NextKeepsIInv DEF FInv
  <2>3. FeedTyped' /\ DueInOrder' /\ Resumes' = Resumes
    BY <2>1 DEF FInv, FeedTyped, DueInOrder, Resumes, ui
  <2> QED
    BY <2>1, <2>2, <2>3 DEF FInv, ui
<1>2. CASE \E t \in Transactions : CommitFor(t)
  BY <1>2, CommitKeepsFInv
<1>3. CASE ListenerStopsFor \/ PublishFor \/ ServerStep
  BY <1>3, ListenerStopsKeepsFInv, PublishKeepsFInv, ServerKeepsFInv
<1>4. CASE TimerFires \/ \E f \in Filters : ChangeFilter(f)
  BY <1>4, NewSocketKeepsFInv
<1>5. ASSUME NEW s \in Sessions, Opens(s) \/ Message(s) \/ Closes(s) \/ FailsToOpen(s)
      PROVE  FInv'
  BY <1>5, OpensKeepsFInv, MessageKeepsFInv, ReconnectingKeepsFInv
<1> QED
  BY <1>1, <1>2, <1>3, <1>4, <1>5 DEF UINext

(* In every reachable state of the page and the server, what the page is due *)
(* follows its cursor, and the session of its socket still brings it before  *)
(* anything that would take the cursor past it.                              *)
THEOREM FeedInvariance == UISpec => []FInv
  BY UIInitFInv, UINextKeepsFInv, PTL DEF UISpec

(* No event is lost but for an outage of LISTEN, a commit out of order, the  *)
(* gap before Subscribe, or the lack of a cursor to resume from: whatever    *)
(* the sizes of pages and buffers, however many sockets come and go, and     *)
(* however many queries and connections fail.                                *)
THEOREM OnlyKnownLosses == UISpec => []NothingElseIsLost
<1>1. FInv => NothingElseIsLost
  <2> SUFFICES ASSUME FInv, NEW e \in due \ seen PROVE e \in Pending
    BY DEF NothingElseIsLost
  <2>1. e \in Events /\ e > lastCursor
    BY DueAreEvents DEF FInv, DueInOrder
  <2>2. CASE Resumes
    BY <2>1, <2>2 DEF Pending
  <2>3. CASE ~Resumes
    <3> DEFINE x == session[ws]
    <3>1. Resumes = FALSE
      BY <2>3 DEF Resumes
    <3>2. Brings(x, notified, e) /\ x \in Session /\ committed \subseteq Events
      BY <3>1, ServedPage, DueAreEvents DEF FInv, Serves
    <3>3. x.full \in BOOLEAN /\ x.evicted \in BOOLEAN /\ lastCursor \in Nat /\ e \in Nat
          /\ x.wire \in Seq(Events) /\ x.out \in Seq(Events) /\ x.page \subseteq Events
          /\ x.phase \in {"free", "query", "send", "join", "live", "over"}
      BY <2>1, <3>2, NullIsNoEvent DEF Session, FInv, FeedTyped
    <3>4. CASE e \in Range(x.wire) \cup Range(x.out) \cup x.page \cup Range(notified)
      BY <2>3, <3>4 DEF Pending
    <3>5. CASE e \notin Range(x.wire) \cup Range(x.out) \cup x.page \cup Range(notified)
      <4>1. CASE x.phase = "over" \/ x.evicted
        <5>1. \A r \in Range(x.wire) \cup Range(x.out) : e > r
          <6>1. \A q \in Seq(Events) : InTurn(q, e) /\ e \notin Range(q) => \A r \in Range(q) : e > r
            <7> SUFFICES ASSUME NEW q \in Seq(Events), InTurn(q, e), e \notin Range(q), NEW i \in DOMAIN q
                         PROVE  e > q[i]
              BY DEF Range
            <7>1. DOMAIN q = 1..Len(q) /\ Len(q) \in Nat /\ q[i] \in Events
              BY LenProperties, ElementOfSeq
            <7>2. ASSUME q[i] >= e PROVE FALSE
              <8>1. PICK j \in 1..i : q[j] = e
                BY <7>2 DEF InTurn
              <8>2. j \in DOMAIN q
                BY <7>1, <8>1
              <8> QED
                BY <8>1, <8>2 DEF Range
            <7> QED
              BY <3>3, <7>1, <7>2, NullIsNoEvent
          <6> QED
            BY <3>2, <3>3, <3>5, <6>1 DEF Brings
        <5> QED
          BY <2>1, <2>3, <4>1, <5>1 DEF Pending
      <4>2. CASE ~(x.phase = "over" \/ x.evicted)
        <5>1. x.phase # "free"
          <6>1. x.up = TRUE /\ ws \in Sessions
            BY <3>1, ServedPage
          <6>2. x.phase = "free" => x = Free
            BY <6>1, SessionIsSound DEF FInv, Sound, Typed
          <6> QED
            BY <6>1, <6>2 DEF Free
        <5>2. \/ x.phase = "query" /\ e > x.cursor
              \/ x.phase = "send" /\ x.full /\ \A r \in x.page : r < e
          BY <3>2, <3>3, <3>5, <4>2, <5>1 DEF Brings
        <5>3. \A r \in x.page : r < e => e > r
          BY <3>3, NullIsNoEvent
        <5> QED
          BY <2>1, <2>3, <5>2, <5>3 DEF Pending
      <4> QED
        BY <4>1, <4>2
    <3> QED
      BY <3>4, <3>5
  <2> QED
    BY <2>2, <2>3
<1> QED
  BY <1>1, FeedInvariance, PTL

-----------------------------------------------------------------------------
(* Part 7: the page's sockets and its reconnect timers *)

(* The page has a socket that is open, or may still open. *)
Served == ws # NoSocket /\ view[ws] \in {"connecting", "open"}

(* A page has one socket at most that is of use; while it has none a timer    *)
(* is armed that will open one; and unless the filters were changed no timer  *)
(* is armed while it has one, so that none closes a socket that works         *)
(* (static/app.js:238-246, 275-278).                                          *)
ReconnectsWhenNeeded ==
  /\ \A s \in Sessions : view[s] \in {"connecting", "open"} => s = ws
  /\ ~Served => timers > 0
  /\ changes = 0 /\ Served => timers = 0

(* Without a change of the filters at most one timer is armed, and no socket  *)
(* is closed by the page itself.                                              *)
RInv ==
  /\ timers \in Nat /\ changes \in Nat /\ latest \in BOOLEAN
  /\ \A s \in Sessions : view[s] \in {"none", "connecting", "open", "closing"}
  /\ latest \/ ~Served => timers > 0
  /\ changes = 0 => /\ timers = (IF Served THEN 0 ELSE 1)
                    /\ \A s \in Sessions : view[s] # "closing"

LEMMA NewSocketReconnects ==
  ASSUME FInv, RInv, TimerFires \/ \E f \in Filters : ChangeFilter(f)
  PROVE  RInv'
<1>1. PICK s \in Sessions :
        /\ ws' = s
        /\ view' = [t \in Sessions |->
             IF t = s THEN "connecting"
             ELSE IF t = ws /\ view[t] # "none" THEN "closing" ELSE view[t]]
  BY DEF TimerFires, ChangeFilter, Connect
<1>2. Served'
  BY <1>1, UIStartsTyped DEF Served
<1>5. \A t \in Sessions : view'[t] \in {"none", "connecting", "open", "closing"}
  BY <1>1 DEF RInv
<1>3. CASE TimerFires
  <2>1. /\ timers > 0 /\ latest' = FALSE /\ changes' = changes
        /\ timers' = IF latest /\ timers > 1 THEN timers - 2 ELSE timers - 1
    BY <1>3 DEF TimerFires, ClearTimeout, RInv
  <2>2. ASSUME changes = 0
        PROVE  timers' = 0 /\ \A t \in Sessions : view'[t] # "closing"
    <3>1. ~Served /\ timers = 1
      BY <2>1, <2>2 DEF RInv
    <3>2. \A t \in Sessions : t = ws => view[t] = "none"
      <4>1. \A t \in Sessions : t = ws => view[t] \notin {"connecting", "open"}
        BY <3>1, UIStartsTyped DEF Served
      <4>2. \A t \in Sessions : view[t] # "closing"
        BY <2>2 DEF RInv
      <4>3. \A t \in Sessions : view[t] \in {"none", "connecting", "open", "closing"}
        BY DEF RInv
      <4> QED
        BY <4>1, <4>2, <4>3
    <3> QED
      BY <1>1, <2>1, <2>2, <3>1, <3>2 DEF RInv
  <2>3. timers' \in Nat
    BY <2>1 DEF RInv
  <2> QED
    BY <1>2, <1>5, <2>1, <2>2, <2>3 DEF RInv
<1>4. ASSUME NEW f \in Filters, ChangeFilter(f) PROVE RInv'
  <2>1. /\ latest' = FALSE /\ changes' = changes + 1
        /\ timers' = IF latest THEN timers - 1 ELSE timers
    BY <1>4 DEF ChangeFilter, ClearTimeout
  <2>2. timers' \in Nat /\ changes' \in Nat /\ changes' # 0
    BY <2>1 DEF RInv
  <2> QED
    BY <1>2, <1>5, <2>1, <2>2 DEF RInv
<1> QED
  BY <1>3, <1>4

(* A socket that closes, or does not open, arms a timer. *)
LEMMA CloseReconnects ==
  ASSUME FInv, RInv, NEW s \in Sessions, Closes(s) \/ FailsToOpen(s)
  PROVE  RInv'
<1>1. /\ view' = [view EXCEPT ![s] = "none"] /\ ws' = ws
      /\ timers' = timers + 1 /\ latest' = TRUE /\ changes' = changes
  BY DEF Closes, FailsToOpen, Reconnecting
<1>2. view[s] \in {"closing", "open", "connecting"}
  BY DEF Closes, HasClosed, FailsToOpen
<1>3. ASSUME changes = 0
      PROVE  ~Served' /\ timers = 0 /\ \A t \in Sessions : view'[t] # "closing"
  <2>1. s = ws /\ Served
    BY <1>2, <1>3, UIStartsTyped DEF RInv, FInv, FeedTyped, Served
  <2>2. view'[s] = "none" /\ \A t \in Sessions : t # s => view'[t] = view[t]
    BY <1>1 DEF FInv, FeedTyped
  <2> QED
    BY <1>1, <1>3, <2>1, <2>2 DEF RInv, Served
<1> QED
  BY <1>1, <1>3 DEF RInv

LEMMA UINextReconnects == FInv /\ RInv /\ [UINext]_vars => RInv'
<1> SUFFICES ASSUME FInv, RInv, [UINext]_vars PROVE RInv'
  OBVIOUS
<1>1. CASE UNCHANGED <<ws, view, timers, latest, changes>>
  BY <1>1 DEF RInv, Served
<1>2. ASSUME NEW s \in Sessions, Opens(s) PROVE RInv'
  <2>1. /\ UNCHANGED <<ws, timers, latest, changes>>
        /\ view[s] = "connecting" /\ view' = [view EXCEPT ![s] = "open"]
    BY <1>2 DEF Opens
  <2>2. view'[s] = "open" /\ \A t \in Sessions : t # s => view'[t] = view[t]
    BY <2>1 DEF FInv, FeedTyped
  <2>3. Served' = Served
    BY <2>1, <2>2 DEF Served, FInv, FeedTyped
  <2> QED
    BY <2>1, <2>2, <2>3 DEF RInv
<1>3. ASSUME NEW s \in Sessions, Message(s) PROVE RInv'
  BY <1>1, <1>3 DEF Message
<1>4. CASE TimerFires \/ \E f \in Filters : ChangeFilter(f)
  BY <1>4, NewSocketReconnects
<1>5. ASSUME NEW s \in Sessions, Closes(s) \/ FailsToOpen(s) PROVE RInv'
  BY <1>5, CloseReconnects
<1>6. CASE (\E t \in Transactions : CommitFor(t)) \/ ListenerStopsFor \/ PublishFor \/ ServerStep
  BY <1>1, <1>6 DEF CommitFor, ListenerStopsFor, PublishFor, ServerStep, ui
<1>7. CASE UNCHANGED vars
  BY <1>1, <1>7 DEF vars, ui
<1> QED
  BY <1>2, <1>3, <1>4, <1>5, <1>6, <1>7 DEF UINext

(* The page never gives up, and never holds two sockets: the safety that      *)
(* FeedComesBack rests on, for every number of sockets and failures.          *)
THEOREM PageReconnects == UISpec => []ReconnectsWhenNeeded
<1>1. UIInit => RInv
  <2> SUFFICES ASSUME UIInit PROVE RInv
    OBVIOUS
  <2>1. ~Served /\ timers = 1 /\ latest = FALSE /\ changes = 0
        /\ \A s \in Sessions : view[s] = "none"
    BY DEF UIInit, Served
  <2>2. timers \in Nat /\ timers > 0 /\ changes \in Nat
    BY <2>1
  <2>3. \A s \in Sessions : /\ view[s] \in {"none", "connecting", "open", "closing"}
                            /\ view[s] # "closing"
    BY <2>1
  <2>4. latest \in BOOLEAN /\ timers = (IF Served THEN 0 ELSE 1)
    BY <2>1
  <2> QED
    BY <2>2, <2>3, <2>4 DEF RInv
<1>2. FInv /\ RInv => ReconnectsWhenNeeded
  BY DEF FInv, FeedTyped, RInv, ReconnectsWhenNeeded
<1> QED
  BY <1>1, <1>2, UINextReconnects, FeedInvariance, PTL DEF UISpec

-----------------------------------------------------------------------------
(* Part 8: the page is a client like any other *)

(* A connection that is down already stays as it is. *)
LEMMA DownStaysDown ==
  ASSUME FInv, NEW s \in Sessions, session[s].up = FALSE
  PROVE  [session EXCEPT ![s] = Disconnected(@)] = session
<1>1. session[s] \in Session /\ session[s].wire = <<>>
  BY SessionIsSound DEF FInv, FeedTyped
<1>2. Disconnected(session[s]) = session[s]
  BY <1>1 DEF Disconnected, Session
<1>3. session = [t \in Sessions |-> session[t]]
  BY DEF FInv, IInv, Functional
<1> HIDE DEF Disconnected
<1> QED
  BY <1>2, <1>3

LEMMA HangingUpIsAStep ==
  ASSUME FInv, NEW s \in Sessions, session' = [session EXCEPT ![s] = Disconnected(@)],
         UNCHANGED <<db, bus, history, mishaps>>
  PROVE  [Next]_streamVars
<1>1. session[s].up \in BOOLEAN
  BY SessionIsSound DEF FInv, Session
<1>2. CASE session[s].up
  BY <1>2 DEF HangUp, Next
<1>3. CASE session[s].up = FALSE
  BY <1>3, DownStaysDown DEF streamVars
<1> QED
  BY <1>1, <1>2, <1>3

(* A connection that cannot be established never reaches the server. *)
NeverArrives == Mishap /\ UNCHANGED <<db, bus, session, history>>

LEMMA UINextIsAStep == FInv /\ [UINext]_vars => [Next \/ NeverArrives]_streamVars
<1> SUFFICES ASSUME FInv, [UINext]_vars PROVE [Next \/ NeverArrives]_streamVars
  OBVIOUS
<1>1. CASE UNCHANGED vars
  BY <1>1 DEF vars
<1>2. CASE \/ \E t \in Transactions : CommitFor(t)
           \/ ListenerStopsFor \/ PublishFor \/ ServerStep
  BY <1>2 DEF CommitFor, ListenerStopsFor, PublishFor, ServerStep, Next
<1>3. CASE TimerFires \/ \E f \in Filters : ChangeFilter(f)
  <2>1. Connect /\ UNCHANGED UnchangedByConnect
    BY <1>3 DEF TimerFires, ChangeFilter
  <2>2. session' = IF ws # NoSocket /\ session[ws].up
                   THEN [session EXCEPT ![ws] = Disconnected(@)] ELSE session
    BY <2>1 DEF Connect
  <2>3. UNCHANGED <<db, bus, history, mishaps>>
    BY <2>1 DEF UnchangedByConnect
  <2>4. CASE ws # NoSocket /\ session[ws].up
    <3>1. ws \in Sessions
      BY <2>4 DEF FInv, FeedTyped
    <3> QED
      BY <2>2, <2>3, <2>4, <3>1, HangingUpIsAStep
  <2>5. CASE ~(ws # NoSocket /\ session[ws].up)
    BY <2>2, <2>3, <2>5 DEF streamVars
  <2> QED
    BY <2>4, <2>5
<1>4. ASSUME NEW s \in Sessions, Opens(s) PROVE [Next \/ NeverArrives]_streamVars
  <2>1. wanted \in Filters /\ lastCursor \in committed \cup {Null} /\ Accept(s, wanted, lastCursor)
    BY <1>4 DEF Opens, FInv, FeedTyped
  <2> QED
    BY <2>1 DEF Next
<1>5. ASSUME NEW s \in Sessions, Message(s) PROVE [Next \/ NeverArrives]_streamVars
  BY <1>5 DEF Message, Next
<1>6. ASSUME NEW s \in Sessions, Closes(s) PROVE [Next \/ NeverArrives]_streamVars
  <2>1. /\ session' = [session EXCEPT ![s] = Disconnected(@)]
        /\ UNCHANGED <<db, bus, history, mishaps>>
    BY <1>6 DEF Closes, Reconnecting
  <2> QED
    BY <2>1, HangingUpIsAStep
<1>7. ASSUME NEW s \in Sessions, FailsToOpen(s) PROVE [Next \/ NeverArrives]_streamVars
  BY <1>7 DEF FailsToOpen, Reconnecting, NeverArrives
<1> QED
  BY <1>1, <1>2, <1>3, <1>4, <1>5, <1>6, <1>7 DEF UINext

(* The server beside the page is the server of EventStream: its sessions,     *)
(* whose streams have no hole and whose backfills are complete for any        *)
(* clients, serve a page that hangs up, resumes and changes its filters as    *)
(* app.js does; connections that never reach the server count as mishaps.     *)
THEOREM PageIsAClient ==
  UISpec => Init /\ [][Next \/ NeverArrives]_streamVars
<1>1. UIInit => Init
  BY DEF UIInit
<1> QED
  BY <1>1, UINextIsAStep, FeedInvariance, PTL DEF UISpec

===============================================================================
