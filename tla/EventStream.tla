------------------------------ MODULE EventStream ------------------------------
(***************************************************************************)
(* The WebSocket event feed of the API, internal/api/ws: a trigger         *)
(* notifies every committed rail event, one connection listens and feeds   *)
(* the dispatcher, and every client session first sends what it missed     *)
(* since its cursor (BackfillSince) and then what is published.            *)
(*                                                                         *)
(* An event is its place in the order (occurred_at, id) by which cursors   *)
(* are compared.  The ingester polls exchanges concurrently, so events do  *)
(* not commit in that order.  A cursor is the event it was taken from.     *)
(***************************************************************************)
EXTENDS Integers, Sequences, FiniteSets, Functions

CONSTANTS
  Last,         (* the number of events                                    *)
  Transactions, (* the events each ingester transaction inserts, in order  *)
  Sessions,     (* connections to /v1/ws, ended ones are used again        *)
  Filters,      (* the sets of events a subscription may ask for           *)
  Page,         (* backfillBatchLimit: 1000                                *)
  Buffer,       (* defaultOutboundBuffer: 64                               *)
  MaxMishaps,   (* bound: lost connections and failed queries              *)
  MaxOutages,   (* bound: failures of the listening connection             *)
  MaxAgings     (* bound: times that events pass the backfill window       *)

Events == 1..Last
Null   == 0       (* no cursor                                             *)

ASSUME TransactionsAreOrdered ==
  /\ Last \in Nat
  /\ Transactions \subseteq Seq(Events)
  /\ \A t \in Transactions : \A i, j \in DOMAIN t : i < j => t[i] < t[j]
ASSUME FiltersAreSets == Filters \subseteq SUBSET Events
ASSUME LimitsArePositive ==
  /\ Page \in Nat \ {0} /\ Buffer \in Nat \ {0}
  /\ MaxMishaps \in Nat /\ MaxOutages \in Nat /\ MaxAgings \in Nat

Session ==
  [phase   : {"free", "query", "send", "join", "live", "over"},
   filter  : SUBSET Events,
   cursor  : Events \cup {Null}, (* BackfillSince: cursor                  *)
   page    : SUBSET Events,      (* rows read and not sent yet             *)
   full    : BOOLEAN,            (* the page had as many rows as its limit *)
   out     : Seq(Events),        (* client.out, the dispatcher's channel   *)
   evicted : BOOLEAN,            (* the channel is closed                  *)
   wire    : Seq(Events),        (* written, not received yet              *)
   up      : BOOLEAN]            (* the connection                         *)

Free == [phase |-> "free", filter |-> {}, cursor |-> Null, page |-> {}, full |-> FALSE,
         out |-> <<>>, evicted |-> FALSE, wire |-> <<>>, up |-> FALSE]

VARIABLES
  committed, (* the rows of rail_events                                    *)
  aged,      (* events up to this one are older than maxBackfillWindow     *)
  listening, (* a connection has executed LISTEN                           *)
  notified,  (* notifications on that connection, then in the channel      *)
  session,   (* what serve knows of each connection                        *)
  owed,      (* history: published since Subscribe, matching, not written  *)
  missing,   (* history: committed when the session began, not yet sent    *)
  mishaps, outages, agings

db      == <<committed, aged, agings>>
bus     == <<listening, notified, outages>>
history == <<owed, missing>>
streamVars == <<db, bus, session, history, mishaps>>

TypeOK ==
  /\ committed \subseteq Events /\ aged \in Events \cup {Null}
  /\ listening \in BOOLEAN /\ notified \in Seq(Events)
  /\ session \in [Sessions -> Session]
  /\ \A s \in Sessions : session[s].phase = "free" => session[s] = Free
  /\ \A s \in Sessions : Len(session[s].out) <= Buffer
  /\ owed \in [Sessions -> Seq(Events)] /\ missing \in [Sessions -> SUBSET Events]
  /\ mishaps \in 0..MaxMishaps /\ outages \in 0..MaxOutages /\ agings \in 0..MaxAgings

Init ==
  /\ committed = {} /\ aged = Null
  /\ listening = FALSE /\ notified = <<>>
  /\ session = [s \in Sessions |-> Free]
  /\ owed = [s \in Sessions |-> <<>>] /\ missing = [s \in Sessions |-> {}]
  /\ mishaps = 0 /\ outages = 0 /\ agings = 0

Mishap == mishaps < MaxMishaps /\ mishaps' = mishaps + 1

-----------------------------------------------------------------------------
(* Events, notifications and the listening connection *)

(* The trigger notifies each row; Postgres delivers when the transaction     *)
(* commits, in order, to the connections that listen.                        *)
Commit(t) ==
  /\ Range(t) \cap committed = {}
  /\ committed' = committed \cup Range(t)
  /\ notified' = IF listening THEN notified \o t ELSE notified
  /\ UNCHANGED <<aged, agings, listening, outages, session, history, mishaps>>

(* Time passes: everything up to some event is out of the backfill window.   *)
Age ==
  /\ agings < MaxAgings
  /\ agings' = agings + 1
  /\ \E e \in committed : e > aged /\ 1..e \subseteq committed /\ aged' = e
  /\ UNCHANGED <<committed, bus, session, history, mishaps>>

ListenerStarts ==
  /\ ~listening
  /\ listening' = TRUE
  /\ UNCHANGED <<db, notified, outages, session, history, mishaps>>

(* Listen returns an error.  What it has put into the channel stays there;   *)
(* what was still on the connection, and what is notified until the next     *)
(* LISTEN, is gone.                                                          *)
ListenerStops ==
  /\ listening
  /\ outages < MaxOutages
  /\ outages' = outages + 1
  /\ listening' = FALSE
  /\ \E n \in 0..Len(notified) : notified' = SubSeq(notified, 1, n)
  /\ UNCHANGED <<db, session, history, mishaps>>

-----------------------------------------------------------------------------
(* The dispatcher *)

Registered(x) == x.phase = "live" /\ ~x.evicted

(* Slip: a full channel loses the event and nothing else happens. *)
SlipOffered(x, e) ==
  IF Registered(x) /\ e \in x.filter /\ Len(x.out) < Buffer
  THEN [x EXCEPT !.out = Append(@, e)]
  ELSE x

(* A client whose channel is full is removed and its channel closed.         *)
Offered(x, e) ==
  IF ~Registered(x) \/ e \notin x.filter THEN x
  ELSE IF Len(x.out) < Buffer THEN [x EXCEPT !.out = Append(@, e)]
  ELSE [x EXCEPT !.evicted = TRUE]

Publish ==
  /\ notified # <<>>
  /\ LET e == Head(notified)
     IN  /\ session' = [s \in Sessions |-> Offered(session[s], e)]
         /\ owed' = [s \in Sessions |->
              IF session[s].phase = "live" /\ e \in session[s].filter
              THEN Append(owed[s], e) ELSE owed[s]]
  /\ notified' = Tail(notified)
  /\ UNCHANGED <<db, listening, outages, missing, mishaps>>

(* Dispatcher.Subscribe: from here on the session is told of events. *)
Subscribe(s) ==
  /\ session[s].phase = "join"
  /\ session' = [session EXCEPT ![s].phase = "live"]
  /\ owed' = [owed EXCEPT ![s] = <<>>]
  /\ UNCHANGED <<db, bus, missing, mishaps>>

-----------------------------------------------------------------------------
(* One session: serve *)

TooOld(since) == since # Null /\ since <= aged

(* Slip: the event of the cursor is sent again. *)
SlipAfter(cursor, x) == {e \in committed \cap x.filter : e >= cursor}

After(cursor, x) == {e \in committed \cap x.filter : e > cursor}

(* serve has read the subscription: a cursor out of the window is refused,   *)
(* and without a cursor there is nothing to backfill.                        *)
FirstPhase(since) ==
  IF TooOld(since) THEN "over" ELSE IF since = Null THEN "join" ELSE "query"

Asked(f, since, phase) ==
  [phase |-> phase, filter |-> f, cursor |-> since, page |-> {}, full |-> FALSE,
   out |-> <<>>, evicted |-> FALSE, wire |-> <<>>, up |-> TRUE]

Accept(s, f, since) ==
  /\ session[s] = Free
  /\ LET x == Asked(f, since, FirstPhase(since))
     IN  /\ session' = [session EXCEPT ![s] = x]
         /\ missing' = [missing EXCEPT ![s] =
              IF x.phase = "query" THEN After(since, x) ELSE {}]
  /\ owed' = [owed EXCEPT ![s] = <<>>]
  /\ UNCHANGED <<db, bus, mishaps>>

AtMost(n, limit) == IF n < limit THEN n ELSE limit

(* Slip: a full page is taken for the last one. *)
SlipIsFull(rows) == FALSE

IsFull(rows) == Cardinality(rows) = Page

(* What follows when all rows of a page are sent. *)
Onward(full) == IF full THEN "query" ELSE "join"

(* Backfill: the first Page events after the cursor. *)
Backfill(s) ==
  /\ session[s].phase = "query"
  /\ LET rest == After(session[s].cursor, session[s])
     IN  \E rows \in SUBSET rest :
           /\ Cardinality(rows) = AtMost(Cardinality(rest), Page)
           /\ \A r \in rows, x \in rest \ rows : r < x
           /\ session' = [session EXCEPT
                ![s].page  = rows,
                ![s].full  = IsFull(rows),
                ![s].phase = IF rows = {} THEN "join" ELSE "send"]
  /\ UNCHANGED <<db, bus, history, mishaps>>

(* What is written to a connection that is down goes nowhere. *)
Wired(x, e) == IF x.up THEN Append(x.wire, e) ELSE x.wire

(* Slip: the cursor stays where it was. *)
SlipSendBackfilled(s) ==
  /\ session[s].phase = "send"
  /\ \E e \in session[s].page :
       /\ \A r \in session[s].page : e <= r
       /\ session' = [session EXCEPT
            ![s].page   = @ \ {e},
            ![s].wire   = Wired(session[s], e),
            ![s].phase  = IF session[s].page = {e} THEN Onward(session[s].full) ELSE "send"]
       /\ missing' = [missing EXCEPT ![s] = @ \ {e}]
  /\ UNCHANGED <<db, bus, owed, mishaps>>

SendBackfilled(s) ==
  /\ session[s].phase = "send"
  /\ \E e \in session[s].page :
       /\ \A r \in session[s].page : e <= r
       /\ session' = [session EXCEPT
            ![s].page   = @ \ {e},
            ![s].cursor = e,
            ![s].wire   = Wired(session[s], e),
            ![s].phase  = IF session[s].page = {e} THEN Onward(session[s].full) ELSE "send"]
       /\ missing' = [missing EXCEPT ![s] = @ \ {e}]
  /\ UNCHANGED <<db, bus, owed, mishaps>>

(* A query fails: "backfill failed". *)
BackfillFails(s) ==
  /\ session[s].phase \in {"query", "send"}
  /\ Mishap
  /\ session' = [session EXCEPT ![s].phase = "over", ![s].page = {}]
  /\ UNCHANGED <<db, bus, history>>

Write(s) ==
  /\ session[s].phase = "live" /\ session[s].out # <<>>
  /\ session' = [session EXCEPT
       ![s].wire = Wired(session[s], Head(session[s].out)),
       ![s].out  = Tail(@)]
  /\ owed' = [owed EXCEPT ![s] = Tail(@)]
  /\ UNCHANGED <<db, bus, missing, mishaps>>

(* Slip: the removed client's channel is not closed. *)
SlipDrained(x) == FALSE

(* A closed channel still yields what it holds. *)
Drained(x) == x.evicted /\ x.out = <<>>

Ends(s) ==
  /\ session[s].phase = "live" /\ Drained(session[s])
  /\ session' = [session EXCEPT ![s].phase = "over"]
  /\ UNCHANGED <<db, bus, history, mishaps>>

(* A read or a write fails because the connection is gone; serve returns and *)
(* unsubscribes.                                                             *)
Notices(s) ==
  /\ session[s] # Free /\ ~session[s].up
  /\ session' = [session EXCEPT ![s] = Free]
  /\ owed' = [owed EXCEPT ![s] = <<>>] /\ missing' = [missing EXCEPT ![s] = {}]
  /\ UNCHANGED <<db, bus, mishaps>>

-----------------------------------------------------------------------------
(* The other side of the connection *)

Receive(s) ==
  /\ session[s].wire # <<>>
  /\ session' = [session EXCEPT ![s].wire = Tail(@)]
  /\ UNCHANGED <<db, bus, history, mishaps>>

Disconnected(x) == [x EXCEPT !.up = FALSE, !.wire = <<>>]

(* The client hangs up. *)
HangUp(s) ==
  /\ session[s].up
  /\ session' = [session EXCEPT ![s] = Disconnected(@)]
  /\ UNCHANGED <<db, bus, history, mishaps>>

(* The network fails, or a write takes longer than its five seconds. *)
Cut(s) ==
  /\ session[s].up
  /\ Mishap
  /\ session' = [session EXCEPT ![s] = Disconnected(@)]
  /\ UNCHANGED <<db, bus, history>>

Serve(s) ==
  \/ Backfill(s) \/ SendBackfilled(s) \/ Subscribe(s)
  \/ Write(s) \/ Ends(s) \/ Notices(s)

Next ==
  \/ \E t \in Transactions : Commit(t)
  \/ Age \/ ListenerStarts \/ ListenerStops \/ Publish
  \/ \E s \in Sessions :
       \/ \E f \in Filters, since \in committed \cup {Null} : Accept(s, f, since)
       \/ Serve(s) \/ BackfillFails(s)
       \/ Receive(s) \/ HangUp(s) \/ Cut(s)

Spec == Init /\ [][Next]_streamVars

(* Goroutines that can run do run. *)
Fairness ==
  /\ WF_streamVars(ListenerStarts) /\ WF_streamVars(Publish)
  /\ \A s \in Sessions : WF_streamVars(Serve(s))

FairSpec == Spec /\ Fairness

-----------------------------------------------------------------------------
(* Properties *)

(* A session's stream has no hole: what waits to be written is exactly what  *)
(* was published for it since it subscribed and is not written yet, in       *)
(* order.  A client that is too slow gets a prefix of that and is then       *)
(* closed, so it knows that it must come back.                               *)
LiveStreamHasNoHoles ==
  \A s \in Sessions : session[s].phase = "live" =>
    LET out == session[s].out
    IN  IF session[s].evicted
        THEN Len(out) < Len(owed[s]) /\ \A i \in 1..Len(out) : out[i] = owed[s][i]
        ELSE out = owed[s]

(* When a session goes over to live events, everything that was committed    *)
(* after its cursor when it began has been sent, whatever commits meanwhile  *)
(* and however many pages it takes.                                          *)
BackfillIsComplete ==
  \A s \in Sessions : session[s].phase \in {"join", "live"} => missing[s] = {}

(* A session sends each backfilled event once, in the order of cursors.      *)
BackfillAscends ==
  [][\A s \in Sessions :
       SendBackfilled(s) => session'[s].cursor > session[s].cursor]_streamVars

(* Backfilling comes to an end, although every page may have become longer   *)
(* while it was sent.                                                        *)
BackfillEnds ==
  \A s \in Sessions :
    session[s].phase \in {"query", "send"} ~> session[s].phase \notin {"query", "send"}

===============================================================================
