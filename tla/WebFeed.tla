-------------------------------- MODULE WebFeed --------------------------------
(***************************************************************************)
(* The web UI's live feed (internal/api/web/static/app.js) composed with   *)
(* the server's event stream: one browser page that opens a socket,        *)
(* subscribes from its last cursor, shows what arrives, and opens another  *)
(* socket when one closes or when the user changes the filters.            *)
(***************************************************************************)
EXTENDS EventStream

CONSTANTS
  NoSocket,     (* no socket has been opened yet                           *)
  FirstFilter,  (* the filters the page starts with                        *)
  MaxChanges    (* bound: changes of the filters                           *)

ASSUME UIStartsTyped ==
  NoSocket \notin Sessions /\ FirstFilter \in Filters /\ MaxChanges \in Nat

VARIABLES
  ws,         (* state.ws                                                  *)
  view,       (* the browser's state of each socket                        *)
  timers,     (* reconnect timers that have not fired                      *)
  latest,     (* state.reconnectTimer is one of them                       *)
  pill,       (* the text of #ws-status                                    *)
  wanted,     (* state.eventFilters                                        *)
  lastCursor, (* state.lastCursor                                          *)
  seen,       (* state.eventIds                                            *)
  changes,
  due         (* history: events that a gapless feed would have to show    *)

ui   == <<ws, view, timers, latest, pill, wanted, lastCursor, seen, changes>>
vars == <<streamVars, ui, due>>

(* The page has loaded its first events and calls connectEventsSocket: the   *)
(* same as a timer that is about to fire.                                    *)
UIInit ==
  /\ Init
  /\ ws = NoSocket /\ view = [s \in Sessions |-> "none"]
  /\ timers = 1 /\ latest = FALSE
  /\ pill = "connecting"
  /\ wanted = FirstFilter /\ lastCursor = Null /\ seen = {}
  /\ changes = 0 /\ due = {}

-----------------------------------------------------------------------------
(* connectEventsSocket *)

(* clearTimeout(state.reconnectTimer), with n timers that have not fired. *)
ClearTimeout(n, named) ==
  /\ timers' = IF named THEN n - 1 ELSE n
  /\ latest' = FALSE

(* state.ws is closed, if it is not yet, and its close event will follow; a  *)
(* new socket takes its place.                                               *)
Connect ==
  \E s \in Sessions :
    /\ s # ws /\ view[s] = "none" /\ session[s] = Free
    /\ ws' = s
    /\ view' = [t \in Sessions |->
         IF t = s THEN "connecting"
         ELSE IF t = ws /\ view[t] # "none" THEN "closing" ELSE view[t]]
    /\ session' = IF ws # NoSocket /\ session[ws].up
                  THEN [session EXCEPT ![ws] = Disconnected(@)] ELSE session
    /\ pill' = "connecting"

UnchangedByConnect == <<db, bus, history, mishaps>>

(* Timers have one delay, so the earliest is not state.reconnectTimer unless *)
(* it is the only one.                                                       *)
TimerFires ==
  /\ timers > 0
  /\ ClearTimeout(timers - 1, latest /\ timers > 1)
  /\ Connect
  /\ UNCHANGED <<UnchangedByConnect, wanted, lastCursor, seen, changes, due>>

(* resetEventsFeed and connectEventsSocket. *)
ChangeFilter(f) ==
  /\ changes < MaxChanges
  /\ changes' = changes + 1
  /\ wanted' = f
  /\ lastCursor' = Null /\ seen' = {} /\ due' = {}
  /\ ClearTimeout(timers, latest)
  /\ Connect
  /\ UNCHANGED UnchangedByConnect

-----------------------------------------------------------------------------
(* The socket's events *)

Opens(s) ==
  /\ view[s] = "connecting"
  /\ Accept(s, wanted, lastCursor)
  /\ view' = [view EXCEPT ![s] = "open"]
  /\ pill' = "live"
  /\ UNCHANGED <<ws, timers, latest, wanted, lastCursor, seen, changes, due>>

(* addEvent. *)
Shown(e) == IF e \in wanted THEN seen \cup {e} ELSE seen

Message(s) ==
  /\ view[s] = "open"
  /\ Receive(s)
  /\ lastCursor' = Head(session[s].wire)
  /\ seen' = Shown(Head(session[s].wire))
  /\ UNCHANGED <<ws, view, timers, latest, pill, wanted, changes, due>>

(* The connection is down, or the server closed it and everything it wrote   *)
(* has been received.                                                        *)
HasClosed(s) ==
  \/ view[s] \in {"closing", "open"} /\ ~session[s].up
  \/ view[s] = "open" /\ session[s].phase = "over" /\ session[s].wire = <<>>

(* The handler of the close event does not ask which socket has closed. *)
Reconnecting(s) ==
  /\ view' = [view EXCEPT ![s] = "none"]
  /\ pill' = "reconnecting"
  /\ timers' = timers + 1 /\ latest' = TRUE
  /\ UNCHANGED <<db, bus, history, ws, wanted, lastCursor, seen, changes, due>>

Closes(s) ==
  /\ HasClosed(s)
  /\ session' = [session EXCEPT ![s] = Disconnected(@)]
  /\ Reconnecting(s)
  /\ UNCHANGED mishaps

(* The connection cannot be established. *)
FailsToOpen(s) ==
  /\ view[s] = "connecting"
  /\ Mishap
  /\ Reconnecting(s)
  /\ UNCHANGED session

-----------------------------------------------------------------------------
(* The server's steps, with the history of what the UI is due *)

(* The page could still get the event from its cursor or from its session. *)
Newest(t) == Range(t) \cap {e \in Events : \A x \in committed : x < e}

CommitFor(t) ==
  /\ Commit(t)
  /\ due' = IF listening /\ lastCursor # Null THEN due \cup (Newest(t) \cap wanted) ELSE due
  /\ UNCHANGED ui

(* An outage of LISTEN excuses what it loses. *)
ListenerStopsFor ==
  /\ ListenerStops
  /\ due' = due \ (Range(notified) \ Range(notified'))
  /\ UNCHANGED ui

(* An event published between the last query of a backfill and Subscribe. *)
InGap(x, e) ==
  \/ x.phase = "join" /\ e > x.cursor
  \/ x.phase = "send" /\ ~x.full /\ e > x.cursor /\ e \notin x.page

PublishFor ==
  /\ Publish
  /\ due' = IF ws # NoSocket /\ InGap(session[ws], Head(notified))
            THEN due \ {Head(notified)} ELSE due
  /\ UNCHANGED ui

ServerStep ==
  /\ \/ Age \/ ListenerStarts
     \/ \E s \in Sessions : Serve(s) \/ BackfillFails(s) \/ Cut(s)
  /\ UNCHANGED <<ui, due>>

UINext ==
  \/ \E t \in Transactions : CommitFor(t)
  \/ ListenerStopsFor \/ PublishFor \/ ServerStep
  \/ TimerFires
  \/ \E f \in Filters : ChangeFilter(f)
  \/ \E s \in Sessions : Opens(s) \/ Message(s) \/ Closes(s) \/ FailsToOpen(s)

UISpec == UIInit /\ [][UINext]_vars

(* The server's goroutines run; the browser delivers its events and fires    *)
(* its timers.                                                               *)
UIFairness ==
  /\ WF_vars(PublishFor) /\ WF_vars(ListenerStarts /\ UNCHANGED <<ui, due>>)
  /\ \A s \in Sessions :
       /\ WF_vars(Serve(s) /\ UNCHANGED <<ui, due>>)
       /\ WF_vars(Opens(s)) /\ WF_vars(Message(s)) /\ WF_vars(Closes(s))
  /\ WF_vars(TimerFires)

FairUISpec == UISpec /\ UIFairness

-----------------------------------------------------------------------------
(* Properties *)

(* Events that the page's socket still brings, or that it will ask for. *)
Resumes == ws = NoSocket \/ view[ws] # "open" \/ ~session[ws].up

Pending ==
  LET x       == session[ws]
      held    == Range(x.wire) \cup Range(x.out)
      closing == x.phase = "over" \/ x.evicted
  IN  IF Resumes THEN {e \in Events : e > lastCursor}
      ELSE Range(notified) \cup held \cup x.page
             \cup {e \in Events :
                    \/ x.phase = "query" /\ e > x.cursor
                    \/ x.phase = "send" /\ x.full /\ \A r \in x.page : e > r
                    \/ closing /\ \A r \in held \cup {lastCursor} : e > r}

(* No event is lost without one of the causes that due leaves out: an outage *)
(* of LISTEN, a commit out of order, the gap between the last query of a     *)
(* backfill and Subscribe, or no cursor to resume from.  Slow clients, lost  *)
(* connections, failed queries and reconnects cost nothing.                  *)
NothingElseIsLost == due \subseteq seen \cup Pending

LiveAgain ==
  ws # NoSocket /\ view[ws] = "open" /\ Registered(session[ws]) /\ pill = "live"

(* After any of the failures the page gets back to a socket with a live      *)
(* session, and says so, again and again, as long as nobody changes the      *)
(* filters.  After a change the close event of the old socket marks the new  *)
(* one as reconnecting and arms the timer that will close it.                *)
FeedComesBack == [](changes = 0) => []<>LiveAgain

===============================================================================
