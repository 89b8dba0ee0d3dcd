------------------------------ MODULE BotCommands ------------------------------
(***************************************************************************)
(* The Telegram bot: long polling of updates (internal/tg/bot.go), the     *)
(* commands and the setup wizard (internal/tg/commands: handler.go,        *)
(* interactive.go) and the rules they write (repository.go), by several    *)
(* replicas of one bot.  Each replica handles one update at a time, keeps  *)
(* the wizard's sessions in its memory, and counts a chat's rules in one   *)
(* statement before it inserts in another.                                 *)
(***************************************************************************)
EXTENDS Integers, Sequences, FiniteSets

CONSTANTS
  Replicas,
  Chats,
  Allowed,    (* chats that TELEGRAM_ALLOWED_CHATS lets in                     *)
  Steps,      (* of the wizard: "exchange", "token", "chain"                   *)
  Options,    (* the slugs each step offers, in order                          *)
  Buttons,    (* the slugs a button may carry: keyboards may be older than Options *)
  Known,      (* per step: references the database can resolve                 *)
  Wild,       (* wildcard, no filter                                           *)
  Cap,        (* maxRulesPerChat                                               *)
  Scripts,    (* bound: what the users may send, one after the other: [chat, do], with *)
              (* step, slug, filter or rule                                    *)
  MaxMishaps  (* bound: crashes and failed statements                          *)

Slugs  == UNION {Buttons[s] : s \in Steps}
Filter == [Steps -> Slugs \cup {Wild}]
Picks  == [Steps -> SUBSET Slugs]

(* Callback buttons and commands.  look: all that changes nothing; other: not a command. *)
Deeds == {"toggle", "any", "start", "cancel", "save", "all", "reset",
          "subscribe", "unsubscribe", "look", "other"}

ASSUME BotAssumption ==
  /\ Steps = {"exchange", "token", "chain"} /\ Allowed \subseteq Chats
  /\ IsFiniteSet(Replicas) /\ Replicas # {} /\ Wild \notin Slugs
  /\ Cap \in Nat \ {0} /\ MaxMishaps \in Nat
  /\ \A s \in Steps : Options[s] \in Seq(Buttons[s]) /\ Known[s] \subseteq Slugs
  /\ \A s \in Scripts : /\ Len(s) \in Nat
                        /\ \A n \in 1..Len(s) : s[n].chat \in Chats /\ s[n].do \in Deeds

(* demoExchangeOptions, demoTokenOptions and demoChainOptions name no slug twice. *)
ASSUME OptionsAreDistinct ==
  \A s \in Steps : \A i, k \in DOMAIN Options[s] : Options[s][i] = Options[s][k] => i = k

VARIABLES
  script,   (* one of Scripts                                                  *)
  queue,    (* Telegram: updates that are not confirmed                        *)
  sent,     (* Telegram: updates so far                                        *)
  bot,      (* the replicas                                                    *)
  rules,    (* alert_rules of each chat                                        *)
  serial,   (* the sequence of alert_rules.id                                  *)
  ideal,    (* history: rules and sessions if each update ran once, at once    *)
  begun,    (* history: how often each replica has handed each update to its handler *)
  finished, (* history: updates a handler has returned from                    *)
  lives,    (* history: processes each replica has started                       *)
  mishaps   (* counts crashes and failed statements                            *)

chatvars == <<rules, serial>>
history  == <<ideal, begun, finished, lives>>
vars     == <<script, queue, sent, bot, rules, serial, ideal, begun, finished, lives, mishaps>>

Ids        == 1..Len(script)
NewSession == [s \in Steps |-> {}]
NoSessions == [c \in Chats |-> NewSession]
Idle       == [at |-> "idle", todo |-> <<>>]

(* A session that is missing reads as a new one.  AllTokens and AllChains hold iff no *)
(* token, no chain is picked; AllExchanges never holds.                        *)
Fresh == [up |-> TRUE, offset |-> 0, batch |-> <<>>, hand |-> Idle, session |-> NoSessions]

-----------------------------------------------------------------------------
(* The wizard *)

(* toggleSet *)
Toggled(picks, step, slug) ==
  [picks EXCEPT ![step] = IF slug \in @ THEN @ \ {slug} ELSE @ \cup {slug}]

(* selectedSlugs: in the order of the options, and only those that are offered. *)
Selected(picks, step) ==
  LET places == {i \in DOMAIN Options[step] : Options[step][i] \in picks[step]}
  IN  [k \in 1..Cardinality(places) |->
         Options[step][CHOOSE i \in places : Cardinality({j \in places : j <= i}) = k]]

OrAny(slugs) == IF slugs = <<>> THEN <<Wild>> ELSE slugs

(* Every x with every t with every c, in this order. *)
Combined(x, t, c) ==
  [i \in 1..(Len(x) * Len(t) * Len(c)) |->
     [exchange |-> x[((i - 1) \div (Len(t) * Len(c))) + 1],
      token    |-> t[(((i - 1) \div Len(c)) % Len(t)) + 1],
      chain    |-> c[((i - 1) % Len(c)) + 1]]]

(* Slip: an exchange that is no longer offered counts as any. *)
SlipProduct(picks) ==
  Combined(OrAny(Selected(picks, "exchange")), OrAny(Selected(picks, "token")),
           OrAny(Selected(picks, "chain")))

(* buildDemoSubscribeCommands *)
Product(picks) ==
  Combined(Selected(picks, "exchange"), OrAny(Selected(picks, "token")),
           OrAny(Selected(picks, "chain")))

(* scope:all overrides the tokens and chains that were picked. *)
Everywhere(picks) == [picks EXCEPT !["token"] = {}, !["chain"] = {}]

(* The rules that an update wants, none if no exchange is picked. *)
Wanted(u, picks) ==
  CASE u.do = "subscribe" -> <<u.filter>>
    [] u.do = "save"      -> IF picks["exchange"] = {} THEN <<>> ELSE Product(picks)
    [] u.do = "all"       -> IF picks["exchange"] = {} THEN <<>> ELSE Product(Everywhere(picks))
    [] OTHER              -> <<>>

(* What the other updates make of a session. *)
Picked(u, picks) ==
  CASE u.do = "toggle"            -> Toggled(picks, u.step, u.slug)
    [] u.do = "any"               -> [picks EXCEPT ![u.step] = {}]
    [] u.do \in {"start", "cancel"} -> NewSession
    [] OTHER                      -> picks

-----------------------------------------------------------------------------
(* Rules *)

(* resolveReference *)
Resolvable(f) == \A s \in Steps : f[s] = Wild \/ f[s] \in Known[s]

Rule(id, f) == [id |-> id, filter |-> f]

Without(some, id) == {x \in some : x.id # id}

(* The reference for what follows: an update that runs alone, at once. *)
Ideally(now, u) ==
  LET cmds  == Wanted(u, now.session[u.chat])
      old   == now.rules[u.chat]
      Fits(n) == /\ n = 0 \/ Cardinality(old) + n <= Cap
                 /\ \A i \in 1..n : Resolvable(cmds[i])
      saved == CHOOSE n \in 0..Len(cmds) : Fits(n) /\ \A k \in (n + 1)..Len(cmds) : ~Fits(k)
      fresh == {Rule(now.serial + i, cmds[i]) : i \in 1..saved}
  IN  IF u.chat \notin Allowed THEN now
      ELSE [rules   |-> [now.rules EXCEPT ![u.chat] =
                          CASE u.do = "reset"       -> {}
                            [] u.do = "unsubscribe" -> Without(@, u.rule)
                            [] OTHER                -> @ \cup fresh],
            serial  |-> now.serial + saved,
            session |-> [now.session EXCEPT ![u.chat] =
                          IF \/ u.do = "reset"
                             \/ u.do \in {"save", "all"} /\ cmds # <<>> /\ saved = Len(cmds)
                          THEN NewSession ELSE Picked(u, @)]]

-----------------------------------------------------------------------------
Init ==
  /\ script \in Scripts /\ queue = <<>> /\ sent = 0
  /\ bot = [r \in Replicas |-> Fresh]
  /\ rules = [c \in Chats |-> {}] /\ serial = 0
  /\ ideal = [rules |-> rules, serial |-> 0, session |-> NoSessions]
  /\ begun = [i \in Ids |-> [r \in Replicas |-> 0]] /\ finished = {}
  /\ lives = [r \in Replicas |-> 1] /\ mishaps = 0

(* A user sends a command or presses a button. *)
Send ==
  /\ sent < Len(script)
  /\ queue' = Append(queue, [id |-> sent + 1, input |-> script[sent + 1]])
  /\ ideal' = Ideally(ideal, script[sent + 1])
  /\ sent' = sent + 1
  /\ UNCHANGED <<script, bot, chatvars, begun, finished, lives, mishaps>>

(* What getUpdates(offset) leaves with Telegram: it confirms the updates before, the *)
(* first n.                                                                    *)
Unconfirmed(offset) ==
  LET n == CHOOSE n \in 0..Len(queue) :
             \A k \in 1..Len(queue) : queue[k].id < offset <=> k <= n
  IN  SubSeq(queue, n + 1, Len(queue))

(* getUpdates: its answer may get lost, and it may come back empty. *)
Poll(r) ==
  /\ bot[r].up /\ bot[r].batch = <<>>
  /\ queue' = Unconfirmed(bot[r].offset)
  /\ \/ bot' = [bot EXCEPT ![r].batch = queue']
     \/ bot' = bot
  /\ UNCHANGED <<script, sent, chatvars, history, mishaps>>

(* Slip: the offset stays at the update it came with. *)
SlipOnward(b) == [b EXCEPT !.offset = Head(b.batch).id, !.batch = Tail(@)]

Onward(b) ==
  [b EXCEPT !.offset = IF Head(b.batch).id >= @ THEN Head(b.batch).id + 1 ELSE @,
            !.batch = Tail(@)]

(* Slip: an update that comes while the handler is busy is dropped. *)
SlipReceive(r) ==
  /\ bot[r].up /\ bot[r].batch # <<>> /\ Head(bot[r].batch).input.do # "other"
  /\ IF bot[r].hand.at = "idle"
     THEN /\ bot' = [bot EXCEPT ![r] = [Onward(@) EXCEPT
                       !.hand = [at |-> "begin", todo |-> <<>>, update |-> Head(bot[r].batch)]]]
          /\ begun' = [begun EXCEPT ![Head(bot[r].batch).id][r] = @ + 1]
     ELSE bot' = [bot EXCEPT ![r] = Onward(@)] /\ UNCHANGED begun
  /\ UNCHANGED <<script, queue, sent, chatvars, ideal, finished, lives, mishaps>>

(* out <- msg: the channel has no buffer, so the handler must have returned. *)
Receive(r) ==
  /\ bot[r].up /\ bot[r].batch # <<>> /\ Head(bot[r].batch).input.do # "other"
  /\ bot[r].hand.at = "idle"
  /\ bot' = [bot EXCEPT ![r] = [Onward(@) EXCEPT
                !.hand = [at |-> "begin", todo |-> <<>>, update |-> Head(bot[r].batch)]]]
  /\ begun' = [begun EXCEPT ![Head(bot[r].batch).id][r] = @ + 1]
  /\ UNCHANGED <<script, queue, sent, chatvars, ideal, finished, lives, mishaps>>

(* toCommandMessage finds neither text nor button. *)
Skip(r) ==
  /\ bot[r].up /\ bot[r].batch # <<>> /\ Head(bot[r].batch).input.do = "other"
  /\ bot' = [bot EXCEPT ![r] = Onward(@)]
  /\ begun' = [begun EXCEPT ![Head(bot[r].batch).id][r] = @ + 1]
  /\ finished' = finished \cup {Head(bot[r].batch).id}
  /\ UNCHANGED <<script, queue, sent, chatvars, ideal, lives, mishaps>>

-----------------------------------------------------------------------------
(* Handle *)

Now(r)  == bot[r].hand.update.input
Mine(r) == bot[r].session[Now(r).chat]
At(r, phase) == bot[r].up /\ bot[r].hand.at = phase

(* The handler returns and leaves the chat this session. *)
Returns(r, picks) ==
  /\ bot' = [bot EXCEPT ![r].hand = Idle, ![r].session[Now(r).chat] = picks]
  /\ finished' = finished \cup {bot[r].hand.update.id}

(* A chat that is not let in. *)
Ignore(r) ==
  /\ At(r, "begin") /\ Now(r).chat \notin Allowed
  /\ Returns(r, Mine(r))
  /\ UNCHANGED <<script, queue, sent, chatvars, ideal, begun, lives, mishaps>>

(* handleStart, handleList, handleStatus and help: they read, and reply. *)
Answer(r) ==
  /\ At(r, "begin") /\ Now(r).chat \in Allowed /\ Now(r).do = "look"
  /\ Returns(r, Mine(r))
  /\ UNCHANGED <<script, queue, sent, chatvars, ideal, begun, lives, mishaps>>

(* handleCallback: the buttons of the wizard, and those that save when nothing is picked. *)
Press(r) ==
  /\ At(r, "begin") /\ Now(r).chat \in Allowed
  /\ Now(r).do \in {"toggle", "any", "start", "cancel", "save", "all"}
  /\ Wanted(Now(r), Mine(r)) = <<>>
  /\ Returns(r, Picked(Now(r), Mine(r)))
  /\ UNCHANGED <<script, queue, sent, chatvars, ideal, begun, lives, mishaps>>

(* handleSubscribe, saveDemoRules: the rules to create, from a snapshot of the session. *)
BeginCreate(r) ==
  /\ At(r, "begin") /\ Now(r).chat \in Allowed
  /\ Wanted(Now(r), Mine(r)) # <<>>
  /\ bot' = [bot EXCEPT ![r].hand.at = "count", ![r].hand.todo = Wanted(Now(r), Mine(r))]
  /\ UNCHANGED <<script, queue, sent, chatvars, history, mishaps>>

(* Slip: one too many. *)
SlipHasRoom(c) == Cardinality(rules[c]) <= Cap

HasRoom(c) == Cardinality(rules[c]) < Cap

(* Slip: it waits until there is room, or the reference known. *)
SlipCount(r) ==
  /\ At(r, "count")
  /\ HasRoom(Now(r).chat) /\ Resolvable(Head(bot[r].hand.todo))
  /\ bot' = [bot EXCEPT ![r].hand.at = "insert"]
  /\ UNCHANGED <<script, queue, sent, chatvars, history, mishaps>>

(* CreateRule counts the rules of the chat; a full chat, or a reference that is not *)
(* known, ends the command: what was saved stays, the session too.             *)
Count(r) ==
  /\ At(r, "count")
  /\ IF HasRoom(Now(r).chat) /\ Resolvable(Head(bot[r].hand.todo))
     THEN bot' = [bot EXCEPT ![r].hand.at = "insert"] /\ UNCHANGED finished
     ELSE Returns(r, Mine(r))
  /\ UNCHANGED <<script, queue, sent, chatvars, ideal, begun, lives, mishaps>>

Inserted(c, f) == [rules EXCEPT ![c] = @ \cup {Rule(serial + 1, f)}]

(* Slip: the session survives its save. *)
SlipAfterwards(r) == Mine(r)

(* deleteDemoSession, once the wizard has saved everything. *)
Afterwards(r) == IF Now(r).do = "subscribe" THEN Mine(r) ELSE NewSession

(* CreateRule inserts; then the next rule, or the end. *)
Insert(r) ==
  /\ At(r, "insert")
  /\ rules' = Inserted(Now(r).chat, Head(bot[r].hand.todo)) /\ serial' = serial + 1
  /\ IF Tail(bot[r].hand.todo) # <<>>
     THEN /\ bot' = [bot EXCEPT ![r].hand.at = "count", ![r].hand.todo = Tail(@)]
          /\ UNCHANGED finished
     ELSE Returns(r, Afterwards(r))
  /\ UNCHANGED <<script, queue, sent, ideal, begun, lives, mishaps>>

(* DeleteRule: only the chat's own. *)
Unsubscribe(r) ==
  /\ At(r, "begin") /\ Now(r).chat \in Allowed /\ Now(r).do = "unsubscribe"
  /\ rules' = [rules EXCEPT ![Now(r).chat] = Without(@, Now(r).rule)]
  /\ Returns(r, Mine(r))
  /\ UNCHANGED <<script, queue, sent, serial, ideal, begun, lives, mishaps>>

(* DeleteRules: the rules, then the queued jobs, then the session. *)
Reset(r) ==
  /\ At(r, "begin") /\ Now(r).chat \in Allowed /\ Now(r).do = "reset"
  /\ rules' = [rules EXCEPT ![Now(r).chat] = {}]
  /\ bot' = [bot EXCEPT ![r].hand.at = "jobs"]
  /\ UNCHANGED <<script, queue, sent, serial, history, mishaps>>

ResetJobs(r) ==
  /\ At(r, "jobs") /\ Returns(r, NewSession)
  /\ UNCHANGED <<script, queue, sent, chatvars, ideal, begun, lives, mishaps>>

-----------------------------------------------------------------------------
(* Failures *)

(* A statement fails: Run logs it, the session stays.  An insert whose answer is lost *)
(* has happened.                                                               *)
StatementFails(r) ==
  /\ mishaps < MaxMishaps /\ mishaps' = mishaps + 1
  /\ \/ At(r, "count") \/ At(r, "insert") \/ At(r, "jobs")
     \/ At(r, "begin") /\ Now(r).do \in {"reset", "unsubscribe"}
  /\ \/ UNCHANGED chatvars
     \/ /\ At(r, "insert") /\ serial' = serial + 1
        /\ rules' = Inserted(Now(r).chat, Head(bot[r].hand.todo))
  /\ Returns(r, Mine(r))
  /\ UNCHANGED <<script, queue, sent, ideal, begun, lives>>

(* The process dies, with its sessions, its batch and what it had in hand. *)
Crash(r) ==
  /\ bot[r].up /\ mishaps < MaxMishaps
  /\ mishaps' = mishaps + 1
  /\ bot' = [bot EXCEPT ![r] = [Fresh EXCEPT !.up = FALSE]]
  /\ UNCHANGED <<script, queue, sent, chatvars, history>>

Restart(r) ==
  /\ ~bot[r].up
  /\ bot' = [bot EXCEPT ![r] = Fresh] /\ lives' = [lives EXCEPT ![r] = @ + 1]
  /\ UNCHANGED <<script, queue, sent, chatvars, ideal, begun, finished, mishaps>>

-----------------------------------------------------------------------------
Handle(r) == \/ Ignore(r) \/ Answer(r) \/ Press(r) \/ BeginCreate(r) \/ Count(r) \/ Insert(r)
             \/ Unsubscribe(r) \/ Reset(r) \/ ResetJobs(r)

Next ==
  \/ Send
  \/ \E r \in Replicas :
       \/ Poll(r) \/ Receive(r) \/ Skip(r) \/ Handle(r)
       \/ StatementFails(r) \/ Crash(r) \/ Restart(r)

Spec == Init /\ [][Next]_vars

(* The two goroutines of each replica go on, and a process that died is started. A  *)
(* long poll that brings nothing is tried again, and some answer arrives.      *)
Fairness ==
  \A r \in Replicas :
    /\ WF_vars(Handle(r)) /\ WF_vars(Receive(r) \/ Skip(r)) /\ WF_vars(Restart(r))
    /\ SF_vars(Poll(r) /\ bot'[r].batch # <<>>)

FairSpec == Spec /\ Fairness

-----------------------------------------------------------------------------
(* A chat never has more rules than the cap, up to one more for every other *)
(* replica: each counts before it inserts, and one handles one update at a time. *)
RulesWithinCap == \A c \in Chats : Cardinality(rules[c]) <= Cap + Cardinality(Replicas) - 1

(* A process handles no update twice, whatever Telegram sends again: only a restart *)
(* or another replica may run a command again.                                *)
HandledOncePerLife == \A i \in Ids, r \in Replicas : begun[i][r] <= lives[r]

WasBegun(i) == \E r \in Replicas : begun[i][r] > 0

(* Telegram forgets no update that no handler has begun: a crash loses at most *)
(* the command in hand.                                                      *)
ConfirmedWasBegun ==
  \A i \in 1..sent : WasBegun(i) \/ \E k \in 1..Len(queue) : queue[k].id = i

(* A replica that has handled everything, alone and without mishaps, leaves the rules *)
(* and sessions that the updates make when each runs once, at once and in order: *)
(* whatever the statements of a save, the cap, stale buttons and unknown names. *)
SettledAsIfAtomic ==
  \A r \in Replicas :
    /\ mishaps = 0 /\ finished = 1..sent
    /\ \A q \in Replicas \ {r}, i \in Ids : begun[i][q] = 0
    => /\ rules = ideal.rules /\ serial = ideal.serial
       /\ bot[r].session = ideal.session

(* What is picked of a step and still offered, or any. *)
Chosen(picks, step) == {Options[step][k] : k \in DOMAIN Options[step]} \cap picks[step]
OrWild(slugs)       == IF slugs = {} THEN {Wild} ELSE slugs

Meant(picks) ==
  {[exchange |-> x, token |-> t, chain |-> n] :
     x \in Chosen(picks, "exchange"),
     t \in OrWild(Chosen(picks, "token")), n \in OrWild(Chosen(picks, "chain"))}

(* What a save is about to do is every offered exchange that is picked, with every *)
(* token and chain that is, or any if none is, each once.  A picked exchange that  *)
(* is no longer offered adds nothing; picks of such tokens or chains only are as   *)
(* good as none, which is any.                                                     *)
SavesWhatIsPicked ==
  \A r \in Replicas, c \in Chats :
    LET picks == bot[r].session[c]
    IN  picks["exchange"] # {} =>
          /\ {Product(picks)[k] : k \in DOMAIN Product(picks)} = Meant(picks)
          /\ Len(Product(picks)) = Cardinality(Meant(picks))

(* Again and again every update that was sent has got to a handler, after crashes and *)
(* failed statements too.                                                    *)
EveryUpdateIsBegun == []<>(\A i \in 1..sent : WasBegun(i))

===============================================================================
