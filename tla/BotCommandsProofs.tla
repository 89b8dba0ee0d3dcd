--------------------------- MODULE BotCommandsProofs ---------------------------
(***************************************************************************)
(* Theorems about BotCommands for every number of replicas, every cap and  *)
(* any dialogue.                                                           *)
(*                                                                         *)
(* RulesWithinCap: replicas that have counted a chat's rules and not       *)
(* inserted yet are added to the rules that are there: counting lets one   *)
(* in only while there is room, and at most every replica can be in at     *)
(* once.                                                                   *)
(*                                                                         *)
(* Delivery of the updates: the queue is the updates that are not          *)
(* confirmed yet, numbered in sequence, a batch is numbered in sequence    *)
(* too, and everything before a replica's offset or batch has been begun.  *)
(*                                                                         *)
(* What a save is about to do: the rules of a product are told apart by    *)
(* the three digits of their place in it, so that each is listed once.     *)
(*                                                                         *)
(* One replica, alone and without mishaps: the updates it has taken are    *)
(* the first ones, and its handler is midway from what the updates before  *)
(* its own make to what that one makes; a save that has saved j rules goes *)
(* on exactly while j + 1 of them fit.                                     *)
(***************************************************************************)
EXTENDS BotCommands, FiniteSetTheorems, SequenceTheorems, WellFoundedInduction, TLAPS

(* Replicas between the count and the insert of a rule of chat c. *)
Inserting(c) == {r \in Replicas : bot[r].hand.at = "insert" /\ Now(r).chat = c}

Fields == {"up", "offset", "batch", "hand", "session"}

Typed ==
  /\ DOMAIN rules = Chats /\ \A c \in Chats : IsFiniteSet(rules[c])
  /\ DOMAIN bot = Replicas
  /\ \A r \in Replicas :
       /\ DOMAIN bot[r] = Fields /\ {"at", "todo"} \subseteq DOMAIN bot[r].hand
       /\ bot[r].hand.at # "idle" => "update" \in DOMAIN bot[r].hand

Bounded ==
  \A c \in Chats :
    Cardinality(rules[c]) + Cardinality(Inserting(c)) <= Cap + Cardinality(Replicas) - 1

IInv == Typed /\ Bounded

-----------------------------------------------------------------------------
(* Sizes of sets *)

LEMMA ReplicasFinite == IsFiniteSet(Replicas) /\ Cardinality(Replicas) \in Nat \ {0}
<1>1. IsFiniteSet(Replicas) /\ Replicas # {}
  BY BotAssumption
<1> QED
  BY <1>1, FS_CardinalityType, FS_EmptySet

LEMMA InsertingFinite ==
  ASSUME NEW c
  PROVE  /\ IsFiniteSet(Inserting(c)) /\ Cardinality(Inserting(c)) \in Nat
         /\ Cardinality(Inserting(c)) <= Cardinality(Replicas)
<1>1. Inserting(c) \in SUBSET Replicas
  BY DEF Inserting
<1> QED
  BY <1>1, ReplicasFinite, FS_Subset, FS_CardinalityType

LEMMA RulesFinite ==
  ASSUME Typed, NEW c \in Chats
  PROVE  Cardinality(rules[c]) \in Nat
BY FS_CardinalityType DEF Typed

LEMMA SubsetSize ==
  ASSUME NEW S, NEW T, IsFiniteSet(S), T \subseteq S
  PROVE  /\ IsFiniteSet(T) /\ Cardinality(T) \in Nat
         /\ Cardinality(S) \in Nat /\ Cardinality(T) <= Cardinality(S)
BY FS_Subset, FS_CardinalityType

LEMMA OneMore ==
  ASSUME NEW S, NEW x, IsFiniteSet(S)
  PROVE  /\ IsFiniteSet(S \cup {x}) /\ Cardinality(S \cup {x}) \in Nat
         /\ Cardinality(S) \in Nat /\ Cardinality(S \cup {x}) <= Cardinality(S) + 1
<1>1. /\ IsFiniteSet(S \cup {x})
      /\ Cardinality(S \cup {x}) = IF x \in S THEN Cardinality(S) ELSE Cardinality(S) + 1
  BY FS_AddElement
<1>2. Cardinality(S) \in Nat
  BY FS_CardinalityType
<1> QED
  BY <1>1, <1>2

LEMMA OneLess ==
  ASSUME NEW S, NEW x \in S, IsFiniteSet(S)
  PROVE  /\ Cardinality(S \ {x}) \in Nat /\ Cardinality(S) \in Nat
         /\ Cardinality(S \ {x}) = Cardinality(S) - 1 /\ IsFiniteSet(S \ {x})
BY FS_RemoveElement, FS_CardinalityType

-----------------------------------------------------------------------------
(* Steps of one replica *)

(* Only replica r has moved, and it keeps its fields. *)
Moves(r) ==
  /\ DOMAIN bot' = Replicas
  /\ \A q \in Replicas \ {r} : bot'[q] = bot[q]
  /\ DOMAIN bot'[r] = Fields /\ {"at", "todo"} \subseteq DOMAIN bot'[r].hand
  /\ bot'[r].hand.at # "idle" => "update" \in DOMAIN bot'[r].hand

(* A step that brings no replica between count and insert, and no rule. *)
LEMMA NoneEnters ==
  ASSUME IInv, NEW r \in Replicas, Moves(r),
         bot'[r].hand = bot[r].hand \/ bot'[r].hand.at # "insert",
         DOMAIN rules' = Chats, \A c \in Chats : rules'[c] \subseteq rules[c]
  PROVE  IInv'
<1>1. \A c \in Chats : Inserting(c)' \subseteq Inserting(c)
  BY DEF Inserting, Moves, Now
<1>2. ASSUME NEW c \in Chats
      PROVE  /\ IsFiniteSet(rules'[c])
             /\ Cardinality(rules'[c]) + Cardinality(Inserting(c)')
                  <= Cap + Cardinality(Replicas) - 1
  <2>1. /\ IsFiniteSet(rules'[c]) /\ Cardinality(rules'[c]) \in Nat
        /\ Cardinality(rules[c]) \in Nat /\ Cardinality(rules'[c]) <= Cardinality(rules[c])
    BY SubsetSize DEF IInv, Typed
  <2>2. /\ Cardinality(Inserting(c)') \in Nat /\ Cardinality(Inserting(c)) \in Nat
        /\ Cardinality(Inserting(c)') <= Cardinality(Inserting(c))
    BY <1>1, InsertingFinite, SubsetSize
  <2>3. Cap \in Nat /\ Cardinality(Replicas) \in Nat
    BY BotAssumption, ReplicasFinite
  <2> QED
    BY <2>1, <2>2, <2>3 DEF IInv, Bounded
<1>3. Typed'
  BY <1>2 DEF IInv, Typed, Moves
<1> QED
  BY <1>2, <1>3 DEF IInv, Bounded

(* The count lets r in: there is room, and r was not in. *)
LEMMA OneEnters ==
  ASSUME IInv, NEW r \in Replicas, Moves(r), NEW d, HasRoom(d),
         bot'[r].hand.update.input.chat = d, rules' = rules
  PROVE  IInv'
<1>1. ASSUME NEW c \in Chats
      PROVE  Cardinality(rules'[c]) + Cardinality(Inserting(c)')
               <= Cap + Cardinality(Replicas) - 1
  <2>1. /\ Cardinality(rules[c]) \in Nat /\ Cap \in Nat
        /\ Cardinality(Replicas) \in Nat \ {0}
    BY BotAssumption, ReplicasFinite, RulesFinite DEF IInv
  <2>2. CASE c = d
    <3>1. Inserting(c)' \in SUBSET Replicas
      BY DEF Inserting
    <3>2. /\ Cardinality(Inserting(c)') \in Nat
          /\ Cardinality(Inserting(c)') <= Cardinality(Replicas)
      BY <3>1, ReplicasFinite, SubsetSize
    <3>3. Cardinality(rules[c]) < Cap
      BY <2>2 DEF HasRoom
    <3> QED
      BY <2>1, <3>2, <3>3
  <2>3. CASE c # d
    <3>1. Inserting(c)' \subseteq Inserting(c)
      BY <2>3 DEF Inserting, Moves, Now
    <3>2. /\ Cardinality(Inserting(c)') \in Nat /\ Cardinality(Inserting(c)) \in Nat
          /\ Cardinality(Inserting(c)') <= Cardinality(Inserting(c))
      BY <3>1, InsertingFinite, SubsetSize
    <3> QED
      BY <2>1, <3>2 DEF IInv, Bounded
  <2> QED
    BY <2>2, <2>3
<1>2. Typed'
  BY DEF IInv, Typed, Moves
<1> QED
  BY <1>1, <1>2 DEF IInv, Bounded

(* The insert adds one rule to the chat, and r is no longer in. *)
LEMMA OneInserts ==
  ASSUME IInv, NEW r \in Replicas, Moves(r), NEW f,
         bot[r].hand.at = "insert", bot'[r].hand.at # "insert",
         rules' = Inserted(Now(r).chat, f)
  PROVE  IInv'
<1>1. DOMAIN rules' = Chats
  BY DEF Inserted, IInv, Typed
<1>2. ASSUME NEW c \in Chats
      PROVE  /\ IsFiniteSet(rules'[c])
             /\ Cardinality(rules'[c]) + Cardinality(Inserting(c)')
                  <= Cap + Cardinality(Replicas) - 1
  <2>1. Cap \in Nat /\ Cardinality(Replicas) \in Nat /\ IsFiniteSet(rules[c])
    BY BotAssumption, ReplicasFinite DEF IInv, Typed
  <2>2. CASE c = Now(r).chat
    <3>1. rules'[c] = rules[c] \cup {Rule(serial + 1, f)}
      BY <2>2 DEF Inserted, IInv, Typed
    <3>2. /\ IsFiniteSet(rules'[c]) /\ Cardinality(rules'[c]) \in Nat
          /\ Cardinality(rules[c]) \in Nat
          /\ Cardinality(rules'[c]) <= Cardinality(rules[c]) + 1
      <4>1. \A x : /\ IsFiniteSet(rules[c] \cup {x})
                   /\ Cardinality(rules[c] \cup {x}) \in Nat
                   /\ Cardinality(rules[c]) \in Nat
                   /\ Cardinality(rules[c] \cup {x}) <= Cardinality(rules[c]) + 1
        BY <2>1, OneMore
      <4> QED
        BY <3>1, <4>1
    <3>3. r \in Inserting(c)
      BY <2>2 DEF Inserting
    <3>4. Inserting(c)' \subseteq Inserting(c) \ {r}
      BY DEF Inserting, Moves, Now
    <3>5. /\ Cardinality(Inserting(c) \ {r}) \in Nat /\ Cardinality(Inserting(c)) \in Nat
          /\ Cardinality(Inserting(c) \ {r}) = Cardinality(Inserting(c)) - 1
          /\ IsFiniteSet(Inserting(c) \ {r})
      BY <3>3, InsertingFinite, OneLess
    <3>6. /\ Cardinality(Inserting(c)') \in Nat
          /\ Cardinality(Inserting(c)') <= Cardinality(Inserting(c) \ {r})
      BY <3>4, <3>5, SubsetSize
    <3> QED
      BY <2>1, <3>2, <3>5, <3>6 DEF IInv, Bounded
  <2>3. CASE c # Now(r).chat
    <3>1. rules'[c] = rules[c]
      BY <2>3 DEF Inserted, IInv, Typed
    <3>2. Inserting(c)' \subseteq Inserting(c)
      BY DEF Inserting, Moves, Now
    <3>3. /\ Cardinality(Inserting(c)') \in Nat /\ Cardinality(Inserting(c)) \in Nat
          /\ Cardinality(Inserting(c)') <= Cardinality(Inserting(c))
      BY <3>2, InsertingFinite, SubsetSize
    <3>4. Cardinality(rules[c]) \in Nat
      BY RulesFinite DEF IInv
    <3> QED
      BY <2>1, <3>1, <3>3, <3>4 DEF IInv, Bounded
  <2> QED
    BY <2>2, <2>3
<1>3. Typed'
  BY <1>1, <1>2 DEF IInv, Typed, Moves
<1> QED
  BY <1>2, <1>3 DEF IInv, Bounded

(* A handler that returns. *)
LEMMA ReturnsMoves ==
  ASSUME Typed, NEW r \in Replicas, NEW picks, Returns(r, picks)
  PROVE  Moves(r) /\ bot'[r].hand.at # "insert"
<1>1. bot'[r].hand = Idle /\ DOMAIN bot'[r] = Fields
  BY DEF Typed, Returns, Fields
<1>2. DOMAIN bot' = Replicas /\ \A q \in Replicas \ {r} : bot'[q] = bot[q]
  BY DEF Typed, Returns
<1> QED
  BY <1>1, <1>2 DEF Moves, Idle

-----------------------------------------------------------------------------
LEMMA InitIInv == Init => IInv
<1> SUFFICES ASSUME Init PROVE IInv
  OBVIOUS
<1>1. Typed
  BY FS_EmptySet DEF Init, Typed, Fresh, Idle, Fields
<1>2. ASSUME NEW c \in Chats
      PROVE  Cardinality(rules[c]) + Cardinality(Inserting(c)) <= Cap + Cardinality(Replicas) - 1
  <2>1. Inserting(c) = {} /\ rules[c] = {}
    BY DEF Init, Inserting, Fresh, Idle
  <2>2. Cap \in Nat /\ Cardinality(Replicas) \in Nat \ {0}
    BY BotAssumption, ReplicasFinite
  <2> QED
    BY <2>1, <2>2, FS_EmptySet
<1> QED
  BY <1>1, <1>2 DEF IInv, Bounded

LEMMA NextIInv == IInv /\ [Next]_vars => IInv'
<1> SUFFICES ASSUME IInv, [Next]_vars PROVE IInv'
  OBVIOUS
<1> USE DEF IInv
<1>1. CASE UNCHANGED <<bot, rules>>
  BY <1>1 DEF IInv, Typed, Bounded, Inserting, Now
<1>2. ASSUME NEW r \in Replicas, Poll(r) PROVE IInv'
  <2>1. Moves(r) /\ bot'[r].hand = bot[r].hand
    BY <1>2 DEF Poll, Moves, Typed, Fields
  <2> QED
    BY <1>2, <2>1, NoneEnters DEF Poll, Typed, chatvars
<1>3. ASSUME NEW r \in Replicas, Receive(r) PROVE IInv'
  <2>1. Moves(r) /\ bot'[r].hand.at # "insert"
    BY <1>3 DEF Receive, Onward, Moves, Typed, Fields
  <2> QED
    BY <1>3, <2>1, NoneEnters DEF Receive, Typed, chatvars
<1>4. ASSUME NEW r \in Replicas, Skip(r) PROVE IInv'
  <2>1. Moves(r) /\ bot'[r].hand = bot[r].hand
    BY <1>4 DEF Skip, Onward, Moves, Typed, Fields
  <2> QED
    BY <1>4, <2>1, NoneEnters DEF Skip, Typed, chatvars
<1>5. ASSUME NEW r \in Replicas, Answer(r) PROVE IInv'
  <2>1. Moves(r) /\ bot'[r].hand.at # "insert"
    BY <1>5, ReturnsMoves DEF Answer
  <2> QED
    BY <1>5, <2>1, NoneEnters DEF Answer, Typed, chatvars
<1>5b. ASSUME NEW r \in Replicas, Ignore(r) \/ Press(r) PROVE IInv'
  <2>1. Moves(r) /\ bot'[r].hand.at # "insert"
    BY <1>5b, ReturnsMoves DEF Ignore, Press
  <2> QED
    BY <1>5b, <2>1, NoneEnters DEF Ignore, Press, Typed, chatvars
<1>6. ASSUME NEW r \in Replicas, BeginCreate(r) PROVE IInv'
  <2>1. Moves(r) /\ bot'[r].hand.at # "insert"
    BY <1>6 DEF BeginCreate, At, Moves, Typed, Fields
  <2> QED
    BY <1>6, <2>1, NoneEnters DEF BeginCreate, Typed, chatvars
<1>7. ASSUME NEW r \in Replicas, Count(r) PROVE IInv'
  <2>1. CASE HasRoom(Now(r).chat) /\ bot' = [bot EXCEPT ![r].hand.at = "insert"]
    <3>1. Moves(r) /\ bot'[r].hand = [bot[r].hand EXCEPT !.at = "insert"]
      BY <1>7, <2>1 DEF Moves, Typed, Fields, Count, At
    <3>2. bot'[r].hand.update.input.chat = Now(r).chat
      BY <1>7, <3>1 DEF Now, Typed, Count, At
    <3> QED
      BY <1>7, <2>1, <3>1, <3>2, OneEnters DEF Count, chatvars
  <2>2. CASE Returns(r, Mine(r))
    BY <1>7, <2>2, ReturnsMoves, NoneEnters DEF Count, Typed, chatvars
  <2> QED
    BY <1>7, <2>1, <2>2 DEF Count
<1>8. ASSUME NEW r \in Replicas, Insert(r) PROVE IInv'
  <2>1. Moves(r) /\ bot'[r].hand.at # "insert"
    <3>1. CASE bot' = [bot EXCEPT ![r].hand.at = "count", ![r].hand.todo = Tail(@)]
      BY <1>8, <3>1 DEF Insert, At, Moves, Typed, Fields
    <3>2. CASE Returns(r, Afterwards(r))
      BY <3>2, ReturnsMoves
    <3> QED
      BY <1>8, <3>1, <3>2 DEF Insert
  <2> QED
    BY <1>8, <2>1, OneInserts DEF Insert, At
<1>9. ASSUME NEW r \in Replicas, Unsubscribe(r) PROVE IInv'
  <2>1. Moves(r) /\ bot'[r].hand.at # "insert"
    BY <1>9, ReturnsMoves DEF Unsubscribe
  <2>2. DOMAIN rules' = Chats /\ \A c \in Chats : rules'[c] \subseteq rules[c]
    BY <1>9 DEF Unsubscribe, Without, Typed
  <2> QED
    BY <2>1, <2>2, NoneEnters
<1>10. ASSUME NEW r \in Replicas, Reset(r) PROVE IInv'
  <2>1. Moves(r) /\ bot'[r].hand.at # "insert"
    BY <1>10 DEF Reset, At, Moves, Typed, Fields
  <2>2. DOMAIN rules' = Chats /\ \A c \in Chats : rules'[c] \subseteq rules[c]
    BY <1>10 DEF Reset, Typed
  <2> QED
    BY <2>1, <2>2, NoneEnters
<1>11. ASSUME NEW r \in Replicas, ResetJobs(r) PROVE IInv'
  BY <1>11, ReturnsMoves, NoneEnters DEF ResetJobs, Typed, chatvars
<1>12. ASSUME NEW r \in Replicas, StatementFails(r) PROVE IInv'
  <2>1. Moves(r) /\ bot'[r].hand.at # "insert"
    BY <1>12, ReturnsMoves DEF StatementFails
  <2>2. CASE UNCHANGED chatvars
    BY <2>1, <2>2, NoneEnters DEF Typed, chatvars
  <2>3. CASE At(r, "insert") /\ rules' = Inserted(Now(r).chat, Head(bot[r].hand.todo))
    BY <2>1, <2>3, OneInserts DEF At
  <2> QED
    BY <1>12, <2>2, <2>3 DEF StatementFails
<1>13. ASSUME NEW r \in Replicas, Crash(r) PROVE IInv'
  <2>1. Moves(r) /\ bot'[r].hand.at # "insert"
    BY <1>13 DEF Crash, Fresh, Idle, Moves, Typed, Fields
  <2> QED
    BY <1>13, <2>1, NoneEnters DEF Crash, Typed, chatvars
<1>14. ASSUME NEW r \in Replicas, Restart(r) PROVE IInv'
  <2>1. Moves(r) /\ bot'[r].hand.at # "insert"
    BY <1>14 DEF Restart, Fresh, Idle, Moves, Typed, Fields
  <2> QED
    BY <1>14, <2>1, NoneEnters DEF Restart, Typed, chatvars
<1>15. CASE Send
  BY <1>15, <1>1 DEF Send, chatvars
<1>16. CASE UNCHANGED vars
  BY <1>16, <1>1 DEF vars
<1> QED
  BY <1>2, <1>3, <1>4, <1>5, <1>6, <1>7, <1>8, <1>9, <1>10, <1>11, <1>12, <1>13, <1>14,
     <1>15, <1>16, <1>5b DEF Next, Handle

(* Rules and replicas about to insert one together stay below the cap and one for *)
(* each further replica.                                                     *)
THEOREM Invariance == Spec => []IInv
BY InitIInv, NextIInv, PTL DEF Spec

(* RulesWithinCap: the cap of CreateRule (repository.go:58), for every number of *)
(* replicas that share the table.                                            *)
THEOREM CapHolds == Spec => []RulesWithinCap
<1>1. IInv => RulesWithinCap
  <2> SUFFICES ASSUME IInv, NEW c \in Chats
               PROVE  Cardinality(rules[c]) <= Cap + Cardinality(Replicas) - 1
    BY DEF RulesWithinCap
  <2>1. Cardinality(rules[c]) \in Nat /\ Cardinality(Inserting(c)) \in Nat
    BY RulesFinite, InsertingFinite DEF IInv
  <2>2. Cap \in Nat /\ Cardinality(Replicas) \in Nat
    BY BotAssumption, ReplicasFinite
  <2> QED
    BY <2>1, <2>2 DEF IInv, Bounded
<1> QED
  BY <1>1, Invariance, PTL

-----------------------------------------------------------------------------
(* Delivery: what Telegram still holds, what a replica has fetched and what has begun. *)

Updates == {[id |-> i, input |-> script[i]] : i \in Ids}

(* Updates with consecutive ids, the last of them sent. *)
Consecutive(q) == \A k \in 1..Len(q) : q[k].id = q[1].id + k - 1

HistoryTyped ==
  /\ Len(script) \in Nat /\ sent \in 0..Len(script)
  /\ begun \in [Ids -> [Replicas -> Nat]] /\ lives \in [Replicas -> Nat]

(* Telegram holds the updates after the first Gone, and those have begun. *)
Gone == sent - Len(queue)

QueueFits ==
  /\ queue \in Seq(Updates) /\ Len(queue) <= sent
  /\ \A k \in 1..Len(queue) : queue[k].id = Gone + k
  /\ \A i \in 1..Gone : WasBegun(i)

(* A process asks from its offset on: before it and before its batch all has begun, and *)
(* after it nothing in this life.                                              *)
BatchFits(r) ==
  LET b == bot[r]
  IN  /\ b.offset \in 0..(sent + 1) /\ b.batch \in Seq(Updates)
      /\ \A i \in 1..sent : i < b.offset => WasBegun(i)
      /\ \A i \in Ids : i >= b.offset => begun[i][r] < lives[r]
      /\ b.batch # <<>> =>
           /\ Consecutive(b.batch) /\ b.batch[1].id >= b.offset /\ b.batch[1].id > 0
           /\ b.batch[1].id + Len(b.batch) - 1 <= sent
           /\ \A i \in 1..sent : i < b.batch[1].id => WasBegun(i)

DInv ==
  /\ HistoryTyped /\ QueueFits /\ HandledOncePerLife
  /\ \A r \in Replicas : bot[r].up => BatchFits(r)

-----------------------------------------------------------------------------
(* What telling less keeps *)

(* A step that leaves alone what Telegram holds, the histories, and of every replica what *)
(* it fetches and where it goes on.                                            *)
SparesDelivery ==
  /\ UNCHANGED <<script, queue, sent, begun, lives>>
  /\ \A q \in Replicas : /\ bot'[q].up = bot[q].up /\ bot'[q].offset = bot[q].offset
                         /\ bot'[q].batch = bot[q].batch

LEMMA SparedDelivery ==
  ASSUME DInv, SparesDelivery
  PROVE  DInv'
<1>1. /\ script' = script /\ queue' = queue /\ sent' = sent /\ begun' = begun /\ lives' = lives
      /\ Gone' = Gone /\ Updates' = Updates /\ Ids' = Ids /\ \A i : WasBegun(i)' = WasBegun(i)
  BY DEF SparesDelivery, Gone, Updates, Ids, WasBegun
<1>2. HistoryTyped' /\ QueueFits' /\ HandledOncePerLife'
  BY <1>1 DEF DInv, HistoryTyped, QueueFits, HandledOncePerLife
<1>3. ASSUME NEW r \in Replicas, bot'[r].up PROVE BatchFits(r)'
  <2>1. BatchFits(r)
    BY <1>3 DEF DInv, SparesDelivery
  <2>2. bot'[r].offset = bot[r].offset /\ bot'[r].batch = bot[r].batch
    BY DEF SparesDelivery
  <2> QED
    BY <1>1, <2>1, <2>2 DEF BatchFits, Consecutive
<1> QED
  BY <1>2, <1>3 DEF DInv

(* What is confirmed is what comes before the offset, the first n for some n. *)
LEMMA ConfirmedIsPrefix ==
  ASSUME HistoryTyped, QueueFits, NEW offset \in Nat
  PROVE  \E n \in 0..Len(queue) :
           /\ Unconfirmed(offset) = SubSeq(queue, n + 1, Len(queue))
           /\ \A k \in 1..Len(queue) : queue[k].id < offset <=> k <= n
<1>1. Len(queue) \in Nat /\ Gone \in Nat
  BY LenProperties DEF QueueFits, HistoryTyped, Gone
<1> DEFINE Splits(n) == \A k \in 1..Len(queue) : queue[k].id < offset <=> k <= n
           m == IF offset - Gone - 1 < 0 THEN 0
                ELSE IF offset - Gone - 1 > Len(queue) THEN Len(queue) ELSE offset - Gone - 1
<1>2. m \in 0..Len(queue)
  BY <1>1
<1>3. Splits(m)
  BY <1>1 DEF QueueFits
<1>4. (CHOOSE n \in 0..Len(queue) : Splits(n)) \in 0..Len(queue)
      /\ Splits(CHOOSE n \in 0..Len(queue) : Splits(n))
  <2> HIDE DEF m, Splits
  <2> QED
    BY <1>2, <1>3
<1> QED
  BY <1>4 DEF Unconfirmed

LEMMA BatchHead ==
  ASSUME NEW r, BatchFits(r), bot[r].batch # <<>>
  PROVE  /\ Len(bot[r].batch) \in Nat \ {0} /\ bot[r].batch[1].id \in Nat
         /\ Head(bot[r].batch) = bot[r].batch[1] /\ bot[r].batch[1] \in Updates
<1>1. bot[r].batch \in Seq(Updates)
  BY DEF BatchFits
<1>2. Len(bot[r].batch) \in Nat \ {0}
  BY <1>1, EmptySeq
<1>3. bot[r].batch[1] \in Updates
  BY <1>1, <1>2, ElementOfSeq
<1>4. Head(bot[r].batch) = bot[r].batch[1]
  BY <1>1, <1>2
<1>5. bot[r].batch[1].id \in Nat
  BY <1>3 DEF Updates, Ids
<1> QED
  BY <1>2, <1>3, <1>4, <1>5

LEMMA SendDelivery ==
  ASSUME DInv, Send
  PROVE  DInv'
<1> DEFINE u == [id |-> sent + 1, input |-> script[sent + 1]]
<1>1. /\ script' = script /\ begun' = begun /\ lives' = lives /\ sent' = sent + 1 /\ bot' = bot
      /\ Updates' = Updates /\ Ids' = Ids /\ \A i : WasBegun(i)' = WasBegun(i)
      /\ queue' = Append(queue, u)
  BY DEF Send, Updates, Ids, WasBegun
<1>2. /\ Len(script) \in Nat /\ sent \in Nat /\ sent' \in 0..Len(script)
  BY DEF DInv, HistoryTyped, Send
<1>3. u \in Updates /\ queue \in Seq(Updates) /\ u.id = sent + 1
  <2>1. sent + 1 \in Ids
    BY <1>1, <1>2 DEF Ids
  <2>2. u \in Updates
    BY <2>1 DEF Updates
  <2> QED
    BY <2>2 DEF DInv, QueueFits
<1> HIDE DEF u
<1>4. /\ queue' \in Seq(Updates) /\ Len(queue) \in Nat /\ Len(queue') = Len(queue) + 1
      /\ \A k \in 1..Len(queue) : queue'[k] = queue[k]
      /\ queue'[Len(queue) + 1] = u
  BY <1>1, <1>3, AppendProperties, LenProperties
<1>5. HistoryTyped' /\ HandledOncePerLife'
  BY <1>1, <1>2 DEF DInv, HistoryTyped, HandledOncePerLife
<1>6. QueueFits'
  <2>1. Gone' = Gone /\ Len(queue') <= sent'
    BY <1>1, <1>2, <1>4 DEF Gone, DInv, QueueFits
  <2>2. ASSUME NEW k \in 1..Len(queue') PROVE queue'[k].id = Gone' + k
    <3>1. CASE k \in 1..Len(queue)
      BY <1>4, <2>1, <3>1 DEF DInv, QueueFits
    <3>2. CASE k = Len(queue) + 1
      <4>1. queue'[k].id = sent + 1
        BY <1>3, <1>4, <3>2
      <4>2. Gone' + k = sent + 1
        BY <1>2, <1>4, <2>1, <3>2 DEF Gone
      <4> QED
        BY <4>1, <4>2
    <3> QED
      BY <1>4, <3>1, <3>2
  <2> QED
    BY <1>1, <1>4, <2>1, <2>2 DEF DInv, QueueFits
<1>7. ASSUME NEW r \in Replicas, bot'[r].up PROVE BatchFits(r)'
  <2>1. BatchFits(r)
    BY <1>1, <1>7 DEF DInv
  <2>2. \A i \in 1..sent' : (i < bot[r].offset => WasBegun(i))
    BY <1>1, <1>2, <2>1 DEF BatchFits
  <2>3. ASSUME bot[r].batch # <<>>
        PROVE  /\ Consecutive(bot[r].batch) /\ bot[r].batch[1].id >= bot[r].offset
               /\ bot[r].batch[1].id > 0 /\ bot[r].batch[1].id + Len(bot[r].batch) - 1 <= sent'
               /\ \A i \in 1..sent' : i < bot[r].batch[1].id => WasBegun(i)
    <3>1. Len(bot[r].batch) \in Nat \ {0} /\ bot[r].batch[1].id \in Nat
      BY <2>1, <2>3, BatchHead
    <3> QED
      BY <1>1, <1>2, <2>1, <2>3, <3>1 DEF BatchFits
  <2> QED
    BY <1>1, <1>2, <2>1, <2>2, <2>3 DEF BatchFits, Consecutive
<1> QED
  BY <1>5, <1>6, <1>7 DEF DInv

LEMMA OffsetWithin ==
  ASSUME NEW g \in Nat, NEW n \in Nat, NEW q \in Nat, n \in 0..q,
         NEW i \in 1..(g + n), i > g
  PROVE  i - g \in 1..q /\ i - g <= n
  OBVIOUS

LEMMA PollDelivery ==
  ASSUME Typed, DInv, NEW r \in Replicas, Poll(r)
  PROVE  DInv'
<1>1. /\ script' = script /\ begun' = begun /\ lives' = lives /\ sent' = sent
      /\ Updates' = Updates /\ Ids' = Ids /\ \A i : WasBegun(i)' = WasBegun(i)
      /\ queue' = Unconfirmed(bot[r].offset) /\ bot[r].up
  BY DEF Poll, history, Updates, Ids, WasBegun
<1>2. BatchFits(r) /\ bot[r].offset \in Nat
  BY <1>1 DEF DInv, BatchFits, HistoryTyped
<1>3. PICK n \in 0..Len(queue) :
        /\ queue' = SubSeq(queue, n + 1, Len(queue))
        /\ \A k \in 1..Len(queue) : queue[k].id < bot[r].offset <=> k <= n
  BY <1>1, <1>2, ConfirmedIsPrefix DEF DInv
<1>4. /\ queue \in Seq(Updates) /\ Len(queue) \in Nat /\ sent \in Nat /\ n \in Nat
      /\ \A k \in 1..Len(queue) : queue[k] \in Updates /\ queue[k].id = Gone + k
      /\ Gone \in Nat /\ Gone = sent - Len(queue)
  BY <1>3, LenProperties, ElementOfSeq DEF DInv, QueueFits, HistoryTyped, Gone
<1>5. /\ queue' \in Seq(Updates) /\ Len(queue') = Len(queue) - n
      /\ \A k \in 1..Len(queue') : queue'[k] = queue[n + k]
  <2>1. \A i \in (n + 1)..Len(queue) : queue[i] \in Updates
    BY <1>4
  <2> QED
    BY <1>3, <1>4, <2>1, SubSeqProperties
<1>6. Gone' = Gone + n
  BY <1>1, <1>4, <1>5 DEF Gone
<1>7. \A i \in 1..Gone' : WasBegun(i)
  <2> SUFFICES ASSUME NEW i \in 1..Gone' PROVE WasBegun(i)
    OBVIOUS
  <2>1. CASE i <= Gone
    BY <1>4, <2>1 DEF DInv, QueueFits
  <2>2. CASE i > Gone
    <3>1. i \in 1..(Gone + n) /\ Gone \in Nat /\ n \in 0..Len(queue) /\ Len(queue) \in Nat
      BY <1>3, <1>4, <1>6
    <3>2. i - Gone \in 1..Len(queue) /\ i - Gone <= n
      BY <3>1, <2>2, OffsetWithin
    <3>3. PICK k \in 1..Len(queue) : k = i - Gone /\ k <= n
      BY <3>2
    <3>4. Gone + k = i
      BY <3>1, <3>3
    <3>5. queue[k].id = i
      BY <1>4, <3>4
    <3>6. i < bot[r].offset
      BY <1>3, <3>3, <3>5
    <3>7. i \in 1..sent
      BY <1>4, <1>6
    <3> QED
      BY <1>2, <3>6, <3>7 DEF BatchFits
  <2> QED
    BY <1>4, <1>6, <2>1, <2>2
<1>8. HistoryTyped' /\ HandledOncePerLife'
  BY <1>1 DEF DInv, HistoryTyped, HandledOncePerLife
<1>9. QueueFits'
  <2>1. ASSUME NEW k \in 1..Len(queue') PROVE queue'[k].id = Gone' + k
    <3>1. PICK m \in 1..Len(queue) : m = n + k
      BY <1>3, <1>4, <1>5
    <3>2. queue'[k].id = Gone + (n + k)
      BY <1>4, <1>5, <3>1
    <3>3. Gone' + k = Gone + (n + k)
      BY <1>4, <1>5, <1>6
    <3> QED
      BY <3>2, <3>3
  <2>2. Len(queue') <= sent'
    BY <1>1, <1>4, <1>5
  <2> QED
    BY <1>1, <1>5, <1>7, <2>1, <2>2 DEF QueueFits
<1>10. ASSUME NEW q \in Replicas, bot'[q] = bot[q], bot'[q].up PROVE BatchFits(q)'
  BY <1>1, <1>10 DEF DInv, BatchFits, Consecutive
<1>11. CASE bot' = bot
  BY <1>8, <1>9, <1>10, <1>11 DEF DInv
<1>12. CASE bot' = [bot EXCEPT ![r].batch = queue']
  <2>1. /\ bot'[r].offset = bot[r].offset /\ bot'[r].batch = queue'
        /\ \A q \in Replicas \ {r} : bot'[q] = bot[q]
    BY <1>12 DEF Typed, Fields
  <2>2. ASSUME queue' # <<>>
        PROVE  /\ queue'[1].id = Gone' + 1 /\ Consecutive(queue') /\ queue'[1].id >= bot[r].offset
               /\ queue'[1].id + Len(queue') - 1 <= sent
    <3>1. Len(queue') \in Nat \ {0}
      BY <1>5, <2>2, EmptySeq
    <3>2. /\ n + 1 \in 1..Len(queue) /\ queue'[1] = queue[n + 1] /\ queue[n + 1].id = Gone + n + 1
      BY <1>4, <1>5, <3>1
    <3>3. ~(queue[n + 1].id < bot[r].offset)
      BY <1>3, <1>4, <3>2
    <3>4. Consecutive(queue')
      <4>1. \A k \in 1..Len(queue') : queue'[k].id = Gone' + k
        BY <1>9 DEF QueueFits
      <4>2. queue'[1].id = Gone' + 1 /\ Gone' \in Nat /\ 1 \in 1..Len(queue')
        BY <1>4, <1>6, <3>1, <4>1
      <4>3. \A k \in 1..Len(queue') : Gone' + k = (Gone' + 1) + k - 1
        BY <3>1, <4>2
      <4> QED
        BY <4>1, <4>2, <4>3 DEF Consecutive
    <3> QED
      BY <1>2, <1>4, <1>5, <1>6, <3>2, <3>3, <3>4
  <2>3. BatchFits(r)'
    <3>1. ASSUME queue' # <<>>
          PROVE  queue'[1].id > 0 /\ \A i \in 1..sent : i < queue'[1].id => WasBegun(i)
      BY <1>4, <1>6, <1>7, <2>2, <3>1
    <3> QED
      BY <1>1, <1>2, <1>5, <2>1, <2>2, <3>1 DEF BatchFits, Consecutive
  <2>4. \A q \in Replicas : bot'[q].up => BatchFits(q)'
    BY <1>10, <2>1, <2>3
  <2> QED
    BY <1>8, <1>9, <2>4 DEF DInv
<1> QED
  BY <1>11, <1>12 DEF Poll

(* Receive and Skip: r goes on past the first update of its batch, which has then begun. *)
Takes(r) ==
  /\ bot[r].up /\ bot[r].batch # <<>>
  /\ bot'[r].up = TRUE
  /\ bot'[r].offset = Onward(bot[r]).offset /\ bot'[r].batch = Tail(bot[r].batch)
  /\ \A q \in Replicas \ {r} : bot'[q] = bot[q]
  /\ begun' = [begun EXCEPT ![Head(bot[r].batch).id][r] = @ + 1]
  /\ UNCHANGED <<script, queue, sent, lives>>

LEMMA TakeDelivery ==
  ASSUME Typed, DInv, NEW r \in Replicas, Takes(r)
  PROVE  DInv'
<1> DEFINE first == bot[r].batch[1].id
<1>1. /\ script' = script /\ lives' = lives /\ sent' = sent /\ queue' = queue
      /\ Gone' = Gone /\ Updates' = Updates /\ Ids' = Ids
  BY DEF Takes, Gone, Updates, Ids
<1>2. BatchFits(r) /\ bot[r].batch # <<>> /\ HistoryTyped /\ QueueFits /\ HandledOncePerLife
  BY DEF DInv, Takes
<1>3. /\ Len(bot[r].batch) \in Nat \ {0} /\ first \in Nat
      /\ Head(bot[r].batch) = bot[r].batch[1]
  BY <1>2, BatchHead
<1>4. /\ sent \in Nat /\ Len(script) \in Nat /\ sent <= Len(script) /\ bot[r].offset \in Nat
      /\ first >= bot[r].offset /\ first > 0 /\ first + Len(bot[r].batch) - 1 <= sent
      /\ Consecutive(bot[r].batch) /\ bot[r].batch \in Seq(Updates)
  BY <1>2 DEF HistoryTyped, BatchFits
<1>5. first \in 1..sent /\ first \in Ids
  BY <1>3, <1>4 DEF Ids
<1>6. /\ begun' \in [Ids -> [Replicas -> Nat]] /\ begun'[first][r] = begun[first][r] + 1
      /\ \A i \in Ids, q \in Replicas : i # first \/ q # r => begun'[i][q] = begun[i][q]
      /\ \A i \in Ids, q \in Replicas : begun[i][q] \in Nat
      /\ \A q \in Replicas : lives[q] \in Nat
  <2>1. begun' = [begun EXCEPT ![first][r] = @ + 1]
    BY <1>3 DEF Takes
  <2>2. begun \in [Ids -> [Replicas -> Nat]] /\ lives \in [Replicas -> Nat]
    BY <1>2 DEF HistoryTyped
  <2>3. begun[first] \in [Replicas -> Nat] /\ begun[first][r] \in Nat
    BY <1>5, <2>2
  <2> HIDE DEF first
  <2>4. begun' = [begun EXCEPT ![first] = [begun[first] EXCEPT ![r] = begun[first][r] + 1]]
    BY <1>5, <2>1, <2>2
  <2>5. [begun[first] EXCEPT ![r] = begun[first][r] + 1] \in [Replicas -> Nat]
    BY <2>3
  <2> QED
    BY <1>5, <2>2, <2>3, <2>4, <2>5
<1>7. \A i \in Ids : WasBegun(i) \/ i = first => WasBegun(i)'
  <2>1. \A i \in Ids, q \in Replicas : begun[i][q] > 0 => begun'[i][q] > 0
    BY <1>5, <1>6
  <2>2. begun'[first][r] > 0
    BY <1>5, <1>6
  <2> QED
    BY <2>1, <2>2 DEF WasBegun
<1> HIDE DEF first
<1>8. begun[first][r] < lives[r]
  BY <1>2, <1>4, <1>5 DEF BatchFits
<1>9. HistoryTyped' /\ QueueFits'
  <2>1. \A i \in 1..Gone : i \in Ids
    BY <1>2, <1>4, LenProperties DEF Ids, Gone, QueueFits
  <2> QED
    BY <1>1, <1>2, <1>6, <1>7, <2>1 DEF HistoryTyped, QueueFits
<1>10. HandledOncePerLife'
  <2> SUFFICES ASSUME NEW i \in Ids, NEW q \in Replicas PROVE begun'[i][q] <= lives[q]
    BY <1>1 DEF HandledOncePerLife
  <2>1. CASE i = first /\ q = r
    BY <1>6, <1>8, <2>1
  <2>2. CASE i # first \/ q # r
    BY <1>2, <1>6, <2>2 DEF HandledOncePerLife
  <2> QED
    BY <2>1, <2>2
<1>11. ASSUME NEW q \in Replicas \ {r}, bot'[q].up PROVE BatchFits(q)'
  <2>1. BatchFits(q) /\ bot'[q] = bot[q]
    BY <1>11 DEF DInv, Takes
  <2>2. \A i \in Ids : begun'[i][q] = begun[i][q]
    BY <1>6
  <2>3. \A i \in 1..sent : i \in Ids
    BY <1>4 DEF Ids
  <2> QED
    BY <1>1, <1>7, <2>1, <2>2, <2>3 DEF BatchFits, Consecutive
<1>12. BatchFits(r)'
  <2>1. bot'[r].offset = first + 1 /\ bot'[r].batch = Tail(bot[r].batch)
    BY <1>2, <1>3, <1>4 DEF Takes, Onward, Typed, Fields, first
  <2>2. /\ Tail(bot[r].batch) \in Seq(Updates)
        /\ Len(Tail(bot[r].batch)) = Len(bot[r].batch) - 1
        /\ \A k \in 1..(Len(bot[r].batch) - 1) : Tail(bot[r].batch)[k] = bot[r].batch[k + 1]
    BY <1>2, <1>3, <1>4, HeadTailProperties
  <2>3. \A i \in 1..sent : i < first + 1 => WasBegun(i)'
    <3>1. \A i \in 1..sent : i \in Ids /\ (i < first => WasBegun(i))
      BY <1>2, <1>4 DEF BatchFits, Ids, first
    <3>2. \A i \in 1..sent : i < first + 1 => i < first \/ i = first
      BY <1>4, <1>5
    <3> QED
      BY <1>7, <3>1, <3>2
  <2>4. \A i \in Ids : i >= first + 1 => begun'[i][r] < lives[r]
    <3> SUFFICES ASSUME NEW i \in Ids, i >= first + 1 PROVE begun'[i][r] < lives[r]
      OBVIOUS
    <3>1. i # first /\ i >= bot[r].offset
      <4>1. i \in Nat /\ first \in Nat /\ bot[r].offset \in Nat /\ first >= bot[r].offset
        BY <1>2, <1>4, <1>5 DEF Ids, BatchFits, first
      <4> QED
        BY <4>1
    <3> QED
      BY <1>2, <1>6, <3>1 DEF BatchFits
  <2>5. ASSUME Tail(bot[r].batch) # <<>>
        PROVE  /\ Consecutive(Tail(bot[r].batch)) /\ Tail(bot[r].batch)[1].id = first + 1
               /\ first + 1 + Len(Tail(bot[r].batch)) - 1 <= sent
    <3>1. Len(Tail(bot[r].batch)) \in Nat \ {0}
      BY <2>2, <2>5, EmptySeq
    <3>2. \A k \in 1..Len(bot[r].batch) : bot[r].batch[k].id = first + k - 1
      BY <1>4 DEF Consecutive, first
    <3>3. ASSUME NEW k \in 1..Len(Tail(bot[r].batch))
          PROVE  Tail(bot[r].batch)[k].id = first + k
      <4>1. PICK m \in 1..Len(bot[r].batch) : m = k + 1
        BY <1>3, <2>2
      <4> QED
        BY <1>3, <1>5, <2>2, <3>2, <4>1
    <3>4. Tail(bot[r].batch)[1].id = first + 1
      <4> DEFINE n == Len(Tail(bot[r].batch))
      <4>1. n \in Nat \ {0}
        BY <3>1
      <4> HIDE DEF n
      <4>2. 1 \in 1..n
        BY <4>1
      <4> QED
        BY <3>3, <4>2 DEF n
    <3>5. Consecutive(Tail(bot[r].batch))
      BY <1>5, <3>1, <3>3, <3>4 DEF Consecutive
    <3>6. first + 1 + Len(Tail(bot[r].batch)) - 1 <= sent
      BY <1>3, <1>4, <1>5, <2>2 DEF first
    <3> QED
      BY <3>4, <3>5, <3>6
  <2>6. first + 1 \in 0..(sent + 1) /\ first + 1 > 0
    BY <1>4, <1>5
  <2> QED
    BY <1>1, <2>1, <2>2, <2>3, <2>4, <2>5, <2>6 DEF BatchFits, Consecutive
<1> QED
  BY <1>9, <1>10, <1>11, <1>12 DEF DInv

LEMMA CrashDelivery ==
  ASSUME Typed, DInv, NEW r \in Replicas, Crash(r)
  PROVE  DInv'
<1>1. /\ script' = script /\ queue' = queue /\ sent' = sent /\ begun' = begun /\ lives' = lives
      /\ Gone' = Gone /\ Updates' = Updates /\ Ids' = Ids /\ \A i : WasBegun(i)' = WasBegun(i)
  BY DEF Crash, history, Gone, Updates, Ids, WasBegun
<1>2. HistoryTyped' /\ QueueFits' /\ HandledOncePerLife'
  BY <1>1 DEF DInv, HistoryTyped, QueueFits, HandledOncePerLife
<1>3. ~bot'[r].up /\ \A q \in Replicas \ {r} : bot'[q] = bot[q]
  BY DEF Crash, Fresh, Typed
<1>4. ASSUME NEW q \in Replicas \ {r}, bot'[q].up PROVE BatchFits(q)'
  BY <1>1, <1>3, <1>4 DEF DInv, BatchFits, Consecutive
<1> QED
  BY <1>2, <1>3, <1>4 DEF DInv

LEMMA RestartDelivery ==
  ASSUME Typed, DInv, NEW r \in Replicas, Restart(r)
  PROVE  DInv'
<1>1. /\ script' = script /\ queue' = queue /\ sent' = sent /\ begun' = begun
      /\ Gone' = Gone /\ Updates' = Updates /\ Ids' = Ids /\ \A i : WasBegun(i)' = WasBegun(i)
  BY DEF Restart, Gone, Updates, Ids, WasBegun
<1>2. /\ lives' \in [Replicas -> Nat] /\ lives'[r] = lives[r] + 1
      /\ \A q \in Replicas \ {r} : lives'[q] = lives[q]
      /\ \A q \in Replicas : lives[q] \in Nat
      /\ \A i \in Ids, q \in Replicas : begun[i][q] \in Nat /\ begun[i][q] <= lives[q]
  BY DEF Restart, DInv, HistoryTyped, HandledOncePerLife
<1>3. HistoryTyped' /\ QueueFits' /\ HandledOncePerLife'
  <2>1. HandledOncePerLife'
    BY <1>1, <1>2 DEF HandledOncePerLife
  <2> QED
    BY <1>1, <1>2, <2>1 DEF DInv, HistoryTyped, QueueFits
<1>4. /\ bot'[r].offset = 0 /\ bot'[r].batch = <<>>
      /\ \A q \in Replicas \ {r} : bot'[q] = bot[q]
  BY DEF Restart, Fresh, Typed
<1>5. ASSUME NEW q \in Replicas \ {r}, bot'[q].up PROVE BatchFits(q)'
  <2>1. BatchFits(q) /\ bot'[q] = bot[q] /\ lives'[q] = lives[q]
    BY <1>2, <1>4, <1>5 DEF DInv
  <2> QED
    BY <1>1, <2>1 DEF BatchFits, Consecutive
<1>6. BatchFits(r)'
  <2>1. /\ \A i \in Ids : begun[i][r] < lives'[r]
        /\ 0 \in 0..(sent + 1) /\ \A i \in 1..sent : ~(i < 0)
    BY <1>2 DEF DInv, HistoryTyped
  <2>2. <<>> \in Seq(Updates)
    BY EmptySeq
  <2> QED
    BY <1>1, <1>4, <2>1, <2>2 DEF BatchFits
<1> QED
  BY <1>3, <1>5, <1>6 DEF DInv

LEMMA InitDelivery == Init => DInv
<1> SUFFICES ASSUME Init PROVE DInv
  OBVIOUS
<1>1. HistoryTyped
  BY BotAssumption DEF Init, HistoryTyped
<1>2. queue = <<>> /\ Len(queue) = 0 /\ queue \in Seq(Updates) /\ sent = 0
  BY EmptySeq DEF Init
<1>3. QueueFits
  BY <1>2 DEF QueueFits, Gone
<1>4. HandledOncePerLife
  BY DEF Init, HandledOncePerLife
<1>5. ASSUME NEW r \in Replicas PROVE BatchFits(r)
  <2>1. bot[r].offset = 0 /\ bot[r].batch = <<>>
    BY DEF Init, Fresh
  <2>2. \A i \in Ids : begun[i][r] < lives[r]
    BY DEF Init
  <2> QED
    BY <1>2, <2>1, <2>2 DEF BatchFits
<1> QED
  BY <1>1, <1>3, <1>4, <1>5 DEF DInv

(* The handlers neither fetch nor go on. *)
LEMMA HandleSpares ==
  ASSUME Typed, NEW r \in Replicas, Handle(r) \/ StatementFails(r)
  PROVE  SparesDelivery
<1> DEFINE Stays == \A q \in Replicas :
                      /\ bot'[q].up = bot[q].up /\ bot'[q].offset = bot[q].offset
                      /\ bot'[q].batch = bot[q].batch
<1>1. ASSUME NEW picks, Returns(r, picks) PROVE Stays
  BY <1>1 DEF Typed, Fields, Returns
<1>2. CASE BeginCreate(r)
  BY <1>2 DEF BeginCreate, history, SparesDelivery, Typed, Fields
<1>3. CASE Count(r)
  <2>1. CASE bot' = [bot EXCEPT ![r].hand.at = "insert"]
    BY <1>3, <2>1 DEF Count, SparesDelivery, Typed, Fields
  <2> QED
    BY <1>1, <1>3, <2>1 DEF Count, SparesDelivery
<1>4. CASE Insert(r)
  <2>1. CASE bot' = [bot EXCEPT ![r].hand.at = "count", ![r].hand.todo = Tail(@)]
    BY <1>4, <2>1 DEF Insert, SparesDelivery, Typed, Fields
  <2> QED
    BY <1>1, <1>4, <2>1 DEF Insert, SparesDelivery
<1>5. CASE Reset(r)
  BY <1>5 DEF Reset, history, SparesDelivery, Typed, Fields
<1>6. CASE Ignore(r) \/ Answer(r) \/ Press(r)
  BY <1>1, <1>6 DEF Ignore, Answer, Press, SparesDelivery
<1>7. CASE Unsubscribe(r) \/ ResetJobs(r) \/ StatementFails(r)
  BY <1>1, <1>7 DEF Unsubscribe, ResetJobs, StatementFails, SparesDelivery
<1> QED
  BY <1>2, <1>3, <1>4, <1>5, <1>6, <1>7 DEF Handle

LEMMA NextDelivery == Typed /\ DInv /\ [Next]_vars => DInv'
<1> SUFFICES ASSUME Typed, DInv, [Next]_vars PROVE DInv'
  OBVIOUS
<1>1. ASSUME NEW r \in Replicas, Receive(r) PROVE DInv'
  <2>1. Takes(r)
    BY <1>1 DEF Receive, Takes, Onward, Typed, Fields
  <2> QED
    BY <2>1, TakeDelivery
<1>2. ASSUME NEW r \in Replicas, Skip(r) PROVE DInv'
  <2>1. Takes(r)
    BY <1>2 DEF Skip, Takes, Onward, Typed, Fields
  <2> QED
    BY <2>1, TakeDelivery
<1>3. CASE UNCHANGED vars
  <2>1. SparesDelivery
    BY <1>3 DEF vars, SparesDelivery
  <2> QED
    BY <2>1, SparedDelivery
<1> QED
  BY <1>1, <1>2, <1>3, SendDelivery, PollDelivery, CrashDelivery, RestartDelivery, HandleSpares,
     SparedDelivery DEF Next

(* What has begun, what a replica has fetched, and what Telegram holds cover the updates *)
(* that were sent, each in its place.                                          *)
THEOREM DeliveryInvariance == Spec => []DInv
<1>1. Typed /\ DInv /\ [Next]_vars => DInv'
  BY NextDelivery
<1>2. IInv => Typed
  BY DEF IInv
<1> QED
  BY InitDelivery, <1>1, <1>2, Invariance, PTL DEF Spec

(* HandledOncePerLife: the offset that Poll (bot.go) keeps runs ahead of what it hands out, *)
(* so that a process hands out no update twice, for any number of replicas.    *)
THEOREM OncePerLife == Spec => []HandledOncePerLife
<1>1. DInv => HandledOncePerLife
  BY DEF DInv
<1> QED
  BY <1>1, DeliveryInvariance, PTL

(* ConfirmedWasBegun: an update that getUpdates has confirmed was begun by some replica. *)
THEOREM NothingConfirmedUnbegun == Spec => []ConfirmedWasBegun
<1>1. DInv => ConfirmedWasBegun
  <2> SUFFICES ASSUME DInv, NEW i \in 1..sent, ~WasBegun(i)
               PROVE  \E k \in 1..Len(queue) : queue[k].id = i
    BY DEF ConfirmedWasBegun
  <2>1. Len(queue) \in Nat /\ sent \in Nat /\ i > Gone
    BY LenProperties DEF DInv, QueueFits, HistoryTyped, Gone
  <2>2. i - Gone \in 1..Len(queue)
    BY <2>1 DEF Gone
  <2>3. queue[i - Gone].id = i
    BY <2>1, <2>2 DEF DInv, QueueFits, Gone
  <2> QED
    BY <2>2, <2>3
<1> QED
  BY <1>1, DeliveryInvariance, PTL

-----------------------------------------------------------------------------
(* Lists that the wizard makes *)

IsSeq(q) == q \in Seq({q[i] : i \in DOMAIN q})

LEMMA ListedIsSeq ==
  ASSUME NEW q, NEW n \in Nat, DOMAIN q = 1..n, q = [i \in DOMAIN q |-> q[i]]
  PROVE  IsSeq(q) /\ Len(q) = n
<1> DEFINE S == {q[i] : i \in DOMAIN q}
<1>1. q \in [1..n -> S]
  OBVIOUS
<1> HIDE DEF S
<1>2. q \in Seq(S)
  BY <1>1, SeqDef
<1>3. Len(q) = n
  BY <1>2, LenProperties
<1> QED
  BY <1>2, <1>3 DEF IsSeq, S

LEMMA SeqIsSeq ==
  ASSUME NEW S, NEW q \in Seq(S)
  PROVE  /\ IsSeq(q) /\ Len(q) \in Nat /\ DOMAIN q = 1..Len(q)
         /\ q = [i \in DOMAIN q |-> q[i]]
<1>1. Len(q) \in Nat /\ DOMAIN q = 1..Len(q) /\ q \in [1..Len(q) -> S]
  BY LenProperties
<1>2. q = [i \in DOMAIN q |-> q[i]]
  BY <1>1
<1> QED
  BY <1>1, <1>2, ListedIsSeq

LEMMA IsSeqTail ==
  ASSUME NEW q, IsSeq(q), q # <<>>
  PROVE  /\ Len(q) \in Nat \ {0} /\ Head(q) = q[1]
         /\ IsSeq(Tail(q)) /\ Len(Tail(q)) = Len(q) - 1
         /\ \A k \in 1..(Len(q) - 1) : Tail(q)[k] = q[k + 1]
<1> DEFINE S == {q[i] : i \in DOMAIN q}
<1>1. q \in Seq(S)
  BY DEF IsSeq
<1> HIDE DEF S
<1>2. Len(q) \in Nat \ {0}
  BY <1>1, EmptySeq, LenProperties
<1>3. /\ Head(q) = q[1] /\ Tail(q) \in Seq(S) /\ Len(Tail(q)) = Len(q) - 1
      /\ \A k \in 1..(Len(q) - 1) : Tail(q)[k] = q[k + 1]
  BY <1>1, <1>2, HeadTailProperties
<1> QED
  BY <1>2, <1>3, SeqIsSeq

(* The places of a finite set of numbers, counted from below, are those up to its size. *)
LEMMA Places ==
  ASSUME NEW B, B \subseteq Nat, IsFiniteSet(B)
  PROVE  /\ Cardinality(B) \in Nat
         /\ \A i \in B : Cardinality({j \in B : j <= i}) \in 1..Cardinality(B)
         /\ \A i \in B, j \in B : i < j => Cardinality({k \in B : k <= i}) < Cardinality({k \in B : k <= j})
         /\ \A n \in 1..Cardinality(B) : \E i \in B : Cardinality({j \in B : j <= i}) = n
<1> DEFINE A(x) == {j \in B : j <= x}
           place(x) == Cardinality(A(x))
           c == Cardinality(B)
<1>1. c \in Nat
  BY FS_CardinalityType
<1> HIDE DEF c
<1>2. ASSUME NEW x \in B PROVE IsFiniteSet(A(x)) /\ place(x) \in 1..c
  <2>1. A(x) \in SUBSET B /\ x \in A(x)
    BY <1>2
  <2>2. IsFiniteSet(A(x)) /\ Cardinality(A(x)) <= c
    BY <2>1, FS_Subset DEF c
  <2> HIDE DEF A
  <2>3. Cardinality(A(x)) \in Nat /\ Cardinality(A(x)) # 0
    BY <2>1, <2>2, FS_CardinalityType, FS_EmptySet
  <2> QED
    BY <1>1, <2>2, <2>3
<1>3. ASSUME NEW x \in B, NEW y \in B, x < y PROVE place(x) < place(y)
  <2> x \in Nat /\ y \in Nat /\ \A j \in B : j \in Nat
    OBVIOUS
  <2>a. y <= y /\ ~(y <= x) /\ \A j \in B : j <= x => j <= y
    BY <1>3
  <2>1. A(x) \in SUBSET A(y) /\ y \in A(y) /\ y \notin A(x)
    BY <2>a
  <2>2. IsFiniteSet(A(y)) /\ place(x) \in 1..c /\ place(y) \in 1..c
    BY <1>2
  <2> HIDE DEF A
  <2>3. Cardinality(A(x)) <= Cardinality(A(y)) /\ Cardinality(A(x)) # Cardinality(A(y))
    BY <2>1, <2>2, FS_Subset
  <2> QED
    BY <1>1, <2>2, <2>3
<1> DEFINE T == 1..c
           f == [x \in B |-> place(x)]
<1>4. IsFiniteSet(T) /\ Cardinality(T) = c
  BY <1>1, FS_Interval
<1>5. \A x \in B : place(x) \in T
  BY <1>2
<1> HIDE DEF T, A, place
<1>6. f \in Injection(B, T)
  <2>1. ASSUME NEW x \in B, NEW y \in B, place(x) = place(y) PROVE x = y
    <3>1. x \in Nat /\ y \in Nat /\ place(x) \in Nat
      BY <1>2
    <3> QED
      BY <1>3, <2>1, <3>1
  <2> QED
    BY <1>5, <2>1 DEF Injection, IsInjective
<1> HIDE DEF f
<1>7. f \in Surjection(B, T)
  <2>1. Cardinality(B) = Cardinality(T)
    BY <1>4 DEF c
  <2> QED
    BY <1>4, <1>6, <2>1, FS_Injection
<1>8. \A n \in T : \E x \in B : place(x) = n
  BY <1>7 DEF Surjection, f
<1> QED
  BY <1>1, <1>2, <1>3, <1>8 DEF c, T, A, place

(* selectedSlugs: what is offered and picked, in the order in which it is offered. *)
LEMMA SelectedIs ==
  ASSUME NEW picks, NEW s \in Steps
  PROVE  /\ IsSeq(Selected(picks, s))
         /\ \A k \in DOMAIN Selected(picks, s) :
              \E i \in DOMAIN Options[s] : Options[s][i] \in picks[s] /\ Selected(picks, s)[k] = Options[s][i]
         /\ \A i \in DOMAIN Options[s] : Options[s][i] \in picks[s] =>
              \E k \in DOMAIN Selected(picks, s) : Selected(picks, s)[k] = Options[s][i]
         /\ \A k, l \in DOMAIN Selected(picks, s) :
              Selected(picks, s)[k] = Selected(picks, s)[l] => k = l
<1> DEFINE B == {i \in DOMAIN Options[s] : Options[s][i] \in picks[s]}
           place(x) == Cardinality({j \in B : j <= x})
           n == Cardinality(B)
           at(k) == CHOOSE i \in B : place(i) = k
           q == Selected(picks, s)
<1>1. B \subseteq Nat /\ IsFiniteSet(B) /\ B \subseteq DOMAIN Options[s]
  <2>1. Len(Options[s]) \in Nat /\ DOMAIN Options[s] = 1..Len(Options[s])
    BY BotAssumption, LenProperties
  <2>2. IsFiniteSet(1..Len(Options[s]))
    BY <2>1, FS_Interval
  <2>3. B \in SUBSET (1..Len(Options[s]))
    BY <2>1
  <2> QED
    BY <2>1, <2>2, <2>3, FS_Subset
<1>2. \A i \in B : i \in DOMAIN Options[s] /\ Options[s][i] \in picks[s]
  OBVIOUS
<1>3. \A i \in DOMAIN Options[s] : Options[s][i] \in picks[s] => i \in B
  OBVIOUS
<1>4. q = [k \in 1..n |-> Options[s][at(k)]]
  BY DEF Selected
<1> HIDE DEF B, q
<1>5. /\ n \in Nat /\ \A i \in B : place(i) \in 1..n
      /\ \A i \in B, j \in B : i < j => place(i) < place(j)
      /\ \A k \in 1..n : \E i \in B : place(i) = k
  BY <1>1, Places
<1> HIDE DEF place, n
<1>6. \A i \in B, j \in B : place(i) = place(j) => i = j
  <2> SUFFICES ASSUME NEW i \in B, NEW j \in B, place(i) = place(j) PROVE i = j
    OBVIOUS
  <2>1. i \in Nat /\ j \in Nat /\ place(i) \in Nat
    BY <1>1, <1>5
  <2> QED
    BY <1>5, <2>1
<1>7. \A k \in 1..n : at(k) \in B /\ place(at(k)) = k
  BY <1>5
<1> HIDE DEF at
<1>8. \A i \in B : at(place(i)) = i
  BY <1>5, <1>6, <1>7
<1>9. DOMAIN q = 1..n /\ \A k \in 1..n : q[k] = Options[s][at(k)]
  BY <1>4
<1>10. IsSeq(q)
  BY <1>4, <1>5, <1>9, ListedIsSeq
<1>11. \A k \in DOMAIN q : \E i \in DOMAIN Options[s] : Options[s][i] \in picks[s] /\ q[k] = Options[s][i]
  BY <1>1, <1>2, <1>7, <1>9
<1>12. \A i \in DOMAIN Options[s] : Options[s][i] \in picks[s] => \E k \in DOMAIN q : q[k] = Options[s][i]
  BY <1>3, <1>5, <1>8, <1>9
<1>13. ASSUME NEW k \in DOMAIN q, NEW l \in DOMAIN q, q[k] = q[l] PROVE k = l
  <2>1. at(k) \in DOMAIN Options[s] /\ at(l) \in DOMAIN Options[s]
    BY <1>1, <1>7, <1>9
  <2>2. at(k) = at(l)
    BY <1>9, <1>13, <2>1, OptionsAreDistinct
  <2> QED
    BY <1>7, <1>9, <2>2
<1> QED
  BY <1>10, <1>11, <1>12, <1>13 DEF q

-----------------------------------------------------------------------------
(* Quotients *)

LEMMA Division ==
  ASSUME NEW n \in Nat, NEW d \in Nat \ {0}
  PROVE  /\ n \div d \in Nat /\ n % d \in 0..(d - 1)
         /\ n = d * (n \div d) + (n % d)
  OBVIOUS

LEMMA Times ==
  ASSUME NEW x \in Int, NEW y \in Int, NEW d \in Nat, x < y
  PROVE  d * x + d <= d * y
<1>1. d * (y - x) >= d
  <2>1. y - x >= 1 /\ y - x \in Int
    OBVIOUS
  <2> QED BY <2>1
<1>2. d * (y - x) = d * y - d * x /\ d * x \in Int /\ d * y \in Int
  OBVIOUS
<1> QED BY <1>1, <1>2

LEMMA Quotient ==
  ASSUME NEW d \in Nat \ {0}, NEW q \in Nat, NEW r \in 0..(d - 1), NEW n, n = d * q + r
  PROVE  n \in Nat /\ n \div d = q /\ n % d = r
<1>0. d * q \in Nat
  OBVIOUS
<1>1. n \in Nat
  BY <1>0
<1> DEFINE p == n \div d
           s == n % d
<1>2. p \in Nat /\ s \in 0..(d-1) /\ n = d * p + s
  BY <1>1, Division
<1> HIDE DEF p, s
<1>3. ~(p < q)
  <2>1. p < q => d * p + d <= d * q
    BY <1>2, Times
  <2>2. d * p \in Nat
    BY <1>2
  <2> QED BY <1>0, <1>2, <2>1, <2>2
<1>4. ~(q < p)
  <2>1. q < p => d * q + d <= d * p
    BY <1>2, Times
  <2>2. d * p \in Nat
    BY <1>2
  <2> QED BY <1>0, <1>2, <2>1, <2>2
<1>5. p = q
  BY <1>2, <1>3, <1>4
<1>6. s = r
  BY <1>0, <1>2, <1>5
<1> QED BY <1>1, <1>5, <1>6 DEF p, s

(* Numbers below a * b * e are triples. *)
AreDigits(a, b, e, i) ==
  /\ i \div (b * e) \in 0..(a - 1) /\ (i \div e) % b \in 0..(b - 1) /\ i % e \in 0..(e - 1)
  /\ i = ((i \div (b * e)) * b + ((i \div e) % b)) * e + (i % e)

Occur(a, b, e, p, q, r) ==
  \E i \in 0..(a * b * e - 1) : i \div (b * e) = p /\ (i \div e) % b = q /\ i % e = r

LEMMA Digits ==
  ASSUME NEW a \in Nat \ {0}, NEW b \in Nat \ {0}, NEW e \in Nat \ {0}, NEW i \in 0..(a * b * e - 1)
  PROVE  AreDigits(a, b, e, i)
<1> DEFINE m == i \div e
           p == m \div b
           q == m % b
           r == i % e
<1>1. i \in Nat /\ b * e \in Nat \ {0} /\ i < a * b * e
  OBVIOUS
<1>2. m \in Nat /\ r \in 0..(e - 1) /\ i = e * m + r
  BY <1>1, Division
<1> HIDE DEF m, r
<1>3. p \in Nat /\ q \in 0..(b - 1) /\ m = b * p + q
  BY <1>2, Division
<1> HIDE DEF p, q
<1>4. e * q + r \in 0..(b * e - 1)
  <2>1. e * q + e <= e * b
    BY <1>3, Times
  <2>2. e * q \in Nat /\ e * b = b * e
    BY <1>3
  <2> QED
    BY <1>2, <2>1, <2>2
<1>5. i = (b * e) * p + (e * q + r)
  <2>1. e * (b * p + q) = (b * e) * p + e * q
    BY <1>3
  <2> QED
    BY <1>2, <1>3, <2>1
<1>6. i \div (b * e) = p
  <2> DEFINE d == b * e
             t == e * q + r
  <2>1. d \in Nat \ {0} /\ t \in 0..(d - 1) /\ i = d * p + t
    BY <1>1, <1>4, <1>5
  <2> HIDE DEF d, t
  <2>2. i \div d = p
    BY <1>3, <2>1, Quotient
  <2> QED
    BY <2>2 DEF d
<1>7. p < a
  <2>1. ASSUME a <= p PROVE FALSE
    <3>1. (b * e) * a <= (b * e) * p
      <4>1. CASE a = p
        BY <1>1, <4>1
      <4>2. CASE a < p
        <5>1. (b * e) * a + b * e <= (b * e) * p
          BY <1>1, <1>3, <4>2, Times
        <5> QED
          BY <1>1, <1>3, <5>1
      <4> QED
        BY <1>3, <2>1, <4>1, <4>2
    <3>2. (b * e) * a = a * b * e /\ (b * e) * p \in Nat
      BY <1>1, <1>3
    <3> QED
      BY <1>1, <1>4, <1>5, <3>1, <3>2
  <2> QED
    BY <1>3, <2>1
<1>8. i = (p * b + q) * e + r
  <2>1. p * b = b * p /\ (p * b + q) * e = e * (p * b + q)
    BY <1>3
  <2> QED
    BY <1>2, <1>3, <2>1
<1>9. /\ i \div (b * e) = p /\ (i \div e) % b = q /\ i % e = r
  BY <1>6 DEF m, q, r
<1>10. p \in 0..(a - 1)
  BY <1>3, <1>7
<1> QED
  BY <1>2, <1>3, <1>8, <1>9, <1>10 DEF AreDigits

LEMMA Triple ==
  ASSUME NEW a \in Nat \ {0}, NEW b \in Nat \ {0}, NEW e \in Nat \ {0},
         NEW p \in 0..(a - 1), NEW q \in 0..(b - 1), NEW r \in 0..(e - 1)
  PROVE  Occur(a, b, e, p, q, r)
<1> DEFINE m == b * p + q
           i == e * m + r
<1>1. m \in Nat /\ m \div b = p /\ m % b = q
  BY Quotient
<1>2. m < a * b
  <2>1. b * p + b <= b * a
    BY Times
  <2>2. b * a = a * b /\ b * p \in Nat
    OBVIOUS
  <2> QED
    BY <2>1, <2>2
<1>3. m = b * p + q
  OBVIOUS
<1> HIDE DEF m
<1>4. i \in Nat /\ i \div e = m /\ i % e = r
  BY <1>1, Quotient
<1>5. i < a * b * e
  <2>1. e * m + e <= e * (a * b)
    BY <1>1, <1>2, Times
  <2>2. e * (a * b) = a * b * e /\ e * m \in Nat
    BY <1>1
  <2> QED
    BY <2>1, <2>2
<1>6. e * (b * p + q) = (b * e) * p + e * q
  OBVIOUS
<1>7. e * q + r \in 0..(b * e - 1)
  <2>1. e * q + e <= e * b
    BY Times
  <2>2. e * q \in Nat /\ e * b = b * e
    OBVIOUS
  <2> QED
    BY <2>1, <2>2
<1>8. i \div (b * e) = p
  <2> DEFINE d == b * e
             t == e * q + r
  <2>1. i = d * p + t
    BY <1>3, <1>6
  <2>2. d \in Nat \ {0} /\ t \in 0..(d - 1)
    BY <1>7
  <2> HIDE DEF d, t, i
  <2>3. i \div d = p
    BY <2>1, <2>2, Quotient
  <2> QED
    BY <2>3 DEF d
<1>9. i \in 0..(a * b * e - 1)
  BY <1>4, <1>5
<1> HIDE DEF i
<1> QED
  BY <1>1, <1>4, <1>8, <1>9 DEF Occur

-----------------------------------------------------------------------------
(* The product of what is picked *)

Distinct(q) == \A k, l \in DOMAIN q : q[k] = q[l] => k = l

Command(x, t, c) == [exchange |-> x, token |-> t, chain |-> c]

LEMMA CombinedIs ==
  ASSUME NEW x, NEW t, NEW c, IsSeq(x), IsSeq(t), IsSeq(c)
  PROVE  /\ IsSeq(Combined(x, t, c)) /\ Len(Combined(x, t, c)) \in Nat
         /\ DOMAIN Combined(x, t, c) = 1..Len(Combined(x, t, c))
         /\ \A k \in DOMAIN Combined(x, t, c) :
              \E i \in DOMAIN x, j \in DOMAIN t, l \in DOMAIN c :
                Combined(x, t, c)[k] = Command(x[i], t[j], c[l])
         /\ \A i \in DOMAIN x, j \in DOMAIN t, l \in DOMAIN c :
              \E k \in DOMAIN Combined(x, t, c) :
                Combined(x, t, c)[k] = Command(x[i], t[j], c[l])
         /\ Distinct(x) /\ Distinct(t) /\ Distinct(c) => Distinct(Combined(x, t, c))
<1> DEFINE a == Len(x)
           b == Len(t)
           e == Len(c)
           p(i) == i \div (b * e)
           q(i) == (i \div e) % b
           r(i) == i % e
           w == Combined(x, t, c)
           n == a * b * e
<1>1. /\ a \in Nat /\ DOMAIN x = 1..a /\ b \in Nat /\ DOMAIN t = 1..b
      /\ e \in Nat /\ DOMAIN c = 1..e
  BY SeqIsSeq DEF IsSeq
<1>2. w = [i \in 1..n |-> Command(x[p(i - 1) + 1], t[q(i - 1) + 1], c[r(i - 1) + 1])]
  BY DEF Combined, Command
<1> HIDE DEF w, a, b, e
<1>3. n \in Nat /\ (n # 0 => a # 0 /\ b # 0 /\ e # 0)
  BY <1>1
<1>4. ASSUME NEW i \in 0..(n - 1)
      PROVE  /\ p(i) \in 0..(a - 1) /\ q(i) \in 0..(b - 1) /\ r(i) \in 0..(e - 1)
             /\ i = (p(i) * b + q(i)) * e + r(i)
  <2>1. a \in Nat \ {0} /\ b \in Nat \ {0} /\ e \in Nat \ {0}
    BY <1>1, <1>3, <1>4
  <2>2. AreDigits(a, b, e, i)
    BY <2>1, Digits
  <2> QED
    BY <2>2 DEF AreDigits
<1>5. ASSUME NEW i \in 0..(a - 1), NEW j \in 0..(b - 1), NEW l \in 0..(e - 1)
      PROVE  \E k \in 0..(n - 1) : p(k) = i /\ q(k) = j /\ r(k) = l
  <2>1. a \in Nat \ {0} /\ b \in Nat \ {0} /\ e \in Nat \ {0}
    BY <1>1, <1>5
  <2>2. Occur(a, b, e, i, j, l)
    BY <1>5, <2>1, Triple
  <2> QED
    BY <2>2 DEF Occur
<1> HIDE DEF n, p, q, r
<1>6. /\ DOMAIN w = 1..n
      /\ \A k \in 1..n : w[k] = Command(x[p(k - 1) + 1], t[q(k - 1) + 1], c[r(k - 1) + 1])
  BY <1>2
<1>7. IsSeq(w) /\ Len(w) = n
  BY <1>2, <1>3, <1>6, ListedIsSeq
<1>8. ASSUME NEW k \in DOMAIN w
      PROVE  /\ k - 1 \in 0..(n - 1)
             /\ p(k - 1) + 1 \in DOMAIN x /\ q(k - 1) + 1 \in DOMAIN t /\ r(k - 1) + 1 \in DOMAIN c
  <2>1. k - 1 \in 0..(n - 1)
    BY <1>3, <1>6, <1>8
  <2>2. p(k - 1) \in 0..(a - 1) /\ q(k - 1) \in 0..(b - 1) /\ r(k - 1) \in 0..(e - 1)
    BY <1>4, <2>1
  <2> QED
    BY <1>1, <2>1, <2>2
<1>9. \A k \in DOMAIN w :
        \E i \in DOMAIN x, j \in DOMAIN t, l \in DOMAIN c : w[k] = Command(x[i], t[j], c[l])
  BY <1>6, <1>8
<1>10. ASSUME NEW i \in DOMAIN x, NEW j \in DOMAIN t, NEW l \in DOMAIN c
       PROVE  \E k \in DOMAIN w : w[k] = Command(x[i], t[j], c[l])
  <2>1. i - 1 \in 0..(a - 1) /\ j - 1 \in 0..(b - 1) /\ l - 1 \in 0..(e - 1)
    BY <1>1
  <2>2. PICK k \in 0..(n - 1) : p(k) = i - 1 /\ q(k) = j - 1 /\ r(k) = l - 1
    BY <1>5, <2>1
  <2>3. k + 1 \in 1..n /\ (k + 1) - 1 = k /\ (i - 1) + 1 = i /\ (j - 1) + 1 = j /\ (l - 1) + 1 = l
    BY <1>1, <1>3
  <2>4. w[k + 1] = Command(x[i], t[j], c[l])
    BY <1>6, <2>2, <2>3
  <2> QED
    BY <1>6, <2>3, <2>4
<1>11. ASSUME Distinct(x), Distinct(t), Distinct(c), NEW k \in DOMAIN w, NEW l \in DOMAIN w, w[k] = w[l]
       PROVE  k = l
  <2>1. /\ x[p(k - 1) + 1] = x[p(l - 1) + 1] /\ t[q(k - 1) + 1] = t[q(l - 1) + 1]
        /\ c[r(k - 1) + 1] = c[r(l - 1) + 1]
    BY <1>6, <1>11 DEF Command
  <2>2. /\ p(k - 1) + 1 = p(l - 1) + 1 /\ q(k - 1) + 1 = q(l - 1) + 1
        /\ r(k - 1) + 1 = r(l - 1) + 1
    BY <1>8, <1>11, <2>1 DEF Distinct
  <2>3. /\ p(k - 1) \in Int /\ q(k - 1) \in Int /\ r(k - 1) \in Int
        /\ p(l - 1) \in Int /\ q(l - 1) \in Int /\ r(l - 1) \in Int
    BY <1>4, <1>8
  <2>4. p(k - 1) = p(l - 1) /\ q(k - 1) = q(l - 1) /\ r(k - 1) = r(l - 1)
    BY <2>2, <2>3
  <2>5. k - 1 = l - 1
    BY <1>4, <1>8, <2>4
  <2> QED
    BY <1>6, <2>5
<1> QED
  BY <1>3, <1>6, <1>7, <1>9, <1>10, <1>11 DEF Distinct, w

LEMMA OrAnyIs ==
  ASSUME NEW q, IsSeq(q)
  PROVE  /\ IsSeq(OrAny(q)) /\ (Distinct(q) => Distinct(OrAny(q)))
         /\ q = <<>> => DOMAIN OrAny(q) = {1} /\ OrAny(q)[1] = Wild
         /\ q # <<>> => OrAny(q) = q
<1>1. CASE q = <<>>
  <2>1. OrAny(q) = <<Wild>>
    BY <1>1 DEF OrAny
  <2>2. <<Wild>> \in Seq({Wild}) /\ DOMAIN <<Wild>> = {1} /\ <<Wild>>[1] = Wild
    OBVIOUS
  <2>3. IsSeq(<<Wild>>)
    BY <2>2, SeqIsSeq
  <2>4. Distinct(<<Wild>>)
    BY <2>2 DEF Distinct
  <2> QED
    BY <1>1, <2>1, <2>2, <2>3, <2>4
<1>2. CASE q # <<>>
  BY <1>2 DEF OrAny
<1> QED
  BY <1>1, <1>2

(* Each element of a set of size n once, in a list of length n. *)
LEMMA ListedOnce ==
  ASSUME NEW q, IsSeq(q), Distinct(q)
  PROVE  Len(q) = Cardinality({q[k] : k \in DOMAIN q})
<1> DEFINE T == {q[k] : k \in DOMAIN q}
           n == Len(q)
           f == [k \in 1..n |-> q[k]]
<1>1. n \in Nat /\ DOMAIN q = 1..n
  BY SeqIsSeq DEF IsSeq
<1> HIDE DEF n
<1>2. f \in [1..n -> T] /\ \A y \in T : \E k \in 1..n : f[k] = y
  BY <1>1
<1>3. \A k \in 1..n, l \in 1..n : f[k] = f[l] => k = l
  BY <1>1 DEF Distinct
<1> HIDE DEF f, T
<1>4. f \in Bijection(1..n, T)
  BY <1>2, <1>3 DEF Bijection, Injection, IsInjective, Surjection
<1>5. Cardinality(T) = n
  BY <1>1, <1>4, FS_CountingElements DEF ExistsBijection
<1> QED
  BY <1>5 DEF n, T

(* Whatever has been picked, offered or not. *)
LEMMA ProductIsMeant ==
  ASSUME NEW picks
  PROVE  /\ {Product(picks)[k] : k \in DOMAIN Product(picks)} = Meant(picks)
         /\ Len(Product(picks)) = Cardinality(Meant(picks))
<1> DEFINE q(s) == Selected(picks, s)
           o(s) == OrAny(q(s))
           S(s) == Chosen(picks, s)
           W(s) == OrWild(S(s))
           P    == Product(picks)
<1>1. P = Combined(q("exchange"), o("token"), o("chain"))
  BY DEF Product
<1>2. ASSUME NEW s \in Steps
      PROVE  /\ IsSeq(q(s)) /\ Distinct(q(s))
             /\ \A k \in DOMAIN q(s) : q(s)[k] \in S(s)
             /\ \A y \in S(s) : \E k \in DOMAIN q(s) : q(s)[k] = y
             /\ q(s) = <<>> <=> S(s) = {}
  <2>1. /\ IsSeq(q(s))
        /\ \A k \in DOMAIN q(s) : \E i \in DOMAIN Options[s] : Options[s][i] \in picks[s] /\ q(s)[k] = Options[s][i]
        /\ \A i \in DOMAIN Options[s] : Options[s][i] \in picks[s] => \E k \in DOMAIN q(s) : q(s)[k] = Options[s][i]
        /\ Distinct(q(s))
    BY SelectedIs DEF Distinct
  <2> HIDE DEF q
  <2>2. \A k \in DOMAIN q(s) : q(s)[k] \in S(s)
    BY <2>1 DEF Chosen
  <2>3. \A y \in S(s) : \E k \in DOMAIN q(s) : q(s)[k] = y
    BY <2>1 DEF Chosen
  <2> HIDE DEF S
  <2>4. q(s) = <<>> <=> DOMAIN q(s) = {}
    <3>1. q(s) \in Seq({q(s)[i] : i \in DOMAIN q(s)})
      BY <2>1 DEF IsSeq
    <3>2. Len(q(s)) \in Nat /\ DOMAIN q(s) = 1..Len(q(s))
      BY <2>1, <3>1, SeqIsSeq
    <3> QED
      BY <3>1, <3>2, EmptySeq
  <2> QED
    BY <2>1, <2>2, <2>3, <2>4
<1> HIDE DEF q, S
<1>3. ASSUME NEW s \in Steps
      PROVE  /\ IsSeq(o(s)) /\ Distinct(o(s))
             /\ \A k \in DOMAIN o(s) : o(s)[k] \in W(s)
             /\ \A y \in W(s) : \E k \in DOMAIN o(s) : o(s)[k] = y
  <2>1. CASE q(s) = <<>>
    <3>1. W(s) = {Wild} /\ DOMAIN o(s) = {1} /\ o(s)[1] = Wild /\ IsSeq(o(s)) /\ Distinct(o(s))
      BY <1>2, <2>1, OrAnyIs DEF OrWild
    <3> QED
      BY <3>1
  <2>2. CASE q(s) # <<>>
    <3>1. o(s) = q(s) /\ W(s) = S(s)
      BY <1>2, <2>2, OrAnyIs DEF OrWild
    <3> QED
      BY <1>2, <3>1
  <2> QED
    BY <2>1, <2>2
<1> HIDE DEF o, W, P
<1>4. "exchange" \in Steps /\ "token" \in Steps /\ "chain" \in Steps
  BY BotAssumption
<1>5. /\ IsSeq(q("exchange")) /\ IsSeq(o("token")) /\ IsSeq(o("chain"))
      /\ Distinct(q("exchange")) /\ Distinct(o("token")) /\ Distinct(o("chain"))
  BY <1>2, <1>3, <1>4
<1>6. /\ IsSeq(P) /\ Distinct(P)
      /\ \A k \in DOMAIN P :
           \E i \in DOMAIN q("exchange"), j \in DOMAIN o("token"), l \in DOMAIN o("chain") :
             P[k] = Command(q("exchange")[i], o("token")[j], o("chain")[l])
      /\ \A i \in DOMAIN q("exchange"), j \in DOMAIN o("token"), l \in DOMAIN o("chain") :
           \E k \in DOMAIN P :
             P[k] = Command(q("exchange")[i], o("token")[j], o("chain")[l])
  BY <1>1, <1>5, CombinedIs
<1>7. Meant(picks) = {Command(x, t, n) : x \in S("exchange"), t \in W("token"), n \in W("chain")}
  BY DEF Meant, Command, S, W
<1>8. \A k \in DOMAIN P : P[k] \in Meant(picks)
  BY <1>2, <1>3, <1>4, <1>6, <1>7
<1>9. ASSUME NEW x \in S("exchange"), NEW t \in W("token"), NEW n \in W("chain")
      PROVE  \E k \in DOMAIN P : P[k] = Command(x, t, n)
  <2>1. PICK i \in DOMAIN q("exchange") : q("exchange")[i] = x
    BY <1>2, <1>4
  <2>2. PICK j \in DOMAIN o("token") : o("token")[j] = t
    BY <1>3, <1>4
  <2>3. PICK l \in DOMAIN o("chain") : o("chain")[l] = n
    BY <1>3, <1>4
  <2> QED
    BY <1>6, <2>1, <2>2, <2>3
<1>10. {P[k] : k \in DOMAIN P} = Meant(picks)
  BY <1>7, <1>8, <1>9
<1>11. Len(P) = Cardinality(Meant(picks))
  BY <1>6, <1>10, ListedOnce
<1> QED
  BY <1>10, <1>11 DEF P

(* SavesWhatIsPicked: buildDemoSubscribeCommands makes of any selection what it means, *)
(* whatever is offered and whatever an old keyboard has put into the session. *)
THEOREM SavesArePicked == Spec => []SavesWhatIsPicked
<1>1. SavesWhatIsPicked
  BY ProductIsMeant DEF SavesWhatIsPicked
<1> QED
  BY <1>1, PTL

-----------------------------------------------------------------------------
(* One replica, alone and without mishaps: what an update means *)

(* The first n rules that u wants may be saved. *)
Fits(now, u, n) ==
  /\ n = 0 \/ Cardinality(now.rules[u.chat]) + n <= Cap
  /\ \A i \in 1..n : Resolvable(Wanted(u, now.session[u.chat])[i])

Firsts(now, u, n) ==
  {Rule(now.serial + i, Wanted(u, now.session[u.chat])[i]) : i \in 1..n}

Saved(now, u, n) == [now.rules EXCEPT ![u.chat] = @ \cup Firsts(now, u, n)]

WellFormed(now) ==
  /\ now.rules = [c \in Chats |-> now.rules[c]] /\ now.session = [c \in Chats |-> now.session[c]]
  /\ now.serial \in Nat
  /\ \A c \in Chats : IsFiniteSet(now.rules[c]) /\ \A x \in now.rules[c] : x.id \in 1..now.serial

LEMMA WantedIsSeq ==
  ASSUME NEW u, NEW picks
  PROVE  IsSeq(Wanted(u, picks)) /\ Len(Wanted(u, picks)) \in Nat
<1> DEFINE w == Wanted(u, picks)
<1>1. ASSUME NEW p PROVE IsSeq(Product(p))
  <2>1. \A s \in Steps : IsSeq(Selected(p, s)) /\ IsSeq(OrAny(Selected(p, s)))
    BY SelectedIs, OrAnyIs
  <2>2. "exchange" \in Steps /\ "token" \in Steps /\ "chain" \in Steps
    BY BotAssumption
  <2> QED
    BY <2>1, <2>2, CombinedIs DEF Product
<1>2. IsSeq(<<>>) /\ \A x : IsSeq(<<x>>)
  <2>1. <<>> \in Seq({})
    BY EmptySeq
  <2>2. \A x : <<x>> \in Seq({x})
    OBVIOUS
  <2> QED
    BY <2>1, <2>2, SeqIsSeq
<1>3. IsSeq(w)
  BY <1>1, <1>2 DEF Wanted
<1> QED
  BY <1>3, SeqIsSeq DEF IsSeq

LEMMA WantedBy ==
  ASSUME NEW u, NEW picks, Wanted(u, picks) # <<>>
  PROVE  u.do \in {"subscribe", "save", "all"}
  BY DEF Wanted

(* Rules that are told apart by their ids. *)
LEMMA FirstsCount ==
  ASSUME NEW now, WellFormed(now), NEW u, u.chat \in Chats, NEW n \in Nat
  PROVE  /\ Cardinality(now.rules[u.chat]) \in Nat
         /\ IsFiniteSet(now.rules[u.chat] \cup Firsts(now, u, n))
         /\ Cardinality(now.rules[u.chat] \cup Firsts(now, u, n)) = Cardinality(now.rules[u.chat]) + n
<1> DEFINE old == now.rules[u.chat]
           new == Firsts(now, u, n)
           w   == Wanted(u, now.session[u.chat])
           f   == [i \in 1..n |-> Rule(now.serial + i, w[i])]
<1>1. IsFiniteSet(old) /\ Cardinality(old) \in Nat /\ now.serial \in Nat
      /\ \A x \in old : x.id \in 1..now.serial
  BY FS_CardinalityType DEF WellFormed
<1>2. f \in [1..n -> new] /\ \A y \in new : \E i \in 1..n : f[i] = y
  BY DEF Firsts
<1>3. \A i \in 1..n : f[i].id = now.serial + i
  BY DEF Rule
<1>4. \A y \in new : y.id \notin 1..now.serial
  BY <1>1, <1>2, <1>3
<1> HIDE DEF f, new, old
<1>5. f \in Bijection(1..n, new)
  <2>1. \A i \in 1..n, k \in 1..n : f[i] = f[k] => i = k
    BY <1>1, <1>3
  <2> QED
    BY <1>2, <2>1 DEF Bijection, Injection, IsInjective, Surjection
<1>6. IsFiniteSet(1..n) /\ Cardinality(1..n) = n
  BY FS_Interval
<1>7. IsFiniteSet(new) /\ Cardinality(new) = n
  BY <1>5, <1>6, FS_Bijection DEF ExistsBijection
<1>8. old \cap new = {}
  BY <1>1, <1>4
<1>9. IsFiniteSet(old \cup new)
      /\ Cardinality(old \cup new) = Cardinality(old) + Cardinality(new) - Cardinality(old \cap new)
  BY <1>1, <1>7, FS_Union
<1>10. Cardinality(old \cap new) = 0
  BY <1>8, FS_EmptySet
<1> QED
  BY <1>1, <1>7, <1>9, <1>10 DEF old, new

LEMMA SavedNone ==
  ASSUME NEW now, WellFormed(now), NEW u
  PROVE  Saved(now, u, 0) = now.rules
<1>1. Firsts(now, u, 0) = {}
  BY DEF Firsts
<1> QED
  BY <1>1 DEF Saved, WellFormed

(* What u makes of its chat when its first n rules are saved. *)
RulesAfter(now, u, n) ==
  CASE u.do = "reset"       -> {}
    [] u.do = "unsubscribe" -> Without(now.rules[u.chat], u.rule)
    [] OTHER                -> now.rules[u.chat] \cup Firsts(now, u, n)

SessionAfter(now, u, n) ==
  IF \/ u.do = "reset"
     \/ /\ u.do \in {"save", "all"} /\ Wanted(u, now.session[u.chat]) # <<>>
        /\ n = Len(Wanted(u, now.session[u.chat]))
  THEN NewSession ELSE Picked(u, now.session[u.chat])

(* A save stops at the first rule that does not fit. *)
LEMMA IdeallySaves ==
  ASSUME NEW now, WellFormed(now), NEW u, u.chat \in Chats, u.chat \in Allowed,
         NEW j \in Nat, j <= Len(Wanted(u, now.session[u.chat])), Fits(now, u, j),
         j = Len(Wanted(u, now.session[u.chat])) \/ ~Fits(now, u, j + 1)
  PROVE  /\ Ideally(now, u).rules = [now.rules EXCEPT ![u.chat] = RulesAfter(now, u, j)]
         /\ Ideally(now, u).serial = now.serial + j
         /\ Ideally(now, u).session = [now.session EXCEPT ![u.chat] = SessionAfter(now, u, j)]
<1> DEFINE w == Wanted(u, now.session[u.chat])
           F(n) == Fits(now, u, n)
           saved == CHOOSE n \in 0..Len(w) : F(n) /\ \A k \in (n + 1)..Len(w) : ~F(k)
<1>1. Len(w) \in Nat /\ Cardinality(now.rules[u.chat]) \in Nat /\ Cap \in Nat
  BY WantedIsSeq, FS_CardinalityType, BotAssumption DEF WellFormed
<1> HIDE DEF w
<1>2. ASSUME NEW k \in Nat, NEW n \in Nat, F(k), n < k PROVE F(n)
  <2>1. Cardinality(now.rules[u.chat]) + n <= Cap
    BY <1>1, <1>2 DEF Fits
  <2>2. \A i \in 1..n : i \in 1..k
    BY <1>2
  <2> QED
    BY <1>2, <2>1, <2>2 DEF Fits
<1>3. F(j) /\ (j = Len(w) \/ ~F(j + 1)) /\ j <= Len(w)
  BY DEF w
<1> HIDE DEF F
<1>4. \A k \in (j + 1)..Len(w) : ~F(k)
  <2> SUFFICES ASSUME NEW k \in (j + 1)..Len(w), F(k) PROVE FALSE
    OBVIOUS
  <2>1. j # Len(w) /\ k \in Nat /\ j + 1 \in Nat /\ j + 1 <= k
    BY <1>1
  <2>2. F(j + 1)
    BY <1>2, <2>1
  <2> QED
    BY <1>3, <2>1, <2>2
<1>5. saved = j
  <2>1. saved \in 0..Len(w) /\ F(saved) /\ \A k \in (saved + 1)..Len(w) : ~F(k)
    BY <1>1, <1>3, <1>4
  <2> HIDE DEF saved
  <2>2. ~(saved < j)
    BY <1>1, <1>3, <2>1
  <2>3. ~(j < saved)
    BY <1>1, <1>4, <2>1
  <2> QED
    BY <1>1, <2>1, <2>2, <2>3
<1> HIDE DEF saved
<1>6. Ideally(now, u) = [rules   |-> [now.rules EXCEPT ![u.chat] = RulesAfter(now, u, saved)],
                         serial  |-> now.serial + saved,
                         session |-> [now.session EXCEPT ![u.chat] = SessionAfter(now, u, saved)]]
  BY DEF Ideally, saved, w, F, Fits, Firsts, RulesAfter, SessionAfter
<1> QED
  BY <1>5, <1>6

(* An update that saves nothing. *)
LEMMA IdeallyNothing ==
  ASSUME NEW now, WellFormed(now), NEW u, u.chat \in Chats, u.chat \in Allowed,
         Wanted(u, now.session[u.chat]) = <<>>
  PROVE  /\ Ideally(now, u).serial = now.serial
         /\ u.do \notin {"reset", "unsubscribe"} =>
              /\ Ideally(now, u).rules = now.rules
              /\ Ideally(now, u).session = [now.session EXCEPT ![u.chat] = Picked(u, @)]
         /\ u.do = "unsubscribe" =>
              /\ Ideally(now, u).rules = [now.rules EXCEPT ![u.chat] = Without(@, u.rule)]
              /\ Ideally(now, u).session = now.session
         /\ u.do = "reset" =>
              /\ Ideally(now, u).rules = [now.rules EXCEPT ![u.chat] = {}]
              /\ Ideally(now, u).session = [now.session EXCEPT ![u.chat] = NewSession]
<1>1. 0 \in Nat /\ 0 <= Len(Wanted(u, now.session[u.chat])) /\ Fits(now, u, 0)
      /\ 0 = Len(Wanted(u, now.session[u.chat]))
  BY EmptySeq DEF Fits
<1>2. /\ Ideally(now, u).rules = [now.rules EXCEPT ![u.chat] = RulesAfter(now, u, 0)]
      /\ Ideally(now, u).serial = now.serial + 0
      /\ Ideally(now, u).session = [now.session EXCEPT ![u.chat] = SessionAfter(now, u, 0)]
  BY <1>1, IdeallySaves
<1>3. Ideally(now, u).serial = now.serial
  BY <1>2 DEF WellFormed
<1>4. ASSUME u.do \notin {"reset", "unsubscribe"}
      PROVE  /\ Ideally(now, u).rules = now.rules
             /\ Ideally(now, u).session = [now.session EXCEPT ![u.chat] = Picked(u, @)]
  <2>1. RulesAfter(now, u, 0) = now.rules[u.chat] \cup Firsts(now, u, 0)
    BY <1>4 DEF RulesAfter
  <2>2. Ideally(now, u).rules = Saved(now, u, 0)
    BY <1>2, <2>1 DEF Saved
  <2>3. SessionAfter(now, u, 0) = Picked(u, now.session[u.chat])
    BY <1>4 DEF SessionAfter
  <2> QED
    BY <1>2, <2>2, <2>3, SavedNone
<1>5. ASSUME u.do = "unsubscribe"
      PROVE  /\ Ideally(now, u).rules = [now.rules EXCEPT ![u.chat] = Without(@, u.rule)]
             /\ Ideally(now, u).session = now.session
  <2>1. RulesAfter(now, u, 0) = Without(now.rules[u.chat], u.rule)
    BY <1>5 DEF RulesAfter
  <2>2. SessionAfter(now, u, 0) = now.session[u.chat]
    BY <1>5 DEF SessionAfter, Picked
  <2>3. [now.session EXCEPT ![u.chat] = @] = now.session
    BY DEF WellFormed
  <2> QED
    BY <1>2, <2>1, <2>2, <2>3
<1>6. ASSUME u.do = "reset"
      PROVE  /\ Ideally(now, u).rules = [now.rules EXCEPT ![u.chat] = {}]
             /\ Ideally(now, u).session = [now.session EXCEPT ![u.chat] = NewSession]
  <2>1. RulesAfter(now, u, 0) = {} /\ SessionAfter(now, u, 0) = NewSession
    BY <1>6 DEF RulesAfter, SessionAfter
  <2> QED
    BY <1>2, <2>1
<1> QED
  BY <1>3, <1>4, <1>5, <1>6

(* A save that gets as far as its first j rules. *)
LEMMA IdeallyFirst ==
  ASSUME NEW now, WellFormed(now), NEW u, u.chat \in Chats, u.chat \in Allowed,
         Wanted(u, now.session[u.chat]) # <<>>,
         NEW j \in Nat, j <= Len(Wanted(u, now.session[u.chat])), Fits(now, u, j),
         j = Len(Wanted(u, now.session[u.chat])) \/ ~Fits(now, u, j + 1)
  PROVE  /\ Ideally(now, u).rules = Saved(now, u, j)
         /\ Ideally(now, u).serial = now.serial + j
         /\ Ideally(now, u).session = [now.session EXCEPT ![u.chat] = SessionAfter(now, u, j)]
<1>1. /\ Ideally(now, u).rules = [now.rules EXCEPT ![u.chat] = RulesAfter(now, u, j)]
      /\ Ideally(now, u).serial = now.serial + j
      /\ Ideally(now, u).session = [now.session EXCEPT ![u.chat] = SessionAfter(now, u, j)]
  BY IdeallySaves
<1>2. RulesAfter(now, u, j) = now.rules[u.chat] \cup Firsts(now, u, j)
  BY WantedBy DEF RulesAfter
<1> QED
  BY <1>1, <1>2 DEF Saved

(* A save that stops keeps the session. *)
LEMMA SessionStays ==
  ASSUME NEW now, WellFormed(now), NEW u, u.chat \in Chats, u.chat \in Allowed,
         Wanted(u, now.session[u.chat]) # <<>>,
         NEW j \in Nat, u.do = "subscribe" \/ j # Len(Wanted(u, now.session[u.chat]))
  PROVE  [now.session EXCEPT ![u.chat] = SessionAfter(now, u, j)] = now.session
<1>1. u.do \in {"subscribe", "save", "all"}
  BY WantedBy
<1>2. SessionAfter(now, u, j) = Picked(u, now.session[u.chat])
  BY <1>1 DEF SessionAfter
<1>3. Picked(u, now.session[u.chat]) = now.session[u.chat]
  BY <1>1 DEF Picked
<1> QED
  BY <1>2, <1>3 DEF WellFormed

(* A wizard that has saved everything forgets it. *)
LEMMA SessionEnds ==
  ASSUME NEW now, WellFormed(now), NEW u, u.chat \in Chats, u.chat \in Allowed,
         Wanted(u, now.session[u.chat]) # <<>>,
         u.do # "subscribe"
  PROVE  SessionAfter(now, u, Len(Wanted(u, now.session[u.chat]))) = NewSession
BY WantedBy DEF SessionAfter

LEMMA IdeallyRefused ==
  ASSUME NEW now, NEW u, u.chat \notin Allowed
  PROVE  Ideally(now, u) = now
  BY DEF Ideally

(* Some number of rules fits, and one more does not. *)
LEMMA HowManyFit ==
  ASSUME NEW now, NEW u
  PROVE  \E j \in Nat : /\ j <= Len(Wanted(u, now.session[u.chat])) /\ Fits(now, u, j)
                        /\ j = Len(Wanted(u, now.session[u.chat])) \/ ~Fits(now, u, j + 1)
<1> DEFINE n       == Len(Wanted(u, now.session[u.chat]))
           Above   == {(j + 1)..n : j \in {k \in 0..n : Fits(now, u, k)}}
           smaller == StrictSubsetOrdering(Nat)
<1>1. n \in Nat
  BY WantedIsSeq
<1> HIDE DEF n
<1>2. Fits(now, u, 0)
  BY DEF Fits
<1>3. Above # {}
  BY <1>1, <1>2
<1>4. Above \subseteq FiniteSubsetsOf(Nat)
  <2>1. \A j \in 0..n : (j + 1)..n \subseteq Nat /\ IsFiniteSet((j + 1)..n)
    BY <1>1, FS_Interval
  <2> QED
    BY <2>1 DEF FiniteSubsetsOf
<1>5. IsWellFoundedOn(smaller, FiniteSubsetsOf(Nat))
  BY FS_StrictSubsetOrderingWellFounded
<1>6. PICK B \in Above : \A A \in Above : <<A, B>> \notin smaller
  <2> HIDE DEF Above, smaller
  <2> QED
    BY <1>3, <1>4, <1>5, WFMin
<1>7. PICK j \in 0..n : Fits(now, u, j) /\ B = (j + 1)..n
  OBVIOUS
<1>8. ASSUME j # n, Fits(now, u, j + 1) PROVE FALSE
  <2>1. j + 1 \in 0..n
    BY <1>1, <1>8
  <2>2. ((j + 1) + 1)..n \in Above
    BY <1>8, <2>1
  <2>3. ((j + 1) + 1)..n \subseteq B /\ j + 1 \in B /\ j + 1 \notin ((j + 1) + 1)..n
    BY <1>1, <1>7, <2>1
  <2>4. <<((j + 1) + 1)..n, B>> \in smaller
    BY <1>1, <1>7, <2>3 DEF StrictSubsetOrdering
  <2> QED
    BY <1>6, <2>2, <2>4
<1> QED
  BY <1>1, <1>7, <1>8 DEF n

LEMMA IdeallyWellFormed ==
  ASSUME NEW now, WellFormed(now), NEW u, u.chat \in Chats
  PROVE  WellFormed(Ideally(now, u))
<1>1. CASE u.chat \notin Allowed
  BY <1>1, IdeallyRefused
<1>2. CASE u.chat \in Allowed
  <2>1. PICK j \in Nat : /\ j <= Len(Wanted(u, now.session[u.chat])) /\ Fits(now, u, j)
                         /\ j = Len(Wanted(u, now.session[u.chat])) \/ ~Fits(now, u, j + 1)
    BY HowManyFit
  <2>2. /\ Ideally(now, u).rules = [now.rules EXCEPT ![u.chat] = RulesAfter(now, u, j)]
        /\ Ideally(now, u).serial = now.serial + j
        /\ Ideally(now, u).session = [now.session EXCEPT ![u.chat] = SessionAfter(now, u, j)]
    BY <1>2, <2>1, IdeallySaves
  <2>3. RulesAfter(now, u, j) \subseteq now.rules[u.chat] \cup Firsts(now, u, j)
    BY DEF RulesAfter, Without
  <2>4. IsFiniteSet(RulesAfter(now, u, j))
    BY <2>3, FirstsCount, FS_Subset
  <2>5. \A x \in Firsts(now, u, j) : x.id \in 1..(now.serial + j)
    BY DEF Firsts, Rule, WellFormed
  <2>6. \A k \in Chats : \A x \in now.rules[k] : x.id \in 1..(now.serial + j)
    BY DEF WellFormed
  <2>7. \A x \in RulesAfter(now, u, j) : x.id \in 1..(now.serial + j)
    BY <2>3, <2>5, <2>6
  <2> DEFINE after == Ideally(now, u)
  <2> HIDE DEF after
  <2>8. after.rules = [k \in Chats |-> after.rules[k]]
        /\ \A k \in Chats : after.rules[k] = IF k = u.chat THEN RulesAfter(now, u, j) ELSE now.rules[k]
    BY <2>2 DEF WellFormed, after
  <2>9. after.session = [k \in Chats |-> after.session[k]]
    BY <2>2 DEF WellFormed, after
  <2>10. after.serial = now.serial + j /\ after.serial \in Nat
    BY <2>2 DEF WellFormed, after
  <2>11. ASSUME NEW k \in Chats
         PROVE  IsFiniteSet(after.rules[k]) /\ \A x \in after.rules[k] : x.id \in 1..after.serial
    <3>1. CASE k = u.chat
      BY <2>4, <2>7, <2>8, <2>10, <3>1
    <3>2. CASE k # u.chat
      <4>1. after.rules[k] = now.rules[k]
        BY <2>8, <3>2
      <4> QED
        BY <2>6, <2>10, <4>1 DEF WellFormed
    <3> QED
      BY <3>1, <3>2
  <2>12. WellFormed(after)
    BY <2>8, <2>9, <2>10, <2>11 DEF WellFormed
  <2> QED
    BY <2>12 DEF after
<1> QED
  BY <1>1, <1>2

LEMMA IdeallyStays ==
  ASSUME NEW now, WellFormed(now), NEW u, u.chat \in Chats, u.do \in {"look", "other"}
  PROVE  /\ Ideally(now, u).rules = now.rules /\ Ideally(now, u).serial = now.serial
         /\ Ideally(now, u).session = now.session
<1>1. CASE u.chat \notin Allowed
  BY <1>1, IdeallyRefused
<1>2. CASE u.chat \in Allowed
  <2>1. Wanted(u, now.session[u.chat]) = <<>>
    BY DEF Wanted
  <2>2. /\ Ideally(now, u).rules = now.rules /\ Ideally(now, u).serial = now.serial
        /\ Ideally(now, u).session = [now.session EXCEPT ![u.chat] = Picked(u, @)]
    BY <1>2, <2>1, IdeallyNothing
  <2>3. Picked(u, now.session[u.chat]) = now.session[u.chat]
    BY DEF Picked
  <2> QED
    BY <2>2, <2>3 DEF WellFormed
<1> QED
  BY <1>1, <1>2

-----------------------------------------------------------------------------
(* One replica, alone and without mishaps: how its handler gets there *)

Agrees(now, some, last, picks) ==
  now.rules = some /\ now.serial = last /\ now.session = picks

(* How far a handler is that has started from now with u: a save has saved its first j *)
(* rules, and if it has counted, one more fits.                                *)
Midway(hand, now, u, some, last) ==
  /\ hand.at \in {"begin", "count", "insert", "jobs"}
  /\ hand.at = "begin" => some = now.rules /\ last = now.serial
  /\ hand.at # "begin" => u.chat \in Allowed
  /\ hand.at \in {"count", "insert"} =>
       \E j \in Nat :
         /\ Fits(now, u, j) /\ (hand.at = "insert" => Fits(now, u, j + 1))
         /\ IsSeq(hand.todo) /\ hand.todo # <<>>
         /\ Len(hand.todo) = Len(Wanted(u, now.session[u.chat])) - j
         /\ \A k \in 1..Len(hand.todo) : hand.todo[k] = Wanted(u, now.session[u.chat])[j + k]
         /\ some = Saved(now, u, j) /\ last = now.serial + j
  /\ hand.at = "jobs" =>
       u.do = "reset" /\ some = [now.rules EXCEPT ![u.chat] = {}] /\ last = now.serial

Facing(r, now, u) ==
  /\ u = Now(r) /\ WellFormed(now) /\ u.chat \in Chats /\ bot[r].session = now.session
  /\ Midway(bot[r].hand, now, u, rules, serial)

(* A step of a handler leaves what u makes of now, or goes on towards it.      *)
Ends(r, now, u) ==
  /\ bot'[r].hand = Idle /\ finished' = finished \cup {bot[r].hand.update.id}
  /\ Agrees(Ideally(now, u), rules', serial', bot'[r].session)

GoesOn(r, now, u) ==
  /\ bot'[r].hand.at # "idle" /\ bot'[r].hand.update = bot[r].hand.update
  /\ finished' = finished /\ bot'[r].session = bot[r].session
  /\ Midway(bot'[r].hand, now, u, rules', serial')

LEMMA ReturnsFields ==
  ASSUME Typed, NEW r \in Replicas, NEW picks, Returns(r, picks)
  PROVE  /\ bot'[r].hand = Idle /\ finished' = finished \cup {bot[r].hand.update.id}
         /\ bot'[r].session = [bot[r].session EXCEPT ![Now(r).chat] = picks]
BY DEF Typed, Fields, Returns

LEMMA IgnoreEnds ==
  ASSUME Typed, NEW r \in Replicas, NEW now, NEW u, Facing(r, now, u), Ignore(r)
  PROVE  Ends(r, now, u)
<1>1. Ideally(now, u) = now /\ rules' = now.rules /\ serial' = now.serial
  BY IdeallyRefused DEF Facing, Midway, Ignore, At, chatvars
<1>2. /\ bot'[r].hand = Idle /\ finished' = finished \cup {bot[r].hand.update.id}
      /\ bot'[r].session = [bot[r].session EXCEPT ![Now(r).chat] = Mine(r)]
  BY ReturnsFields DEF Ignore
<1>3. bot'[r].session = now.session
  BY <1>2 DEF Facing, Mine, WellFormed
<1> QED
  BY <1>1, <1>2, <1>3 DEF Ends, Agrees

LEMMA AnswerEnds ==
  ASSUME Typed, NEW r \in Replicas, NEW now, NEW u, Facing(r, now, u), Answer(r)
  PROVE  Ends(r, now, u)
<1>1. /\ Ideally(now, u).rules = now.rules /\ Ideally(now, u).serial = now.serial
      /\ Ideally(now, u).session = now.session
  BY IdeallyStays DEF Facing, Answer
<1>2. rules' = now.rules /\ serial' = now.serial
  BY DEF Facing, Midway, Answer, At, chatvars
<1>3. /\ bot'[r].hand = Idle /\ finished' = finished \cup {bot[r].hand.update.id}
      /\ bot'[r].session = [bot[r].session EXCEPT ![Now(r).chat] = Mine(r)]
  BY ReturnsFields DEF Answer
<1>4. bot'[r].session = now.session
  BY <1>3 DEF Facing, Mine, WellFormed
<1> QED
  BY <1>1, <1>2, <1>3, <1>4 DEF Ends, Agrees

LEMMA PressEnds ==
  ASSUME Typed, NEW r \in Replicas, NEW now, NEW u, Facing(r, now, u), Press(r)
  PROVE  Ends(r, now, u)
<1>1. Mine(r) = now.session[u.chat] /\ u = Now(r)
  BY DEF Facing, Mine
<1>2. /\ Ideally(now, u).rules = now.rules /\ Ideally(now, u).serial = now.serial
      /\ Ideally(now, u).session = [now.session EXCEPT ![u.chat] = Picked(u, @)]
  <2>1. /\ WellFormed(now) /\ u.chat \in Chats /\ u.chat \in Allowed
        /\ Wanted(u, now.session[u.chat]) = <<>> /\ u.do \notin {"reset", "unsubscribe"}
    BY <1>1 DEF Facing, Press
  <2> QED
    BY <2>1, IdeallyNothing
<1>3. rules' = now.rules /\ serial' = now.serial
  BY DEF Facing, Midway, Press, At, chatvars
<1>4. /\ bot'[r].hand = Idle /\ finished' = finished \cup {bot[r].hand.update.id}
      /\ bot'[r].session = [bot[r].session EXCEPT ![u.chat] = Picked(u, now.session[u.chat])]
  BY <1>1, ReturnsFields DEF Press
<1>5. bot'[r].session = [now.session EXCEPT ![u.chat] = Picked(u, @)]
  BY <1>4 DEF Facing
<1> QED
  BY <1>2, <1>3, <1>4, <1>5 DEF Ends, Agrees

LEMMA UnsubscribeEnds ==
  ASSUME Typed, NEW r \in Replicas, NEW now, NEW u, Facing(r, now, u), Unsubscribe(r)
  PROVE  Ends(r, now, u)
<1>1. /\ Ideally(now, u).rules = [now.rules EXCEPT ![u.chat] = Without(@, u.rule)]
      /\ Ideally(now, u).serial = now.serial /\ Ideally(now, u).session = now.session
  <2>1. /\ WellFormed(now) /\ u.chat \in Chats /\ u.chat \in Allowed
        /\ Wanted(u, now.session[u.chat]) = <<>> /\ u.do = "unsubscribe"
    BY DEF Facing, Unsubscribe, Wanted
  <2> QED
    BY <2>1, IdeallyNothing
<1>2. rules' = [now.rules EXCEPT ![u.chat] = Without(@, u.rule)] /\ serial' = now.serial
  BY DEF Facing, Midway, Unsubscribe, At
<1>3. /\ bot'[r].hand = Idle /\ finished' = finished \cup {bot[r].hand.update.id}
      /\ bot'[r].session = [bot[r].session EXCEPT ![Now(r).chat] = Mine(r)]
  BY ReturnsFields DEF Unsubscribe
<1>4. bot'[r].session = now.session
  BY <1>3 DEF Facing, Mine, WellFormed
<1> QED
  BY <1>1, <1>2, <1>3, <1>4 DEF Ends, Agrees

LEMMA ResetGoesOn ==
  ASSUME Typed, NEW r \in Replicas, NEW now, NEW u, Facing(r, now, u), Reset(r)
  PROVE  GoesOn(r, now, u)
<1>1. /\ bot'[r].hand = [bot[r].hand EXCEPT !.at = "jobs"] /\ bot'[r].session = bot[r].session
      /\ finished' = finished
  BY DEF Reset, history, Typed, Fields
<1>2. bot'[r].hand.at = "jobs" /\ bot'[r].hand.update = bot[r].hand.update
  BY <1>1 DEF Typed, Reset, At
<1>3. /\ u.do = "reset" /\ u.chat \in Allowed
      /\ rules' = [now.rules EXCEPT ![u.chat] = {}] /\ serial' = now.serial
  BY DEF Facing, Midway, Reset, At
<1> QED
  BY <1>1, <1>2, <1>3 DEF GoesOn, Midway

LEMMA ResetJobsEnds ==
  ASSUME Typed, NEW r \in Replicas, NEW now, NEW u, Facing(r, now, u), ResetJobs(r)
  PROVE  Ends(r, now, u)
<1>1. /\ u.do = "reset" /\ u.chat \in Allowed
      /\ rules' = [now.rules EXCEPT ![u.chat] = {}] /\ serial' = now.serial
  BY DEF Facing, Midway, ResetJobs, At, chatvars
<1>2. Wanted(u, now.session[u.chat]) = <<>>
  BY <1>1 DEF Wanted
<1>3. /\ Ideally(now, u).rules = [now.rules EXCEPT ![u.chat] = {}]
      /\ Ideally(now, u).serial = now.serial
      /\ Ideally(now, u).session = [now.session EXCEPT ![u.chat] = NewSession]
  <2>1. /\ WellFormed(now) /\ u.chat \in Chats /\ u.chat \in Allowed
        /\ Wanted(u, now.session[u.chat]) = <<>> /\ u.do = "reset"
    BY <1>1, <1>2 DEF Facing
  <2> QED
    BY <2>1, IdeallyNothing
<1>4. /\ bot'[r].hand = Idle /\ finished' = finished \cup {bot[r].hand.update.id}
      /\ bot'[r].session = [bot[r].session EXCEPT ![Now(r).chat] = NewSession]
  BY ReturnsFields DEF ResetJobs
<1>5. bot'[r].session = [now.session EXCEPT ![u.chat] = NewSession]
  BY <1>4 DEF Facing
<1> QED
  BY <1>1, <1>3, <1>4, <1>5 DEF Ends, Agrees

LEMMA BeginCreateGoesOn ==
  ASSUME Typed, NEW r \in Replicas, NEW now, NEW u, Facing(r, now, u), BeginCreate(r)
  PROVE  GoesOn(r, now, u)
<1> DEFINE w == Wanted(u, now.session[u.chat])
<1>1. WellFormed(now) /\ u.chat \in Allowed /\ Wanted(Now(r), Mine(r)) = w /\ w # <<>>
  BY DEF Facing, Mine, BeginCreate
<1>2. IsSeq(w) /\ Len(w) \in Nat
  BY WantedIsSeq
<1>3. /\ bot'[r].session = bot[r].session /\ finished' = finished
      /\ bot'[r].hand = [bot[r].hand EXCEPT !.at = "count", !.todo = Wanted(Now(r), Mine(r))]
  BY DEF BeginCreate, history, Typed, Fields
<1>4. /\ bot'[r].hand.at = "count" /\ bot'[r].hand.todo = w
      /\ bot'[r].hand.update = bot[r].hand.update
  <2> HIDE DEF w
  <2> QED
    BY <1>1, <1>3 DEF Typed, BeginCreate, At
<1>5. rules' = Saved(now, u, 0) /\ serial' = now.serial /\ now.serial = now.serial + 0
  BY <1>1, SavedNone DEF Facing, Midway, BeginCreate, At, chatvars, WellFormed
<1>6. Fits(now, u, 0)
  BY DEF Fits
<1> HIDE DEF w
<1>7. Len(w) = Len(w) - 0 /\ \A k \in 1..Len(w) : w[k] = w[0 + k]
  BY <1>2
<1>8. /\ 0 \in Nat /\ Fits(now, u, 0) /\ (bot'[r].hand.at = "insert" => Fits(now, u, 0 + 1))
      /\ IsSeq(bot'[r].hand.todo) /\ bot'[r].hand.todo # <<>>
      /\ Len(bot'[r].hand.todo) = Len(w) - 0
      /\ \A k \in 1..Len(bot'[r].hand.todo) : bot'[r].hand.todo[k] = w[0 + k]
      /\ rules' = Saved(now, u, 0) /\ serial' = now.serial + 0
  BY <1>1, <1>2, <1>4, <1>5, <1>6, <1>7
<1>9. Midway(bot'[r].hand, now, u, rules', serial')
  BY <1>1, <1>4, <1>8 DEF Midway, w
<1> QED
  BY <1>3, <1>4, <1>9 DEF GoesOn

(* A save that has saved j rules, and has w[j + 1] to save next.               *)
Saving(r, now, u, j) ==
  /\ u = Now(r) /\ WellFormed(now) /\ u.chat \in Chats /\ u.chat \in Allowed
  /\ bot[r].session = now.session
  /\ j \in Nat /\ j < Len(Wanted(u, now.session[u.chat])) /\ Fits(now, u, j)
  /\ IsSeq(bot[r].hand.todo) /\ bot[r].hand.todo # <<>>
  /\ Len(bot[r].hand.todo) = Len(Wanted(u, now.session[u.chat])) - j
  /\ \A k \in 1..Len(bot[r].hand.todo) :
       bot[r].hand.todo[k] = Wanted(u, now.session[u.chat])[j + k]
  /\ Head(bot[r].hand.todo) = Wanted(u, now.session[u.chat])[j + 1]
  /\ rules = Saved(now, u, j) /\ serial = now.serial + j

LEMMA SavesSome ==
  ASSUME NEW r \in Replicas, NEW now, NEW u, Facing(r, now, u),
         bot[r].hand.at \in {"count", "insert"}
  PROVE  \E j \in Nat : Saving(r, now, u, j) /\ (bot[r].hand.at = "insert" => Fits(now, u, j + 1))
<1> DEFINE w    == Wanted(u, now.session[u.chat])
           todo == bot[r].hand.todo
<1>1. PICK j \in Nat :
         /\ Fits(now, u, j) /\ (bot[r].hand.at = "insert" => Fits(now, u, j + 1))
         /\ IsSeq(todo) /\ todo # <<>> /\ Len(todo) = Len(w) - j
         /\ \A k \in 1..Len(todo) : todo[k] = w[j + k]
         /\ rules = Saved(now, u, j) /\ serial = now.serial + j
  BY DEF Facing, Midway
<1>2. /\ u = Now(r) /\ WellFormed(now) /\ u.chat \in Chats /\ u.chat \in Allowed
      /\ bot[r].session = now.session
  BY DEF Facing, Midway
<1>3. Len(w) \in Nat
  BY WantedIsSeq
<1> HIDE DEF w, todo
<1>4. Len(todo) \in Nat \ {0} /\ Head(todo) = todo[1]
  BY <1>1, IsSeqTail
<1>5. j < Len(w) /\ Head(todo) = w[j + 1]
  BY <1>1, <1>3, <1>4
<1>6. Saving(r, now, u, j)
  BY <1>1, <1>2, <1>5 DEF Saving, w, todo
<1> QED
  BY <1>1, <1>6

(* Count tells whether one rule more fits.                                     *)
LEMMA CountTells ==
  ASSUME NEW r \in Replicas, NEW now, NEW u, NEW j, Saving(r, now, u, j)
  PROVE  Fits(now, u, j + 1) <=>
           HasRoom(Now(r).chat) /\ Resolvable(Head(bot[r].hand.todo))
<1> DEFINE w == Wanted(u, now.session[u.chat])
           n == Cardinality(now.rules[u.chat])
<1>1. /\ u = Now(r) /\ WellFormed(now) /\ u.chat \in Chats /\ j \in Nat /\ Fits(now, u, j)
      /\ Head(bot[r].hand.todo) = w[j + 1] /\ rules = Saved(now, u, j)
  BY DEF Saving
<1>2. rules[u.chat] = now.rules[u.chat] \cup Firsts(now, u, j)
  BY <1>1 DEF Saved, WellFormed
<1>3. Cardinality(rules[u.chat]) = n + j /\ n \in Nat /\ Cap \in Nat
  <2>1. /\ Cardinality(now.rules[u.chat]) \in Nat
        /\ Cardinality(now.rules[u.chat] \cup Firsts(now, u, j)) = Cardinality(now.rules[u.chat]) + j
    BY <1>1, FirstsCount
  <2> QED
    BY <1>2, <2>1, BotAssumption
<1> HIDE DEF n, w
<1>4. HasRoom(Now(r).chat) <=> n + (j + 1) <= Cap
  BY <1>1, <1>3 DEF HasRoom
<1>5. (\A i \in 1..(j + 1) : Resolvable(w[i])) <=>
        (\A i \in 1..j : Resolvable(w[i])) /\ Resolvable(w[j + 1])
  BY <1>1
<1>6. \A i \in 1..j : Resolvable(w[i])
  BY <1>1 DEF Fits, w
<1>7. Fits(now, u, j + 1) <=> n + (j + 1) <= Cap /\ \A i \in 1..(j + 1) : Resolvable(w[i])
  BY <1>1 DEF Fits, w, n
<1> QED
  BY <1>1, <1>4, <1>5, <1>6, <1>7

LEMMA CountGoesOnOrEnds ==
  ASSUME Typed, NEW r \in Replicas, NEW now, NEW u, Facing(r, now, u), Count(r)
  PROVE  GoesOn(r, now, u) \/ Ends(r, now, u)
<1> DEFINE w    == Wanted(u, now.session[u.chat])
           todo == bot[r].hand.todo
<1>1. bot[r].hand.at = "count"
  BY DEF Count, At
<1>2. PICK j \in Nat : Saving(r, now, u, j)
  BY <1>1, SavesSome
<1>3. /\ u = Now(r) /\ WellFormed(now) /\ u.chat \in Chats /\ u.chat \in Allowed
      /\ bot[r].session = now.session /\ j < Len(w) /\ Fits(now, u, j)
      /\ IsSeq(todo) /\ todo # <<>> /\ Len(todo) = Len(w) - j
      /\ \A k \in 1..Len(todo) : todo[k] = w[j + k]
      /\ rules = Saved(now, u, j) /\ serial = now.serial + j
  BY <1>2 DEF Saving
<1>4. rules' = rules /\ serial' = serial
  BY DEF Count, chatvars
<1>5. CASE HasRoom(Now(r).chat) /\ Resolvable(Head(bot[r].hand.todo))
  <2>1. bot' = [bot EXCEPT ![r].hand.at = "insert"] /\ finished' = finished
    BY <1>5 DEF Count
  <2>2. /\ bot'[r].session = bot[r].session
        /\ bot'[r].hand = [bot[r].hand EXCEPT !.at = "insert"]
    BY <2>1 DEF Typed, Fields
  <2>3. /\ bot'[r].hand.at = "insert" /\ bot'[r].hand.todo = todo
        /\ bot'[r].hand.update = bot[r].hand.update
    BY <1>1, <2>2 DEF Typed
  <2>4. Fits(now, u, j + 1)
    BY <1>2, <1>5, CountTells
  <2> HIDE DEF w, todo
  <2>5. Midway(bot'[r].hand, now, u, rules', serial')
    <3>1. /\ j \in Nat /\ Fits(now, u, j) /\ Fits(now, u, j + 1)
          /\ IsSeq(bot'[r].hand.todo) /\ bot'[r].hand.todo # <<>>
          /\ Len(bot'[r].hand.todo) = Len(w) - j
          /\ \A k \in 1..Len(bot'[r].hand.todo) : bot'[r].hand.todo[k] = w[j + k]
          /\ rules' = Saved(now, u, j) /\ serial' = now.serial + j
      BY <1>2, <1>3, <1>4, <2>3, <2>4
    <3> QED
      BY <1>3, <2>3, <3>1 DEF Midway, w
  <2> QED
    BY <2>1, <2>2, <2>3, <2>5 DEF GoesOn
<1>6. CASE ~(HasRoom(Now(r).chat) /\ Resolvable(Head(bot[r].hand.todo)))
  <2>1. Returns(r, Mine(r))
    BY <1>6 DEF Count
  <2>2. /\ bot'[r].hand = Idle /\ finished' = finished \cup {bot[r].hand.update.id}
        /\ bot'[r].session = [bot[r].session EXCEPT ![Now(r).chat] = Mine(r)]
    BY <2>1, ReturnsFields
  <2>3. bot'[r].session = now.session
    BY <1>3, <2>2 DEF Mine, WellFormed
  <2>4. ~Fits(now, u, j + 1)
    BY <1>2, <1>6, CountTells
  <2>5. Len(w) \in Nat /\ w # <<>>
    BY <1>3, WantedIsSeq, EmptySeq
  <2> HIDE DEF w
  <2>6. j \in Nat /\ j <= Len(w) /\ j # Len(w)
    BY <1>2, <1>3, <2>5
  <2>7. /\ Ideally(now, u).rules = Saved(now, u, j)
        /\ Ideally(now, u).serial = now.serial + j
        /\ Ideally(now, u).session = now.session
    <3>1. /\ WellFormed(now) /\ u.chat \in Chats /\ u.chat \in Allowed
          /\ Wanted(u, now.session[u.chat]) # <<>>
          /\ j \in Nat /\ j <= Len(Wanted(u, now.session[u.chat])) /\ Fits(now, u, j)
          /\ ~Fits(now, u, j + 1) /\ j # Len(Wanted(u, now.session[u.chat]))
      BY <1>3, <2>4, <2>5, <2>6 DEF w
    <3>2. /\ Ideally(now, u).rules = Saved(now, u, j)
          /\ Ideally(now, u).serial = now.serial + j
          /\ Ideally(now, u).session = [now.session EXCEPT ![u.chat] = SessionAfter(now, u, j)]
      BY <3>1, IdeallyFirst
    <3>3. [now.session EXCEPT ![u.chat] = SessionAfter(now, u, j)] = now.session
      BY <3>1, SessionStays
    <3> QED
      BY <3>2, <3>3
  <2> QED
    BY <1>3, <1>4, <2>2, <2>3, <2>7 DEF Ends, Agrees
<1> QED
  BY <1>5, <1>6

(* One rule more. *)
LEMMA SavedNext ==
  ASSUME NEW r \in Replicas, NEW now, NEW u, NEW j \in Nat, Saving(r, now, u, j)
  PROVE  Inserted(Now(r).chat, Head(bot[r].hand.todo)) = Saved(now, u, j + 1)
<1> DEFINE w   == Wanted(u, now.session[u.chat])
           old == now.rules[u.chat]
<1>1. /\ u = Now(r) /\ WellFormed(now) /\ u.chat \in Chats /\ rules = Saved(now, u, j)
      /\ Head(bot[r].hand.todo) = w[j + 1] /\ serial = now.serial + j /\ now.serial \in Nat
  BY DEF Saving, WellFormed
<1>2. Inserted(Now(r).chat, Head(bot[r].hand.todo)) =
        [rules EXCEPT ![u.chat] = @ \cup {Rule(serial + 1, w[j + 1])}]
  BY <1>1 DEF Inserted
<1>3. Firsts(now, u, j + 1) = Firsts(now, u, j) \cup {Rule(serial + 1, w[j + 1])}
  <2> DEFINE f(i) == Rule(now.serial + i, w[i])
  <2>1. Firsts(now, u, j + 1) = {f(i) : i \in 1..(j + 1)} /\ Firsts(now, u, j) = {f(i) : i \in 1..j}
    BY DEF Firsts
  <2>2. f(j + 1) = Rule(serial + 1, w[j + 1])
    <3>1. now.serial + (j + 1) = serial + 1
      BY <1>1
    <3> QED
      BY <3>1
  <2> HIDE DEF f
  <2>3. {f(i) : i \in 1..(j + 1)} = {f(i) : i \in 1..j} \cup {f(j + 1)}
    <3>1. 1..(j + 1) = (1..j) \cup {j + 1}
      OBVIOUS
    <3> QED
      BY <3>1
  <2> QED
    BY <2>1, <2>2, <2>3
<1> HIDE DEF w
<1>4. rules = [now.rules EXCEPT ![u.chat] = old \cup Firsts(now, u, j)]
  BY <1>1 DEF Saved
<1>5. Saved(now, u, j + 1) = [now.rules EXCEPT ![u.chat] = old \cup Firsts(now, u, j + 1)]
  BY DEF Saved
<1> QED
  <2> DEFINE before == Firsts(now, u, j)
             after  == Firsts(now, u, j + 1)
             one    == Rule(serial + 1, w[j + 1])
  <2> HIDE DEF before, after, one
  <2>1. now.rules = [c \in Chats |-> now.rules[c]]
    BY <1>1 DEF WellFormed
  <2>2. rules = [now.rules EXCEPT ![u.chat] = now.rules[u.chat] \cup before]
    BY <1>4 DEF before
  <2>3. rules[u.chat] \cup {one} = now.rules[u.chat] \cup after
    BY <1>1, <1>3, <2>1, <2>2 DEF before, after, one
  <2>4. [rules EXCEPT ![u.chat] = now.rules[u.chat] \cup after]
          = [now.rules EXCEPT ![u.chat] = now.rules[u.chat] \cup after]
    BY <1>1, <2>1, <2>2
  <2>5. [rules EXCEPT ![u.chat] = @ \cup {one}] = [rules EXCEPT ![u.chat] = now.rules[u.chat] \cup after]
    BY <2>3
  <2> QED
    BY <1>2, <1>5, <2>4, <2>5 DEF after, one

LEMMA InsertGoesOnOrEnds ==
  ASSUME Typed, NEW r \in Replicas, NEW now, NEW u, Facing(r, now, u), Insert(r)
  PROVE  GoesOn(r, now, u) \/ Ends(r, now, u)
<1> DEFINE w    == Wanted(u, now.session[u.chat])
           todo == bot[r].hand.todo
<1>1. bot[r].hand.at = "insert"
  BY DEF Insert, At
<1>2. PICK j \in Nat : Saving(r, now, u, j) /\ Fits(now, u, j + 1)
  BY <1>1, SavesSome
<1>3. /\ u = Now(r) /\ WellFormed(now) /\ u.chat \in Chats /\ u.chat \in Allowed
      /\ bot[r].session = now.session /\ j < Len(w)
      /\ IsSeq(todo) /\ todo # <<>> /\ Len(todo) = Len(w) - j
      /\ \A k \in 1..Len(todo) : todo[k] = w[j + k]
      /\ serial = now.serial + j /\ now.serial \in Nat
  BY <1>2 DEF Saving, WellFormed
<1>4. rules' = Saved(now, u, j + 1) /\ serial' = now.serial + (j + 1)
  BY <1>2, <1>3, SavedNext DEF Insert
<1>5. Len(w) \in Nat /\ w # <<>>
  BY <1>3, WantedIsSeq, EmptySeq
<1>6. /\ Len(todo) \in Nat \ {0} /\ IsSeq(Tail(todo)) /\ Len(Tail(todo)) = Len(todo) - 1
      /\ \A k \in 1..(Len(todo) - 1) : Tail(todo)[k] = todo[k + 1]
  BY <1>3, IsSeqTail
<1>7. CASE Tail(todo) # <<>>
  <2>1. bot' = [bot EXCEPT ![r].hand.at = "count", ![r].hand.todo = Tail(@)] /\ finished' = finished
    BY <1>7 DEF Insert
  <2>2. /\ bot'[r].session = bot[r].session
        /\ bot'[r].hand = [bot[r].hand EXCEPT !.at = "count", !.todo = Tail(todo)]
    BY <2>1 DEF Typed, Fields
  <2> HIDE DEF w, todo
  <2>3. /\ bot'[r].hand.at = "count" /\ bot'[r].hand.todo = Tail(todo)
        /\ bot'[r].hand.update = bot[r].hand.update
    BY <1>1, <2>2 DEF Typed
  <2>4. Len(Tail(todo)) = Len(w) - (j + 1)
        /\ \A k \in 1..Len(Tail(todo)) : Tail(todo)[k] = w[(j + 1) + k]
    <3>1. \A k \in 1..(Len(todo) - 1) : k + 1 \in 1..Len(todo) /\ j + (k + 1) = (j + 1) + k
      BY <1>6
    <3> QED
      BY <1>3, <1>5, <1>6, <3>1
  <2>5. Midway(bot'[r].hand, now, u, rules', serial')
    <3>1. /\ j + 1 \in Nat /\ Fits(now, u, j + 1)
          /\ IsSeq(bot'[r].hand.todo) /\ bot'[r].hand.todo # <<>>
          /\ Len(bot'[r].hand.todo) = Len(w) - (j + 1)
          /\ \A k \in 1..Len(bot'[r].hand.todo) : bot'[r].hand.todo[k] = w[(j + 1) + k]
          /\ rules' = Saved(now, u, j + 1) /\ serial' = now.serial + (j + 1)
      BY <1>2, <1>4, <1>6, <1>7, <2>3, <2>4
    <3> QED
      BY <1>3, <2>3, <3>1 DEF Midway, w
  <2> QED
    BY <2>1, <2>2, <2>3, <2>5 DEF GoesOn
<1>8. CASE Tail(todo) = <<>>
  <2>1. Returns(r, Afterwards(r))
    BY <1>8 DEF Insert
  <2>2. /\ bot'[r].hand = Idle /\ finished' = finished \cup {bot[r].hand.update.id}
        /\ bot'[r].session = [bot[r].session EXCEPT ![Now(r).chat] = Afterwards(r)]
    BY <2>1, ReturnsFields
  <2> HIDE DEF w, todo
  <2>3. Len(Tail(todo)) = 0
    BY <1>8, EmptySeq
  <2>4. j \in Nat /\ j + 1 \in Nat /\ j + 1 = Len(w) /\ j + 1 <= Len(w)
    <3>1. Len(todo) = 1
      <4>1. Len(todo) - 1 = 0 /\ Len(todo) \in Nat
        BY <1>6, <2>3, Zenon
      <4> QED
        BY <4>1
    <3>2. Len(w) - j = 1 /\ Len(w) \in Nat /\ j \in Nat
      BY <1>2, <1>3, <1>5, <3>1
    <3> QED
      BY <3>2
  <2>5. /\ Ideally(now, u).rules = Saved(now, u, j + 1)
        /\ Ideally(now, u).serial = now.serial + (j + 1)
        /\ Ideally(now, u).session = [now.session EXCEPT ![u.chat] = SessionAfter(now, u, j + 1)]
    <3>1. /\ WellFormed(now) /\ u.chat \in Chats /\ u.chat \in Allowed
          /\ Wanted(u, now.session[u.chat]) # <<>>
          /\ j + 1 \in Nat /\ j + 1 <= Len(Wanted(u, now.session[u.chat])) /\ Fits(now, u, j + 1)
          /\ j + 1 = Len(Wanted(u, now.session[u.chat]))
      BY <1>2, <1>3, <1>5, <2>4 DEF w
    <3> QED
      BY <3>1, IdeallyFirst
  <2>6. bot'[r].session = Ideally(now, u).session
    <3>1. CASE u.do = "subscribe"
      <4>1. [now.session EXCEPT ![u.chat] = SessionAfter(now, u, j + 1)] = now.session
        BY <1>3, <1>5, <2>4, <3>1, SessionStays DEF w
      <4>2. bot'[r].session = now.session
        BY <1>3, <2>2, <3>1 DEF Afterwards, Mine, WellFormed
      <4> QED
        BY <2>5, <4>1, <4>2
    <3>2. CASE u.do # "subscribe"
      <4>1. SessionAfter(now, u, j + 1) = NewSession
        BY <1>3, <1>5, <2>4, <3>2, SessionEnds DEF w
      <4>2. bot'[r].session = [now.session EXCEPT ![u.chat] = NewSession]
        BY <1>3, <2>2, <3>2 DEF Afterwards
      <4> QED
        BY <2>5, <4>1, <4>2
    <3> QED
      BY <3>1, <3>2
  <2> QED
    BY <1>4, <2>2, <2>5, <2>6 DEF Ends, Agrees
<1> QED
  BY <1>7, <1>8

LEMMA HandleGoesOnOrEnds ==
  ASSUME Typed, NEW r \in Replicas, NEW now, NEW u, Facing(r, now, u), Handle(r)
  PROVE  GoesOn(r, now, u) \/ Ends(r, now, u)
BY IgnoreEnds, AnswerEnds, PressEnds, BeginCreateGoesOn, CountGoesOnOrEnds, InsertGoesOnOrEnds,
   UnsubscribeEnds, ResetGoesOn, ResetJobsEnds DEF Handle

-----------------------------------------------------------------------------
(* One replica, alone and without mishaps: the whole dialogue *)

Alone(r) == mishaps = 0 /\ \A q \in Replicas \ {r}, i \in Ids : begun[i][q] = 0

(* The updates a replica has taken from its batches are the first ones.        *)
Taken(b) == IF b.offset = 0 THEN 0 ELSE b.offset - 1

(* h: what the updates make, one by one. *)
Chain(h) ==
  /\ \A i \in 0..sent : WellFormed(h[i])
  /\ \A i \in 1..sent : h[i] = Ideally(h[i - 1], script[i])
  /\ h[sent] = ideal

Resting(b, h, done, some, last) ==
  done = 1..Taken(b) /\ Agrees(h[Taken(b)], some, last, b.session)

(* While the handler is busy, the updates that follow may be skipped. *)
Working(b, h, done, some, last) ==
  /\ b.hand.update.id \in 1..Taken(b) /\ b.hand.update.input = script[b.hand.update.id]
  /\ done = (1..Taken(b)) \ {b.hand.update.id}
  /\ b.session = h[b.hand.update.id - 1].session
  /\ Midway(b.hand, h[b.hand.update.id - 1], script[b.hand.update.id], some, last)
  /\ Agrees(h[Taken(b)], h[b.hand.update.id].rules, h[b.hand.update.id].serial,
            h[b.hand.update.id].session)

Follows(b, h, done, some, last) ==
  /\ b.hand.at = "idle" => Resting(b, h, done, some, last)
  /\ b.hand.at # "idle" => Working(b, h, done, some, last)

Lively ==
  /\ script \in Scripts /\ mishaps \in Nat
  /\ mishaps = 0 => \A r \in Replicas : lives[r] = 1 /\ bot[r].up = TRUE

HandsBegun ==
  \A r \in Replicas :
    bot[r].hand.at # "idle" =>
      bot[r].hand.update \in Updates /\ begun[bot[r].hand.update.id][r] # 0

AInv ==
  /\ Lively /\ HandsBegun
  /\ \E h : Chain(h) /\ \A r \in Replicas :
                          Alone(r) => Follows(bot[r], h, finished, rules, serial)

(* A handler keeps its update until it returns. *)
LEMMA HandleKeepsUpdate ==
  ASSUME Typed, NEW r \in Replicas, Handle(r)
  PROVE  /\ UNCHANGED <<script, sent, ideal, begun, lives, mishaps>> /\ bot[r].hand.at # "idle"
         /\ \A q \in Replicas \ {r} : bot'[q] = bot[q]
         /\ bot'[r].hand.at = "idle" \/ bot'[r].hand.update = bot[r].hand.update
<1>1. ASSUME NEW picks, Returns(r, picks)
      PROVE  bot'[r].hand.at = "idle" /\ \A q \in Replicas \ {r} : bot'[q] = bot[q]
  <2>1. bot'[r].hand = Idle
    BY <1>1, ReturnsFields
  <2>2. \A q \in Replicas \ {r} : bot'[q] = bot[q]
    BY <1>1 DEF Typed, Returns
  <2> QED
    BY <2>1, <2>2 DEF Idle
<1>2. CASE Ignore(r) \/ Answer(r) \/ Press(r) \/ Unsubscribe(r) \/ ResetJobs(r)
  BY <1>1, <1>2 DEF Ignore, Answer, Press, Unsubscribe, ResetJobs, At
<1>3. CASE BeginCreate(r)
  BY <1>3 DEF BeginCreate, history, At, Typed, Fields
<1>4. CASE Reset(r)
  BY <1>4 DEF Reset, history, At, Typed, Fields
<1>5. CASE Count(r)
  <2>1. CASE bot' = [bot EXCEPT ![r].hand.at = "insert"]
    BY <1>5, <2>1 DEF Count, At, Typed, Fields
  <2> QED
    BY <1>1, <1>5, <2>1 DEF Count, At
<1>6. CASE Insert(r)
  <2>1. CASE bot' = [bot EXCEPT ![r].hand.at = "count", ![r].hand.todo = Tail(@)]
    BY <1>6, <2>1 DEF Insert, At, Typed, Fields
  <2> QED
    BY <1>1, <1>6, <2>1 DEF Insert, At
<1> QED
  BY <1>2, <1>3, <1>4, <1>5, <1>6 DEF Handle

(* Receive and Skip raise what has begun by one. *)
LEMMA TakesBegin ==
  ASSUME DInv, NEW r \in Replicas, Takes(r)
  PROVE  /\ Head(bot[r].batch) \in Updates /\ Head(bot[r].batch).id \in 1..sent
         /\ \A i \in Ids, q \in Replicas : begun[i][q] # 0 => begun'[i][q] # 0
         /\ begun'[Head(bot[r].batch).id][r] # 0
<1> DEFINE first == Head(bot[r].batch).id
<1>1. BatchFits(r) /\ bot[r].batch # <<>> /\ HistoryTyped
  BY DEF DInv, Takes
<1>2. Len(bot[r].batch) \in Nat \ {0} /\ Head(bot[r].batch) = bot[r].batch[1]
      /\ Head(bot[r].batch) \in Updates /\ first \in Nat
  BY <1>1, BatchHead
<1>3. /\ sent \in Nat /\ Len(script) \in Nat /\ sent <= Len(script)
      /\ first > 0 /\ first + Len(bot[r].batch) - 1 <= sent
  BY <1>1, <1>2 DEF HistoryTyped, BatchFits
<1> HIDE DEF first
<1>4. first \in 1..sent /\ first \in Ids
  BY <1>2, <1>3 DEF Ids
<1>5. begun \in [Ids -> [Replicas -> Nat]]
  BY <1>1 DEF HistoryTyped
<1>6. begun' = [begun EXCEPT ![first] = [begun[first] EXCEPT ![r] = begun[first][r] + 1]]
  BY DEF Takes, first
<1>7. \A i \in Ids, q \in Replicas : begun[i][q] \in Nat
  BY <1>5
<1>8. begun'[first][r] = begun[first][r] + 1
  <2>1. begun'[first] = [begun[first] EXCEPT ![r] = begun[first][r] + 1]
    BY <1>4, <1>5, <1>6
  <2>2. begun[first] \in [Replicas -> Nat]
    BY <1>4, <1>5
  <2> QED
    BY <2>1, <2>2
<1>9. ASSUME NEW i \in Ids, NEW q \in Replicas PROVE begun[i][q] # 0 => begun'[i][q] # 0
  <2>1. CASE i = first /\ q = r
    BY <1>7, <1>8, <2>1
  <2>2. CASE i = first /\ q # r
    <3>1. begun'[first] = [begun[first] EXCEPT ![r] = begun[first][r] + 1]
      BY <1>4, <1>5, <1>6
    <3>2. begun'[first][q] = begun[first][q]
      BY <1>4, <1>5, <2>2, <3>1
    <3> QED
      BY <1>7, <2>2, <3>2
  <2>3. CASE i # first
    <3>1. begun'[i] = begun[i]
      BY <1>5, <1>6, <2>3
    <3> QED
      BY <1>7, <3>1
  <2> QED
    BY <2>1, <2>2, <2>3
<1> QED
  BY <1>2, <1>4, <1>7, <1>8, <1>9 DEF first

LEMMA ReceiveOrSkipTakes ==
  ASSUME Typed, NEW r \in Replicas, Receive(r) \/ Skip(r)
  PROVE  Takes(r) /\ UNCHANGED <<rules, serial, ideal, mishaps>>
<1>1. CASE Receive(r)
  <2>1. Takes(r)
    BY <1>1 DEF Receive, Takes, Onward, Typed, Fields
  <2> QED
    BY <1>1, <2>1 DEF Receive, chatvars
<1>2. CASE Skip(r)
  <2>1. Takes(r)
    BY <1>2 DEF Skip, Takes, Onward, Typed, Fields
  <2> QED
    BY <1>2, <2>1 DEF Skip, chatvars
<1> QED
  BY <1>1, <1>2

LEMMA NextHands ==
  ASSUME Typed, DInv, Lively, HandsBegun, [Next]_vars
  PROVE  Lively' /\ HandsBegun'
<1>1. ASSUME UNCHANGED <<script, begun, lives, mishaps>>,
             \A q \in Replicas : /\ bot'[q].up = bot[q].up
                                 /\ \/ bot'[q].hand.at = "idle"
                                    \/ bot[q].hand.at # "idle" /\ bot'[q].hand.update = bot[q].hand.update
      PROVE  Lively' /\ HandsBegun'
  <2>1. Lively'
    BY <1>1 DEF Lively
  <2>2. HandsBegun'
    BY <1>1 DEF HandsBegun, Updates, Ids
  <2> QED
    BY <2>1, <2>2
<1>2. CASE UNCHANGED <<script, bot, begun, lives, mishaps>>
  BY <1>1, <1>2
<1>3. ASSUME NEW r \in Replicas, Poll(r) PROVE Lively' /\ HandsBegun'
  <2>1. \A q \in Replicas : bot'[q].up = bot[q].up /\ bot'[q].hand = bot[q].hand
    BY <1>3 DEF Poll, Typed, Fields
  <2> QED
    BY <1>1, <1>3, <2>1 DEF Poll, history
<1>4. ASSUME NEW r \in Replicas, Receive(r) \/ Skip(r) PROVE Lively' /\ HandsBegun'
  <2>1. Takes(r) /\ script' = script /\ lives' = lives /\ mishaps' = mishaps
    BY <1>4, ReceiveOrSkipTakes DEF Takes
  <2>2. /\ Head(bot[r].batch) \in Updates
        /\ \A i \in Ids, q \in Replicas : begun[i][q] # 0 => begun'[i][q] # 0
        /\ begun'[Head(bot[r].batch).id][r] # 0
    BY <2>1, TakesBegin
  <2>3. /\ bot'[r].up = TRUE /\ \A q \in Replicas \ {r} : bot'[q] = bot[q]
        /\ \/ bot'[r].hand = bot[r].hand
           \/ bot'[r].hand.update = Head(bot[r].batch)
    <3>1. CASE Receive(r)
      <4>1. bot'[r].hand = [at |-> "begin", todo |-> <<>>, update |-> Head(bot[r].batch)]
        BY <3>1 DEF Receive, Onward, Typed, Fields
      <4> QED
        BY <2>1, <4>1 DEF Takes
    <3>2. CASE Skip(r)
      <4>1. bot'[r].hand = bot[r].hand
        BY <3>2 DEF Skip, Onward, Typed, Fields
      <4> QED
        BY <2>1, <4>1 DEF Takes
    <3> QED
      BY <1>4, <3>1, <3>2
  <2>4. Lively'
    BY <2>1, <2>3 DEF Lively
  <2>5. Updates' = Updates /\ \A m \in Updates : m.id \in Ids
    BY <2>1 DEF Updates, Ids
  <2>6. ASSUME NEW q \in Replicas, bot'[q].hand.at # "idle"
        PROVE  bot'[q].hand.update \in Updates /\ begun'[bot'[q].hand.update.id][q] # 0
    <3>1. CASE bot'[q].hand = bot[q].hand
      <4>1. bot[q].hand.update \in Updates /\ begun[bot[q].hand.update.id][q] # 0
        BY <2>6, <3>1 DEF HandsBegun
      <4>2. begun'[bot[q].hand.update.id][q] # 0
        BY <2>2, <2>5, <4>1
      <4> QED
        BY <3>1, <4>1, <4>2
    <3>2. CASE q = r /\ bot'[r].hand.update = Head(bot[r].batch)
      BY <2>2, <3>2
    <3> QED
      BY <2>3, <3>1, <3>2
  <2>7. HandsBegun'
    BY <2>5, <2>6 DEF HandsBegun
  <2> QED
    BY <2>4, <2>7
<1>5. ASSUME NEW r \in Replicas, Handle(r) PROVE Lively' /\ HandsBegun'
  <2>1. /\ UNCHANGED <<script, begun, lives, mishaps>> /\ bot[r].hand.at # "idle"
        /\ \A q \in Replicas \ {r} : bot'[q] = bot[q]
        /\ bot'[r].hand.at = "idle" \/ bot'[r].hand.update = bot[r].hand.update
    BY <1>5, HandleKeepsUpdate
  <2>2. \A q \in Replicas : bot'[q].up = bot[q].up
    BY <1>5, HandleSpares DEF SparesDelivery
  <2> QED
    BY <1>1, <2>1, <2>2
<1>6. ASSUME NEW r \in Replicas, StatementFails(r) \/ Crash(r) \/ Restart(r)
      PROVE  Lively' /\ HandsBegun'
  <2>1. /\ script' = script /\ begun' = begun /\ mishaps' \in Nat /\ mishaps' # 0
    <3>1. CASE StatementFails(r) \/ Crash(r)
      BY <1>6, <3>1 DEF StatementFails, Crash, history, Lively
    <3>2. CASE Restart(r)
      BY <1>6, <3>2 DEF Restart, Lively
    <3> QED
      BY <1>6, <3>1, <3>2
  <2>2. bot'[r].hand.at = "idle" /\ \A q \in Replicas \ {r} : bot'[q] = bot[q]
    <3>1. CASE StatementFails(r)
      <4>1. PICK picks : Returns(r, picks)
        BY <3>1 DEF StatementFails
      <4>2. bot'[r].hand = Idle
        BY <4>1, ReturnsFields
      <4>3. \A q \in Replicas \ {r} : bot'[q] = bot[q]
        BY <4>1 DEF Typed, Returns
      <4> QED
        BY <4>2, <4>3 DEF Idle
    <3>2. CASE Crash(r) \/ Restart(r)
      BY <1>6, <3>2 DEF Crash, Restart, Fresh, Idle, Typed
    <3> QED
      BY <1>6, <3>1, <3>2
  <2>3. Lively'
    BY <2>1 DEF Lively
  <2>4. HandsBegun'
    BY <2>1, <2>2 DEF HandsBegun, Updates, Ids
  <2> QED
    BY <2>3, <2>4
<1>7. CASE Send
  BY <1>2, <1>7 DEF Send
<1>8. CASE UNCHANGED vars
  BY <1>2, <1>8 DEF vars
<1> QED
  BY <1>3, <1>4, <1>5, <1>6, <1>7, <1>8 DEF Next

(* A replica alone has taken the first updates, and takes the next. *)
LEMMA TakenWithin ==
  ASSUME DInv, Lively, NEW r \in Replicas, Alone(r)
  PROVE  /\ sent \in Nat /\ Taken(bot[r]) \in 0..sent /\ BatchFits(r)
         /\ \A i \in 1..sent : i \in Ids /\ script[i].chat \in Chats
<1>1. bot[r].up = TRUE
  BY DEF Lively, Alone
<1>2. BatchFits(r) /\ HistoryTyped
  BY <1>1 DEF DInv
<1>3. sent \in Nat /\ Len(script) \in Nat /\ sent <= Len(script) /\ bot[r].offset \in 0..(sent + 1)
  BY <1>2 DEF HistoryTyped, BatchFits
<1>4. Taken(bot[r]) \in 0..sent
  BY <1>3 DEF Taken
<1>5. \A i \in 1..sent : i \in 1..Len(script)
  BY <1>3
<1>6. \A i \in 1..Len(script) : script[i].chat \in Chats
  BY BotAssumption DEF Lively
<1> QED
  BY <1>2, <1>3, <1>4, <1>5, <1>6 DEF Ids

LEMMA NextIsNext ==
  ASSUME DInv, Lively, NEW r \in Replicas, Alone(r), bot[r].batch # <<>>
  PROVE  /\ Head(bot[r].batch).id = Taken(bot[r]) + 1 /\ Taken(bot[r]) + 1 \in 1..sent
         /\ Head(bot[r].batch).input = script[Taken(bot[r]) + 1]
         /\ Onward(bot[r]).offset = Taken(bot[r]) + 2
<1> DEFINE first  == bot[r].batch[1].id
           offset == bot[r].offset
<1>1. sent \in Nat /\ BatchFits(r) /\ \A i \in 1..sent : i \in Ids
  BY TakenWithin
<1>2. Len(bot[r].batch) \in Nat \ {0} /\ first \in Nat
      /\ Head(bot[r].batch) = bot[r].batch[1] /\ bot[r].batch[1] \in Updates
  BY <1>1, BatchHead
<1>3. /\ offset \in Nat /\ first >= offset /\ first > 0 /\ first + Len(bot[r].batch) - 1 <= sent
      /\ \A i \in 1..sent : i < first => WasBegun(i)
      /\ \A i \in Ids : i >= offset => begun[i][r] < lives[r]
  BY <1>1 DEF BatchFits
<1>4. \A i \in 1..sent : WasBegun(i) => begun[i][r] > 0
  <2> SUFFICES ASSUME NEW i \in 1..sent, WasBegun(i) PROVE begun[i][r] > 0
    OBVIOUS
  <2>1. PICK q \in Replicas : begun[i][q] > 0
    BY DEF WasBegun
  <2>2. i \in Ids
    BY <1>1
  <2>3. q # r => begun[i][q] = 0
    BY <2>2 DEF Alone
  <2> QED
    BY <2>1, <2>3
<1>5. lives[r] = 1 /\ \A i \in Ids : begun[i][r] \in Nat
  BY DEF Lively, Alone, DInv, HistoryTyped
<1> HIDE DEF first, offset
<1>6. \A i \in 1..sent : i < first => i < offset
  <2> SUFFICES ASSUME NEW i \in 1..sent, i < first, i >= offset PROVE FALSE
    BY <1>3
  <2>1. i \in Ids /\ begun[i][r] > 0 /\ begun[i][r] < 1
    BY <1>1, <1>3, <1>4, <1>5
  <2> QED
    BY <1>5, <2>1
<1>7. first \in 1..sent
  BY <1>1, <1>2, <1>3
<1>8. first = IF offset = 0 THEN 1 ELSE offset
  <2>1. CASE offset = 0
    <3>1. ~(1 < first)
      BY <1>1, <1>6, <1>7, <2>1
    <3> QED
      BY <1>2, <1>3, <2>1, <3>1
  <2>2. CASE offset # 0
    <3>1. ~(offset < first)
      BY <1>1, <1>3, <1>6, <1>7, <2>2
    <3> QED
      BY <1>2, <1>3, <2>2, <3>1
  <2> QED
    BY <2>1, <2>2
<1>9. first = Taken(bot[r]) + 1 /\ Taken(bot[r]) \in Nat
  BY <1>3, <1>8 DEF Taken, offset
<1>10. \A x \in Updates : x.input = script[x.id]
  BY DEF Updates
<1>11. Onward(bot[r]).offset = first + 1
  <2>1. Head(bot[r].batch).id = first /\ first >= offset
    BY <1>2, <1>3 DEF first
  <2> QED
    BY <2>1 DEF Onward, offset
<1> QED
  BY <1>2, <1>7, <1>9, <1>10, <1>11 DEF first

LEMMA HandleFollows ==
  ASSUME Typed, DInv, Lively, NEW r \in Replicas, Alone(r), NEW h, Chain(h),
         Follows(bot[r], h, finished, rules, serial), Handle(r)
  PROVE  Follows(bot'[r], h, finished', rules', serial')
<1> DEFINE m   == bot[r].hand.update.id
           n   == Taken(bot[r])
           now == h[m - 1]
           u   == script[m]
<1>1. /\ bot[r].hand.at # "idle"
      /\ bot'[r].hand.at = "idle" \/ bot'[r].hand.update = bot[r].hand.update
  BY HandleKeepsUpdate
<1>2. /\ m \in 1..n /\ bot[r].hand.update.input = u /\ finished = (1..n) \ {m}
      /\ bot[r].session = now.session /\ Midway(bot[r].hand, now, u, rules, serial)
      /\ Agrees(h[n], h[m].rules, h[m].serial, h[m].session)
  BY <1>1 DEF Follows, Working
<1>3. /\ sent \in Nat /\ n \in 0..sent
      /\ \A i \in 1..sent : i \in Ids /\ script[i].chat \in Chats
  BY TakenWithin
<1>4. Taken(bot'[r]) = n
  <2>1. bot'[r].offset = bot[r].offset
    BY HandleSpares DEF SparesDelivery
  <2> QED
    BY <2>1 DEF Taken
<1> HIDE DEF m, n
<1>5. m \in 1..sent /\ m - 1 \in 0..sent
  BY <1>2, <1>3
<1>6. WellFormed(now) /\ h[m] = Ideally(now, u) /\ u.chat \in Chats
  BY <1>3, <1>5 DEF Chain
<1> HIDE DEF now, u
<1>7. u = Now(r)
  BY <1>2 DEF Now
<1>8. Facing(r, now, u)
  BY <1>2, <1>6, <1>7 DEF Facing
<1>9. GoesOn(r, now, u) \/ Ends(r, now, u)
  BY <1>8, HandleGoesOnOrEnds
<1>10. CASE Ends(r, now, u)
  <2>1. /\ bot'[r].hand = Idle /\ finished' = finished \cup {m}
        /\ Agrees(h[m], rules', serial', bot'[r].session)
    BY <1>6, <1>10 DEF Ends, m
  <2>2. finished' = 1..n
    BY <1>2, <2>1
  <2>3. Agrees(h[n], rules', serial', bot'[r].session)
    BY <1>2, <2>1 DEF Agrees
  <2>4. bot'[r].hand.at = "idle"
    BY <2>1 DEF Idle
  <2> QED
    BY <1>4, <2>2, <2>3, <2>4 DEF Follows, Resting
<1>11. CASE GoesOn(r, now, u)
  <2>1. /\ bot'[r].hand.at # "idle" /\ bot'[r].hand.update.id = m
        /\ bot'[r].hand.update.input = u
        /\ finished' = finished /\ bot'[r].session = now.session
        /\ Midway(bot'[r].hand, now, u, rules', serial')
    BY <1>2, <1>11 DEF GoesOn, m
  <2>2. Working(bot'[r], h, finished', rules', serial')
    BY <1>2, <1>4, <2>1 DEF Working, now, u
  <2> QED
    BY <2>1, <2>2 DEF Follows
<1> QED
  BY <1>9, <1>10, <1>11

LEMMA ReceiveFollows ==
  ASSUME Typed, DInv, Lively, NEW r \in Replicas, Alone(r), NEW h, Chain(h),
         Follows(bot[r], h, finished, rules, serial), Receive(r)
  PROVE  Follows(bot'[r], h, finished', rules', serial')
<1> DEFINE n == Taken(bot[r])
<1>1. /\ bot[r].hand.at = "idle" /\ bot[r].batch # <<>> /\ finished' = finished
      /\ rules' = rules /\ serial' = serial
  BY DEF Receive, chatvars
<1>2. finished = 1..n /\ Agrees(h[n], rules, serial, bot[r].session)
  BY <1>1 DEF Follows, Resting
<1>3. /\ Head(bot[r].batch).id = n + 1 /\ n + 1 \in 1..sent
      /\ Head(bot[r].batch).input = script[n + 1] /\ Onward(bot[r]).offset = n + 2
  BY <1>1, NextIsNext
<1>4. sent \in Nat /\ n \in 0..sent
  BY TakenWithin
<1>5. /\ bot'[r].hand = [at |-> "begin", todo |-> <<>>, update |-> Head(bot[r].batch)]
      /\ bot'[r].session = bot[r].session /\ bot'[r].offset = Onward(bot[r]).offset
  BY DEF Receive, Onward, Typed, Fields
<1> HIDE DEF n
<1>6. Taken(bot'[r]) = n + 1
  BY <1>3, <1>4, <1>5 DEF Taken
<1>7. /\ bot'[r].hand.at = "begin" /\ bot'[r].hand.update.id = n + 1
      /\ bot'[r].hand.update.input = script[n + 1]
  BY <1>3, <1>5
<1>8. (n + 1) - 1 = n /\ 1..n = (1..(n + 1)) \ {n + 1} /\ n + 1 \in 1..(n + 1)
  BY <1>4
<1>9. Midway(bot'[r].hand, h[n], script[n + 1], rules', serial')
  BY <1>1, <1>2, <1>7 DEF Midway, Agrees
<1>10. bot'[r].session = h[n].session /\ finished' = 1..n
  BY <1>1, <1>2, <1>5 DEF Agrees
<1>11. Agrees(h[n + 1], h[n + 1].rules, h[n + 1].serial, h[n + 1].session)
  BY DEF Agrees
<1>12. Working(bot'[r], h, finished', rules', serial')
  BY <1>6, <1>7, <1>8, <1>9, <1>10, <1>11 DEF Working
<1> QED
  BY <1>7, <1>12 DEF Follows

LEMMA SkipFollows ==
  ASSUME Typed, DInv, Lively, NEW r \in Replicas, Alone(r), NEW h, Chain(h),
         Follows(bot[r], h, finished, rules, serial), Skip(r)
  PROVE  Follows(bot'[r], h, finished', rules', serial')
<1> DEFINE n == Taken(bot[r])
<1>1. /\ bot[r].batch # <<>> /\ Head(bot[r].batch).input.do = "other"
      /\ finished' = finished \cup {Head(bot[r].batch).id}
      /\ rules' = rules /\ serial' = serial
  BY DEF Skip, chatvars
<1>2. /\ Head(bot[r].batch).id = n + 1 /\ n + 1 \in 1..sent
      /\ Head(bot[r].batch).input = script[n + 1] /\ Onward(bot[r]).offset = n + 2
  BY <1>1, NextIsNext
<1>3. sent \in Nat /\ n \in 0..sent /\ \A i \in 1..sent : script[i].chat \in Chats
  BY TakenWithin
<1>4. /\ bot'[r].hand = bot[r].hand
      /\ bot'[r].session = bot[r].session /\ bot'[r].offset = Onward(bot[r]).offset
  BY DEF Skip, Onward, Typed, Fields
<1> HIDE DEF n
<1>5. Taken(bot'[r]) = n + 1
  BY <1>2, <1>3, <1>4 DEF Taken
<1>6. h[n + 1].rules = h[n].rules /\ h[n + 1].serial = h[n].serial
      /\ h[n + 1].session = h[n].session
  <2>1. WellFormed(h[n]) /\ h[n + 1] = Ideally(h[n], script[n + 1])
    <3>1. (n + 1) - 1 = n
      BY <1>3
    <3> QED
      BY <1>2, <1>3, <3>1 DEF Chain
  <2>2. script[n + 1].do \in {"look", "other"} /\ script[n + 1].chat \in Chats
    BY <1>1, <1>2, <1>3
  <2> QED
    BY <2>1, <2>2, IdeallyStays
<1>7. 1..(n + 1) = (1..n) \cup {n + 1} /\ n + 1 \notin 1..n
  BY <1>3
<1>8. CASE bot[r].hand.at = "idle"
  <2>1. finished = 1..n /\ Agrees(h[n], rules, serial, bot[r].session)
    BY <1>8 DEF Follows, Resting, n
  <2>2. finished' = 1..(n + 1) /\ Agrees(h[n + 1], rules', serial', bot'[r].session)
    BY <1>1, <1>2, <1>4, <1>6, <1>7, <2>1 DEF Agrees
  <2> QED
    BY <1>4, <1>5, <1>8, <2>2 DEF Follows, Resting
<1>9. CASE bot[r].hand.at # "idle"
  <2> DEFINE m == bot[r].hand.update.id
  <2>1. /\ m \in 1..n /\ bot[r].hand.update.input = script[m] /\ finished = (1..n) \ {m}
        /\ bot[r].session = h[m - 1].session
        /\ Midway(bot[r].hand, h[m - 1], script[m], rules, serial)
        /\ Agrees(h[n], h[m].rules, h[m].serial, h[m].session)
    BY <1>9 DEF Follows, Working, n
  <2> HIDE DEF m
  <2>2. m \in 1..(n + 1) /\ finished' = (1..(n + 1)) \ {m}
    <3>1. m # n + 1 /\ finished' = ((1..n) \ {m}) \cup {n + 1}
      BY <1>1, <1>2, <1>7, <2>1
    <3> QED
      BY <1>7, <2>1, <3>1
  <2>3. Agrees(h[n + 1], h[m].rules, h[m].serial, h[m].session)
    BY <1>6, <2>1 DEF Agrees
  <2>4. Working(bot'[r], h, finished', rules', serial')
    BY <1>1, <1>4, <1>5, <2>1, <2>2, <2>3 DEF Working, m
  <2> QED
    BY <1>4, <1>9, <2>4 DEF Follows
<1> QED
  BY <1>8, <1>9

(* A step that leaves alone what a replica has in hand, keeps in mind and goes on from. *)
LEMMA FollowsStill ==
  ASSUME NEW b, NEW new, new.offset = b.offset, new.hand = b.hand, new.session = b.session,
         NEW h, NEW done, NEW some, NEW last, Follows(b, h, done, some, last)
  PROVE  Follows(new, h, done, some, last)
BY DEF Follows, Resting, Working, Taken

(* The longer chain agrees with h on what a replica has taken. *)
LEMMA FollowsLonger ==
  ASSUME NEW b, Taken(b) \in 0..sent, sent \in Nat, NEW h, NEW g,
         \A i \in 0..sent : g[i] = h[i],
         NEW done, NEW some, NEW last, Follows(b, h, done, some, last)
  PROVE  Follows(b, g, done, some, last)
<1>1. g[Taken(b)] = h[Taken(b)]
  OBVIOUS
<1>2. CASE b.hand.at = "idle"
  BY <1>1, <1>2 DEF Follows, Resting
<1>3. CASE b.hand.at # "idle"
  <2> DEFINE m == b.hand.update.id
             n == Taken(b)
  <2>1. /\ m \in 1..n /\ b.hand.update.input = script[m] /\ done = (1..n) \ {m}
        /\ b.session = h[m - 1].session
        /\ Midway(b.hand, h[m - 1], script[m], some, last)
        /\ Agrees(h[n], h[m].rules, h[m].serial, h[m].session)
    BY <1>3 DEF Follows, Working
  <2>2. n \in 0..sent
    OBVIOUS
  <2> HIDE DEF m, n
  <2>3. g[m - 1] = h[m - 1] /\ g[m] = h[m] /\ g[n] = h[n]
    <3>1. m - 1 \in 0..sent /\ m \in 0..sent
      BY <2>1, <2>2
    <3> QED
      BY <2>2, <3>1
  <2>4. Working(b, g, done, some, last)
    BY <2>1, <2>3 DEF Working, m, n
  <2> QED
    BY <1>3, <2>4 DEF Follows
<1> QED
  BY <1>2, <1>3

LEMMA SendFollows ==
  ASSUME Typed, DInv, AInv, Send
  PROVE  \E h : Chain(h)' /\ \A r \in Replicas :
                  Alone(r)' => Follows(bot'[r], h, finished', rules', serial')
<1>1. PICK h : Chain(h) /\ \A r \in Replicas :
                  Alone(r) => Follows(bot[r], h, finished, rules, serial)
  BY DEF AInv
<1>2. /\ script' = script /\ bot' = bot /\ rules' = rules /\ serial' = serial
      /\ begun' = begun /\ finished' = finished /\ mishaps' = mishaps
      /\ sent' = sent + 1 /\ ideal' = Ideally(ideal, script[sent + 1])
  BY DEF Send, chatvars
<1>3. sent \in Nat /\ Len(script) \in Nat /\ sent + 1 \in 1..Len(script)
  BY DEF Send, DInv, HistoryTyped
<1>4. script[sent + 1].chat \in Chats
  BY <1>3, BotAssumption DEF AInv, Lively
<1>5. PICK g : /\ \A i \in 0..sent : g[i] = h[i]
               /\ g[sent + 1] = Ideally(h[sent], script[sent + 1])
  <2> DEFINE f == [i \in 0..(sent + 1) |->
                     IF i <= sent THEN h[i] ELSE Ideally(h[sent], script[sent + 1])]
  <2>1. /\ \A i \in 0..sent : f[i] = h[i]
        /\ f[sent + 1] = Ideally(h[sent], script[sent + 1])
    BY <1>3
  <2> HIDE DEF f
  <2> QED
    BY <2>1
<1>6. WellFormed(g[sent + 1])
  <2>1. WellFormed(h[sent])
    BY <1>1, <1>3 DEF Chain
  <2> QED
    BY <1>4, <1>5, <2>1, IdeallyWellFormed
<1>7. Chain(g)'
  <2>1. \A i \in 0..(sent + 1) : i \in 0..sent \/ i = sent + 1
    BY <1>3
  <2>2. \A i \in 0..(sent + 1) : WellFormed(g[i])
    BY <1>1, <1>5, <1>6, <2>1 DEF Chain
  <2>3. ASSUME NEW i \in 1..(sent + 1) PROVE g[i] = Ideally(g[i - 1], script[i])
    <3>1. CASE i \in 1..sent
      <4>1. i \in 0..sent /\ i - 1 \in 0..sent
        BY <1>3, <3>1
      <4> QED
        BY <1>1, <1>5, <3>1, <4>1 DEF Chain
    <3>2. CASE i = sent + 1
      <4>1. i - 1 = sent /\ sent \in 0..sent
        BY <1>3, <3>2
      <4> QED
        BY <1>5, <3>2, <4>1
    <3> QED
      BY <1>3, <3>1, <3>2
  <2>4. g[sent + 1] = ideal'
    BY <1>1, <1>2, <1>5 DEF Chain
  <2> QED
    BY <1>2, <2>2, <2>3, <2>4 DEF Chain
<1>8. ASSUME NEW r \in Replicas, Alone(r)'
      PROVE  Follows(bot'[r], g, finished', rules', serial')
  <2>1. Alone(r)
    BY <1>2, <1>8 DEF Alone, Ids
  <2>2. Follows(bot[r], h, finished, rules, serial) /\ Taken(bot[r]) \in 0..sent
    BY <1>1, <2>1, TakenWithin DEF AInv
  <2> QED
    BY <1>2, <1>3, <1>5, <2>2, FollowsLonger
<1> QED
  BY <1>7, <1>8

(* Without mishaps the others do nothing but poll. *)
LEMMA NextFollows ==
  ASSUME Typed, DInv, AInv, Next, ~Send, NEW h, Chain(h), NEW r \in Replicas,
         Alone(r) => Follows(bot[r], h, finished, rules, serial), Alone(r)'
  PROVE  Follows(bot'[r], h, finished', rules', serial')
<1>1. PICK q \in Replicas : \/ Poll(q) \/ Receive(q) \/ Skip(q) \/ Handle(q)
                            \/ StatementFails(q) \/ Crash(q) \/ Restart(q)
  BY DEF Next
<1>2. Lively /\ HandsBegun /\ mishaps' = 0 /\ mishaps \in Nat
  BY DEF AInv, Lively, Alone
<1>3. ~StatementFails(q) /\ ~Crash(q)
  BY <1>2 DEF StatementFails, Crash
<1>4. mishaps = 0
  BY <1>1, <1>2, <1>3, ReceiveOrSkipTakes, HandleKeepsUpdate DEF Poll, Restart
<1>5. ~Restart(q)
  BY <1>2, <1>4 DEF Restart, Lively
<1>6. CASE Poll(q)
  <2>1. /\ script' = script /\ begun' = begun /\ finished' = finished
        /\ rules' = rules /\ serial' = serial
    BY <1>6 DEF Poll, history, chatvars
  <2>2. Alone(r)
    BY <1>4, <2>1 DEF Alone, Ids
  <2>3. /\ bot'[r].offset = bot[r].offset /\ bot'[r].hand = bot[r].hand
        /\ bot'[r].session = bot[r].session
    BY <1>6 DEF Poll, Typed, Fields
  <2> QED
    BY <2>1, <2>2, <2>3, FollowsStill
<1>7. CASE Receive(q) \/ Skip(q)
  <2>1. Takes(q) /\ script' = script
    BY <1>7, ReceiveOrSkipTakes DEF Takes
  <2>2. /\ Head(bot[q].batch).id \in 1..sent
        /\ \A i \in Ids, p \in Replicas : begun[i][p] # 0 => begun'[i][p] # 0
        /\ begun'[Head(bot[q].batch).id][q] # 0 /\ Head(bot[q].batch) \in Updates
    BY <2>1, TakesBegin
  <2>3. Head(bot[q].batch).id \in Ids
    BY <2>2 DEF Updates
  <2>4. q = r /\ Alone(r)
    BY <1>4, <2>1, <2>2, <2>3 DEF Alone, Ids
  <2> QED
    BY <1>2, <1>7, <2>4, ReceiveFollows, SkipFollows
<1>8. CASE Handle(q)
  <2>1. script' = script /\ begun' = begun /\ bot[q].hand.at # "idle"
    BY <1>8, HandleKeepsUpdate
  <2>2. bot[q].hand.update.id \in Ids /\ begun[bot[q].hand.update.id][q] # 0
    BY <1>2, <2>1 DEF HandsBegun, Updates
  <2>3. q = r /\ Alone(r)
    BY <1>4, <2>1, <2>2 DEF Alone, Ids
  <2> QED
    BY <1>2, <1>8, <2>3, HandleFollows
<1> QED
  BY <1>1, <1>3, <1>5, <1>6, <1>7, <1>8

LEMMA FollowsThen ==
  ASSUME script' = script, NEW r, NEW h, Follows(bot'[r], h, finished', rules', serial')
  PROVE  Follows(bot[r], h, finished, rules, serial)'
BY DEF Follows, Resting, Working, Taken

LEMMA NextAlone == Typed /\ DInv /\ AInv /\ [Next]_vars => AInv'
<1> SUFFICES ASSUME Typed, DInv, AInv, [Next]_vars PROVE AInv'
  OBVIOUS
<1>1. Lively' /\ HandsBegun'
  BY NextHands DEF AInv
<1>2. CASE Send
  <2>1. PICK h : Chain(h)' /\ \A r \in Replicas :
                    Alone(r)' => Follows(bot'[r], h, finished', rules', serial')
    BY <1>2, SendFollows
  <2>2. \A r \in Replicas : Alone(r)' => Follows(bot[r], h, finished, rules, serial)'
    BY <1>2, <2>1, FollowsThen DEF Send
  <2> QED
    BY <1>1, <2>1, <2>2 DEF AInv
<1>3. CASE Next /\ ~Send
  <2>1. PICK h : Chain(h) /\ \A r \in Replicas :
                    Alone(r) => Follows(bot[r], h, finished, rules, serial)
    BY DEF AInv
  <2>2. script' = script /\ sent' = sent /\ ideal' = ideal
    <3>1. PICK q \in Replicas : \/ Poll(q) \/ Receive(q) \/ Skip(q) \/ Handle(q)
                                \/ StatementFails(q) \/ Crash(q) \/ Restart(q)
      BY <1>3 DEF Next
    <3>2. CASE Receive(q) \/ Skip(q)
      BY <3>2, ReceiveOrSkipTakes DEF Takes
    <3>3. CASE Handle(q)
      BY <3>3, HandleKeepsUpdate
    <3>4. CASE Poll(q) \/ StatementFails(q) \/ Crash(q) \/ Restart(q)
      BY <3>4 DEF Poll, StatementFails, Crash, Restart, history
    <3> QED
      BY <3>1, <3>2, <3>3, <3>4
  <2>3. Chain(h)'
    BY <2>1, <2>2 DEF Chain
  <2>4. \A r \in Replicas : Alone(r)' => Follows(bot'[r], h, finished', rules', serial')
    BY <1>3, <2>1, NextFollows
  <2>5. \A r \in Replicas : Alone(r)' => Follows(bot[r], h, finished, rules, serial)'
    BY <2>2, <2>4, FollowsThen
  <2> QED
    BY <1>1, <2>3, <2>5 DEF AInv
<1>4. CASE UNCHANGED vars
  <2>1. PICK h : Chain(h) /\ \A r \in Replicas :
                    Alone(r) => Follows(bot[r], h, finished, rules, serial)
    BY DEF AInv
  <2>2. /\ script' = script /\ sent' = sent /\ ideal' = ideal /\ bot' = bot /\ rules' = rules
        /\ serial' = serial /\ begun' = begun /\ finished' = finished /\ mishaps' = mishaps
    BY <1>4 DEF vars
  <2>3. Chain(h)'
    BY <2>1, <2>2 DEF Chain
  <2>4. ASSUME NEW r \in Replicas, Alone(r)'
        PROVE  Follows(bot'[r], h, finished', rules', serial')
    <3>1. Alone(r)
      BY <2>2, <2>4 DEF Alone, Ids
    <3> QED
      BY <2>1, <2>2, <3>1
  <2>5. \A r \in Replicas : Alone(r)' => Follows(bot[r], h, finished, rules, serial)'
    BY <2>2, <2>4, FollowsThen
  <2> QED
    BY <1>1, <2>3, <2>5 DEF AInv
<1> QED
  BY <1>2, <1>3, <1>4

LEMMA InitAlone == Init => AInv
<1> SUFFICES ASSUME Init PROVE AInv
  OBVIOUS
<1>1. Lively /\ HandsBegun
  BY BotAssumption DEF Init, Lively, HandsBegun, Fresh, Idle
<1>2. sent = 0 /\ finished = {} /\ serial = 0 /\ rules = [c \in Chats |-> {}]
      /\ ideal.rules = rules /\ ideal.serial = 0 /\ ideal.session = NoSessions
  BY DEF Init
<1>3. PICK h : h = [i \in {0} |-> ideal]
  OBVIOUS
<1>4. h[0] = ideal
  BY <1>3
<1>5. WellFormed(ideal)
  BY <1>2, FS_EmptySet DEF WellFormed, NoSessions
<1>6. Chain(h)
  BY <1>2, <1>4, <1>5 DEF Chain
<1>7. ASSUME NEW r \in Replicas PROVE Follows(bot[r], h, finished, rules, serial)
  <2>1. bot[r].hand.at = "idle" /\ bot[r].offset = 0 /\ bot[r].session = NoSessions
    BY DEF Init, Fresh, Idle
  <2>2. Taken(bot[r]) = 0
    BY <2>1 DEF Taken
  <2>3. Agrees(h[0], rules, serial, bot[r].session) /\ finished = 1..0
    BY <1>2, <1>4, <2>1 DEF Agrees
  <2> QED
    BY <2>1, <2>2, <2>3 DEF Follows, Resting
<1> QED
  BY <1>1, <1>6, <1>7 DEF AInv

(* While one replica works alone, what it leaves follows the updates one by one: its *)
(* handler is midway from what the updates before its own make to what that one makes. *)
THEOREM AloneInvariance == Spec => []AInv
<1>1. Typed /\ DInv /\ AInv /\ [Next]_vars => AInv'
  BY NextAlone
<1>2. IInv => Typed
  BY DEF IInv
<1> QED
  BY InitAlone, <1>1, <1>2, Invariance, DeliveryInvariance, PTL DEF Spec

(* SettledAsIfAtomic: a save of many rules, the cap that stops it, an unknown name, a *)
(* session that survives: handled statement by statement (handler.go, interactive.go,  *)
(* repository.go), they come to what each update makes at once and in order.   *)
THEOREM SettlesAsIfAtomic == Spec => []SettledAsIfAtomic
<1>1. DInv /\ AInv => SettledAsIfAtomic
  <2> SUFFICES ASSUME DInv, AInv, NEW r \in Replicas, mishaps = 0, finished = 1..sent,
                      \A q \in Replicas \ {r}, i \in Ids : begun[i][q] = 0
               PROVE  /\ rules = ideal.rules /\ serial = ideal.serial
                      /\ bot[r].session = ideal.session
    BY DEF SettledAsIfAtomic
  <2>1. PICK h : Chain(h) /\ \A q \in Replicas :
                    Alone(q) => Follows(bot[q], h, finished, rules, serial)
    BY DEF AInv
  <2>2. Alone(r) /\ Lively
    BY DEF Alone, AInv
  <2>3. Follows(bot[r], h, finished, rules, serial)
    BY <2>1, <2>2
  <2>4. sent \in Nat /\ Taken(bot[r]) \in 0..sent
    BY <2>2, TakenWithin
  <2>5. bot[r].hand.at = "idle"
    <3> SUFFICES ASSUME bot[r].hand.at # "idle" PROVE FALSE
      OBVIOUS
    <3>1. /\ bot[r].hand.update.id \in 1..Taken(bot[r])
          /\ finished = (1..Taken(bot[r])) \ {bot[r].hand.update.id}
      BY <2>3 DEF Follows, Working
    <3>2. bot[r].hand.update.id \in 1..sent
      BY <2>4, <3>1
    <3> QED
      BY <3>1, <3>2
  <2>6. finished = 1..Taken(bot[r]) /\ Agrees(h[Taken(bot[r])], rules, serial, bot[r].session)
    BY <2>3, <2>5 DEF Follows, Resting
  <2>7. Taken(bot[r]) = sent
    <3>1. Taken(bot[r]) # sent => sent \in 1..sent /\ sent \notin 1..Taken(bot[r])
      BY <2>4
    <3> QED
      BY <2>6, <3>1
  <2> QED
    BY <2>1, <2>6, <2>7 DEF Agrees, Chain
<1> QED
  BY <1>1, AloneInvariance, DeliveryInvariance, PTL

-----------------------------------------------------------------------------
(* What is stored *)

(* A handler that creates rules works for a chat that is let in, and inserts *)
(* what it has resolved.                                                     *)
Checked(h) ==
  /\ h.at \in {"count", "insert"} => h.update.input.chat \in Allowed
  /\ h.at = "insert" => Resolvable(Head(h.todo))

(* Every stored rule belongs to a chat that is let in, names only references *)
(* that could be resolved, and has an id of its own among all chats, which is *)
(* what /unsubscribe goes by (handler.go:72-75, repository.go:45-162): with   *)
(* any number of replicas, and failed inserts.                                *)
StoredRulesAreSound ==
  \A c \in Chats :
    /\ \A x \in rules[c] : c \in Allowed /\ Resolvable(x.filter) /\ x.id \in 1..serial
    /\ \A d \in Chats : \A x \in rules[c], y \in rules[d] : x.id = y.id => x = y /\ c = d

SInv ==
  /\ serial \in Nat
  /\ \A r \in Replicas : Checked(bot[r].hand)
  /\ StoredRulesAreSound

(* A step that stores nothing. *)
LEMMA NothingStored ==
  ASSUME Typed, SInv, NEW r \in Replicas, Moves(r), Checked(bot'[r].hand), serial' = serial,
         \A c \in Chats : rules'[c] \subseteq rules[c]
  PROVE  SInv'
<1>1. \A q \in Replicas : Checked(bot'[q].hand)
  BY DEF Moves, SInv
<1>2. StoredRulesAreSound'
  BY DEF SInv, StoredRulesAreSound
<1> QED
  BY <1>1, <1>2 DEF SInv

(* A step that stores one rule under the next id. *)
LEMMA OneStored ==
  ASSUME Typed, SInv, NEW r \in Replicas, Moves(r), Checked(bot'[r].hand),
         NEW a \in Allowed, NEW f, Resolvable(f),
         rules' = Inserted(a, f), serial' = serial + 1
  PROVE  SInv'
<1>1. \A q \in Replicas : Checked(bot'[q].hand)
  BY DEF Moves, SInv
<1>2. serial \in Nat /\ a \in Chats
  BY BotAssumption DEF SInv
<1>3. /\ rules'[a] = rules[a] \cup {Rule(serial + 1, f)}
      /\ \A c \in Chats : c # a => rules'[c] = rules[c]
  BY <1>2 DEF Inserted, Typed
<1>4. /\ Rule(serial + 1, f).id = serial + 1
      /\ Rule(serial + 1, f).filter = f
  BY DEF Rule
<1> DEFINE new == Rule(serial + 1, f)
<1> HIDE DEF new
<1>5. ASSUME NEW c \in Chats, NEW x \in rules'[c]
      PROVE  \/ x \in rules[c] /\ x.id \in 1..serial /\ c \in Allowed /\ Resolvable(x.filter)
             \/ x = new /\ c = a
  BY <1>3, <1>5 DEF SInv, StoredRulesAreSound, new
<1>6. new.id = serial + 1 /\ new.filter = f
  BY <1>4 DEF new
<1>7. ASSUME NEW c \in Chats, NEW x \in rules'[c]
      PROVE  c \in Allowed /\ Resolvable(x.filter) /\ x.id \in 1..(serial + 1)
  BY <1>2, <1>5, <1>6, <1>7
<1>8. ASSUME NEW c \in Chats, NEW d \in Chats, NEW x \in rules'[c], NEW y \in rules'[d],
             x.id = y.id
      PROVE  x = y /\ c = d
  <2>1. CASE x \in rules[c] /\ y \in rules[d]
    BY <1>8, <2>1 DEF SInv, StoredRulesAreSound
  <2>2. CASE x = new /\ c = a /\ y = new /\ d = a
    BY <2>2
  <2>3. CASE x.id \in 1..serial /\ y = new
    BY <1>2, <1>6, <1>8, <2>3
  <2>4. CASE y.id \in 1..serial /\ x = new
    BY <1>2, <1>6, <1>8, <2>4
  <2> QED
    BY <1>5, <1>8, <2>1, <2>2, <2>3, <2>4
<1>9. StoredRulesAreSound'
  BY <1>7, <1>8 DEF StoredRulesAreSound
<1> QED
  BY <1>1, <1>2, <1>9 DEF SInv

(* A handler that returns has nothing in hand. *)
LEMMA ReturnsChecked ==
  ASSUME Typed, NEW r \in Replicas, NEW picks, Returns(r, picks)
  PROVE  Moves(r) /\ Checked(bot'[r].hand)
<1>1. bot'[r].hand = Idle
  BY DEF Typed, Returns, Fields
<1> QED
  BY <1>1, ReturnsMoves DEF Checked, Idle

(* The steps of the handler that store nothing. *)
LEMMA HandleStoresNothing ==
  ASSUME Typed, SInv, NEW r \in Replicas,
         \/ Ignore(r) \/ Answer(r) \/ Press(r) \/ BeginCreate(r) \/ Count(r)
         \/ Unsubscribe(r) \/ Reset(r) \/ ResetJobs(r)
  PROVE  SInv'
<1>1. CASE Ignore(r) \/ Answer(r) \/ Press(r) \/ ResetJobs(r)
  <2>1. Moves(r) /\ Checked(bot'[r].hand) /\ UNCHANGED chatvars
    BY <1>1, ReturnsChecked DEF Ignore, Answer, Press, ResetJobs
  <2> QED
    BY <2>1, NothingStored DEF chatvars
<1>2. CASE BeginCreate(r)
  <2>1. Moves(r)
    BY <1>2 DEF BeginCreate, At, Moves, Typed, Fields
  <2>2. bot'[r].hand.at = "count" /\ bot'[r].hand.update.input.chat = Now(r).chat
    BY <1>2 DEF BeginCreate, At, Now, Typed, Fields
  <2>3. Checked(bot'[r].hand)
    BY <1>2, <2>2 DEF BeginCreate, Checked
  <2> QED
    BY <1>2, <2>1, <2>3, NothingStored DEF BeginCreate, chatvars
<1>3. CASE Count(r)
  <2>1. CASE /\ Resolvable(Head(bot[r].hand.todo))
             /\ bot' = [bot EXCEPT ![r].hand.at = "insert"]
    <3>1. Moves(r) /\ bot'[r].hand = [bot[r].hand EXCEPT !.at = "insert"]
      BY <1>3, <2>1 DEF Moves, Typed, Fields, Count, At
    <3>2. /\ bot'[r].hand.at = "insert" /\ bot'[r].hand.todo = bot[r].hand.todo
          /\ bot'[r].hand.update = bot[r].hand.update
      BY <1>3, <3>1 DEF Typed, Count, At
    <3>3. Checked(bot'[r].hand)
      BY <1>3, <2>1, <3>2 DEF Checked, SInv, Count, At
    <3> QED
      BY <1>3, <3>1, <3>3, NothingStored DEF Count, chatvars
  <2>2. CASE Returns(r, Mine(r))
    BY <1>3, <2>2, ReturnsChecked, NothingStored DEF Count, chatvars
  <2> QED
    BY <1>3, <2>1, <2>2 DEF Count
<1>4. CASE Unsubscribe(r)
  <2>1. Moves(r) /\ Checked(bot'[r].hand) /\ serial' = serial
    BY <1>4, ReturnsChecked DEF Unsubscribe
  <2>2. \A c \in Chats : rules'[c] \subseteq rules[c]
    BY <1>4 DEF Unsubscribe, Without, Typed
  <2> QED
    BY <2>1, <2>2, NothingStored
<1>5. CASE Reset(r)
  <2>1. Moves(r) /\ bot'[r].hand.at = "jobs"
    BY <1>5 DEF Reset, At, Moves, Typed, Fields
  <2>2. \A c \in Chats : rules'[c] \subseteq rules[c]
    BY <1>5 DEF Reset, Typed
  <2>3. Checked(bot'[r].hand) /\ serial' = serial
    BY <1>5, <2>1 DEF Checked, Reset
  <2> QED
    BY <2>1, <2>2, <2>3, NothingStored
<1> QED
  BY <1>1, <1>2, <1>3, <1>4, <1>5

(* The insert, and one whose answer is lost. *)
LEMMA StoresWhatWasChecked ==
  ASSUME Typed, SInv, NEW r \in Replicas, Insert(r) \/ StatementFails(r)
  PROVE  SInv'
<1>1. CASE Insert(r)
  <2>1. Now(r).chat \in Allowed /\ Resolvable(Head(bot[r].hand.todo))
    BY <1>1 DEF Insert, At, SInv, Checked, Now
  <2>2. Moves(r) /\ Checked(bot'[r].hand)
    <3>1. CASE bot' = [bot EXCEPT ![r].hand.at = "count", ![r].hand.todo = Tail(@)]
      <4>1. Moves(r)
        BY <1>1, <3>1 DEF Insert, At, Moves, Typed, Fields
      <4>2. bot'[r].hand.at = "count" /\ bot'[r].hand.update = bot[r].hand.update
        BY <1>1, <3>1 DEF Insert, At, Typed, Fields
      <4> QED
        BY <2>1, <4>1, <4>2 DEF Checked, Now
    <3>2. CASE Returns(r, Afterwards(r))
      BY <3>2, ReturnsChecked
    <3> QED
      BY <1>1, <3>1, <3>2 DEF Insert
  <2>3. /\ rules' = Inserted(Now(r).chat, Head(bot[r].hand.todo))
        /\ serial' = serial + 1
    BY <1>1 DEF Insert
  <2> QED
    BY <2>1, <2>2, <2>3, OneStored
<1>2. CASE StatementFails(r)
  <2>1. Moves(r) /\ Checked(bot'[r].hand)
    BY <1>2, ReturnsChecked DEF StatementFails
  <2>2. CASE UNCHANGED chatvars
    BY <2>1, <2>2, NothingStored DEF chatvars
  <2>3. CASE /\ At(r, "insert") /\ serial' = serial + 1
             /\ rules' = Inserted(Now(r).chat, Head(bot[r].hand.todo))
    <3>1. Now(r).chat \in Allowed /\ Resolvable(Head(bot[r].hand.todo))
      BY <2>3 DEF At, SInv, Checked, Now
    <3> QED
      BY <2>1, <2>3, <3>1, OneStored
  <2> QED
    BY <1>2, <2>2, <2>3 DEF StatementFails
<1> QED
  BY <1>1, <1>2

LEMMA NextStored == Typed /\ SInv /\ [Next]_vars => SInv'
<1> SUFFICES ASSUME Typed, SInv, [Next]_vars PROVE SInv'
  OBVIOUS
<1>1. CASE UNCHANGED <<bot, rules, serial>>
  BY <1>1 DEF SInv, StoredRulesAreSound, Checked
<1>2. ASSUME NEW r \in Replicas, Poll(r) \/ Skip(r) PROVE SInv'
  <2>1. Moves(r) /\ bot'[r].hand = bot[r].hand
    <3>1. CASE Poll(r)
      BY <3>1 DEF Poll, Moves, Typed, Fields
    <3>2. CASE Skip(r)
      BY <3>2 DEF Skip, Onward, Moves, Typed, Fields
    <3> QED
      BY <1>2, <3>1, <3>2
  <2>2. Checked(bot'[r].hand)
    BY <2>1 DEF SInv
  <2> QED
    BY <1>2, <2>1, <2>2, NothingStored DEF Poll, Skip, chatvars
<1>3. ASSUME NEW r \in Replicas, Receive(r) PROVE SInv'
  <2>1. Moves(r) /\ bot'[r].hand.at = "begin"
    BY <1>3 DEF Receive, Onward, Moves, Typed, Fields
  <2>2. Checked(bot'[r].hand)
    BY <2>1 DEF Checked
  <2> QED
    BY <1>3, <2>1, <2>2, NothingStored DEF Receive, chatvars
<1>4. ASSUME NEW r \in Replicas, Handle(r) \/ StatementFails(r) PROVE SInv'
  BY <1>4, HandleStoresNothing, StoresWhatWasChecked DEF Handle
<1>5. ASSUME NEW r \in Replicas, Crash(r) \/ Restart(r) PROVE SInv'
  <2>1. Moves(r) /\ bot'[r].hand.at = "idle"
    BY <1>5 DEF Crash, Restart, Fresh, Idle, Moves, Typed, Fields
  <2>2. Checked(bot'[r].hand)
    BY <2>1 DEF Checked
  <2> QED
    BY <1>5, <2>1, <2>2, NothingStored DEF Crash, Restart, chatvars
<1>6. CASE Send
  BY <1>1, <1>6 DEF Send, chatvars
<1> QED
  BY <1>1, <1>2, <1>3, <1>4, <1>5, <1>6 DEF Next, vars

LEMMA InitStored == Init => SInv
  BY DEF Init, SInv, StoredRulesAreSound, Checked, Fresh, Idle

(* What the replicas store, together, is sound. *)
THEOREM StoredSoundly == Spec => []StoredRulesAreSound
<1>1. IInv => Typed
  BY DEF IInv
<1>2. SInv => StoredRulesAreSound
  BY DEF SInv
<1> QED
  BY <1>1, <1>2, InitStored, NextStored, Invariance, PTL DEF Spec

===============================================================================
