---------------------------- MODULE ClientProofs ----------------------------
(***************************************************************************)
(* What the client library, the server and the login screen do to the      *)
(* values of the record, whatever the rest of the app asks and writes.     *)
(*                                                                         *)
(* A block computes from a number it was given earlier and writes without  *)
(* looking again.  So what holds of the record has to hold of every number *)
(* that may still reach it: in the writes that wait for an acknowledgement *)
(* or are on their way, in the replies under way and in the listener's     *)
(* cache.  DatabaseInv(G, B) says so for any choice of                     *)
(*                                                                         *)
(*   G[l]      the values that leaf l may have                             *)
(*   B[d][t]   the leaves that the block with tag t asks for, for every    *)
(*             tag there may be on device d                                *)
(*                                                                         *)
(* and the lemmas below say that every step of the client, the server, the *)
(* network and the login screen preserves it.  The parts of the app choose *)
(* G and B and prove the same of their own steps.                          *)
(***************************************************************************)
EXTENDS Session, TLAPS, SequenceTheorems, FiniteSetTheorems

\* Snapshots of the leaves in S, and writes.
Patch(G, S) == {p \in [S -> Value] : \A l \in S : p[l] \in G[l]}
Write(G)    == UNION {Patch(G, S) : S \in SUBSET Leaf}

\* Calls and messages, where b maps tags to what their blocks ask for.
Call(G, b) ==
    {GetData(b[t], t) : t \in DOMAIN b} \cup {SetValue(w) : w \in Write(G)} \cup {Observe}

Message(G, b) ==
    {Ack} \cup {Event(w) : w \in Write(G)}
    \cup UNION {{Reply(t, snap) : snap \in Patch(G, b[t])} : t \in DOMAIN b}

DatabaseInv(G, B) ==
    /\ record \in Patch(G, Leaf)
    /\ DOMAIN todo = Device /\ DOMAIN pending = Device /\ DOMAIN wire = Device
    /\ DOMAIN held = Device /\ DOMAIN inbox = Device /\ DOMAIN cache = Device
    /\ \A d \in Device :
          /\ todo[d] \in Seq(Call(G, B[d]))
          /\ pending[d] \in Seq(Write(G))
          /\ wire[d] \in Seq(Call(G, B[d]))
          /\ held[d] \in Seq(Call(G, B[d]))
          /\ inbox[d] \in Seq(Message(G, B[d]))
          /\ cache[d] \in Patch(G, Leaf) \cup {Absent}

\* What the login screen and the client rely on: a row may be missing, the
\* values have the types of the casts, and a new account may be written.
Allows(G) ==
    /\ \A l \in Leaf : G[l] \subseteq Value /\ Absent \in G[l]
    /\ \A k \in Key : G[Inventory(k)] \subseteq (Nat \ {0}) \cup {Absent}
    /\ \A l \in ActiveLeaves : G[l] \subseteq Coordinate \cup {Absent}
    /\ \A l \in {DisplayName, CurrentLeaves, AllTimeLeaves, Notifications} : 0 \in G[l]
    /\ 1 \in G[OnLeaderboard]

Asks(B) ==
    \A d \in Device :
        /\ \A t \in DOMAIN B[d] :
              /\ B[d][t] \subseteq Leaf
              /\ t.op = "inventory" => B[d][t] = InventoryLeaves
              /\ t.op = "activeItems" => B[d][t] = ActiveLeaves
        /\ {NameAnswer, InventoryAnswer, ActiveAnswer} \subseteq DOMAIN B[d]
        /\ B[d][NameAnswer] = {DisplayName}
        /\ B[d][InventoryAnswer] = InventoryLeaves
        /\ B[d][ActiveAnswer] = ActiveLeaves

\* The app's lists; the rows of the inventory have keys in K.
HeldRow(K) == [key : K, count : Nat \ {0}]
PlacedRow  == [key : Key, coordinates : Seq(Coordinate)]

SessionInv(K) ==
    /\ stage \in [Device -> {"login", "welcome", "tabs", "leaving"}]
    /\ inventoryItems \in [Device -> Seq(HeldRow(K))]
    /\ activeItems \in [Device -> Seq(PlacedRow)]
    /\ coordinatesOccupied \in [Device -> [Coordinate -> Nat]]

-----------------------------------------------------------------------------
(* Snapshots and writes.                                                   *)

LEMMA LeavesAreLeaves ==
    /\ Profile \subseteq Leaf
    /\ {DisplayName, CurrentLeaves, AllTimeLeaves, LastVisitedDate} \subseteq Leaf
    /\ {OnLeaderboard, Avatar, Notifications} \subseteq Leaf
    /\ InventoryLeaves \subseteq Leaf
    /\ ActiveLeaves \subseteq Leaf
    /\ \A k \in Key : Inventory(k) \in InventoryLeaves
BY DEF Leaf, Profile, InventoryLeaves

LEMMA PatchIsWrite ==
    ASSUME NEW G, NEW S \in SUBSET Leaf, NEW p \in Patch(G, S)
    PROVE  p \in Write(G)
BY DEF Write

LEMMA WriteValues ==
    ASSUME NEW G, NEW w \in Write(G)
    PROVE  DOMAIN w \subseteq Leaf /\ \A l \in DOMAIN w : w[l] \in G[l]
BY DEF Write, Patch

LEMMA SetLeafIsWrite ==
    ASSUME NEW G, Allows(G), NEW l \in Leaf, NEW v \in G[l]
    PROVE  SetLeaf(l, v) \in Write(G)
<1>1. SetLeaf(l, v) \in Patch(G, {l})
      BY DEF SetLeaf, Patch, Allows
<1>2. QED
      BY <1>1, PatchIsWrite

\* Data overlaid with a write.
LEMMA OverlayIsPatch ==
    ASSUME NEW G, Allows(G), NEW p \in Patch(G, Leaf), NEW w \in Write(G)
    PROVE  Overlay(p, w) \in Patch(G, Leaf)
<1> DEFINE q == Overlay(p, w)
<1>1. DOMAIN p = Leaf /\ \A l \in Leaf : p[l] \in G[l]
      BY DEF Patch
<1>2. \A l \in DOMAIN w : w[l] \in G[l]
      BY WriteValues
<1>3. \A l \in Leaf : q[l] \in G[l]
      BY <1>1, <1>2 DEF Overlay
<1>4. q \in [Leaf -> Value]
      BY <1>1, <1>3 DEF Overlay, Allows
<1>5. QED
      BY <1>3, <1>4 DEF Patch

LEMMA NothingIsPatch ==
    ASSUME NEW G, Allows(G)
    PROVE  Nothing \in Patch(G, Leaf)
BY DEF Nothing, Patch, Value, Allows

\* Pending writes over data.
LEMMA ViewIsPatch ==
    ASSUME NEW G, Allows(G), NEW p \in Patch(G, Leaf), NEW ws \in Seq(Write(G))
    PROVE  View(p, ws) \in Patch(G, Leaf)
<1> DEFINE q == View(p, ws)
<1>1. ASSUME NEW l \in Leaf
      PROVE  q[l] \in G[l]
  <2>1. CASE \E i \in DOMAIN ws : Newest(ws, i, l)
    <3> DEFINE i == CHOOSE i \in DOMAIN ws : Newest(ws, i, l)
    <3>1. i \in DOMAIN ws /\ l \in DOMAIN ws[i]
          BY <2>1 DEF Newest
    <3>2. ws[i] \in Write(G)
          BY <3>1
    <3>3. ws[i][l] \in G[l]
          BY <3>1, <3>2, WriteValues
    <3>4. QED
          BY <2>1, <3>3 DEF View
  <2>2. CASE ~ \E i \in DOMAIN ws : Newest(ws, i, l)
        BY <2>2 DEF View, Patch
  <2>3. QED
        BY <2>1, <2>2
<1>2. q \in [Leaf -> Value]
      BY <1>1 DEF View, Allows
<1>3. QED
      BY <1>1, <1>2 DEF Patch

\* A part of a snapshot.
LEMMA PartIsPatch ==
    ASSUME NEW G, NEW p \in Patch(G, Leaf), NEW S \in SUBSET Leaf
    PROVE  [l \in S |-> p[l]] \in Patch(G, S)
BY DEF Patch

\* What the listener has seen of the row, and what the client makes of it.
LEMMA RowIsPatch ==
    ASSUME NEW G, NEW B, Allows(G), DatabaseInv(G, B), NEW d \in Device
    PROVE  Row(d) \in Patch(G, Leaf) /\ LocalView(d) \in Patch(G, Leaf)
<1>1. Row(d) \in Patch(G, Leaf)
      BY NothingIsPatch DEF DatabaseInv, Row
<1>2. pending[d] \in Seq(Write(G))
      BY DEF DatabaseInv
<1>3. QED
      BY <1>1, <1>2, ViewIsPatch DEF LocalView

-----------------------------------------------------------------------------
(* Calls, messages and blocks.                                             *)

\* The three kinds of calls.
LEMMA CallKinds ==
    ASSUME NEW G, NEW b, NEW c \in Call(G, b)
    PROVE  /\ c.kind = "get" => c.then \in DOMAIN b /\ c.leaves = b[c.then]
           /\ c.kind = "put" => c.write \in Write(G)
BY DEF Call, GetData, SetValue, Observe

\* The three kinds of messages.
LEMMA MessageKinds ==
    ASSUME NEW G, NEW b, NEW m \in Message(G, b)
    PROVE  /\ m.kind = "reply" => m.then \in DOMAIN b /\ m.snap \in Patch(G, b[m.then])
           /\ m.kind = "event" => m.write \in Write(G)
BY DEF Message, Ack, Event, Reply

LEMMA PutIsCall ==
    ASSUME NEW G, NEW b, NEW w \in Write(G)
    PROVE  SetValue(w) \in Call(G, b)
BY DEF Call

LEMMA GetIsCall ==
    ASSUME NEW G, NEW b, NEW t \in DOMAIN b
    PROVE  GetData(b[t], t) \in Call(G, b)
BY DEF Call

LEMMA ObserveIsCall ==
    ASSUME NEW G, NEW b
    PROVE  Observe \in Call(G, b)
BY DEF Call

\* Setting one leaf to a value it may have.
LEMMA PutLeafIsCall ==
    ASSUME NEW G, NEW b, Allows(G), NEW l \in Leaf, NEW v \in G[l]
    PROVE  SetValue(SetLeaf(l, v)) \in Call(G, b)
BY SetLeafIsWrite, PutIsCall

\* The answers a device may take next: the block is one that was dispatched,
\* its snapshot has values that are allowed, and the queues it leaves are as
\* well-typed as before.
LEMMA AnswersAreGood ==
    ASSUME NEW G, NEW B, Allows(G), Asks(B), DatabaseInv(G, B), NEW d \in Device,
           NEW a \in Answers(d)
    PROVE  /\ a.then \in DOMAIN B[d]
           /\ a.snap \in Patch(G, B[d][a.then])
           /\ a.todo \in Seq(Call(G, B[d]))
           /\ a.inbox \in Seq(Message(G, B[d]))
<1>1. todo[d] \in Seq(Call(G, B[d])) /\ inbox[d] \in Seq(Message(G, B[d]))
      BY DEF DatabaseInv
<1>2. LocalView(d) \in Patch(G, Leaf)
      BY RowIsPatch
<1>3. CASE \E t \in First(todo[d]) :
              /\ t.kind = "get"
              /\ a = [then  |-> t.then,
                      snap  |-> [l \in t.leaves |-> LocalView(d)[l]],
                      todo  |-> Tail(todo[d]),
                      inbox |-> inbox[d]]
  <2>1. PICK t \in First(todo[d]) :
              /\ t.kind = "get"
              /\ a = [then  |-> t.then,
                      snap  |-> [l \in t.leaves |-> LocalView(d)[l]],
                      todo  |-> Tail(todo[d]),
                      inbox |-> inbox[d]]
        BY <1>3
  <2>2. todo[d] # <<>> /\ t \in Call(G, B[d])
        BY <1>1 DEF First
  <2>3. t.then \in DOMAIN B[d] /\ t.leaves = B[d][t.then]
        BY <2>1, <2>2, CallKinds
  <2>4. t.leaves \subseteq Leaf
        BY <2>3 DEF Asks
  <2>5. [l \in t.leaves |-> LocalView(d)[l]] \in Patch(G, B[d][t.then])
        BY <1>2, <2>3, <2>4, PartIsPatch
  <2>6. Tail(todo[d]) \in Seq(Call(G, B[d]))
        BY <1>1, <2>2, HeadTailProperties
  <2>7. /\ a.then = t.then /\ a.snap = [l \in t.leaves |-> LocalView(d)[l]]
        /\ a.todo = Tail(todo[d]) /\ a.inbox = inbox[d]
        BY <2>1
  <2>8. QED
        BY <1>1, <2>3, <2>5, <2>6, <2>7
<1>4. CASE \E m \in First(inbox[d]) :
              /\ m.kind = "reply"
              /\ a = [then  |-> m.then,
                      snap  |-> m.snap,
                      todo  |-> todo[d],
                      inbox |-> Tail(inbox[d])]
  <2>1. PICK m \in First(inbox[d]) :
              /\ m.kind = "reply"
              /\ a = [then  |-> m.then,
                      snap  |-> m.snap,
                      todo  |-> todo[d],
                      inbox |-> Tail(inbox[d])]
        BY <1>4
  <2>2. inbox[d] # <<>> /\ m \in Message(G, B[d])
        BY <1>1 DEF First
  <2>3. m.then \in DOMAIN B[d] /\ m.snap \in Patch(G, B[d][m.then])
        BY <2>1, <2>2, MessageKinds
  <2>4. Tail(inbox[d]) \in Seq(Message(G, B[d]))
        BY <1>1, <2>2, HeadTailProperties
  <2>5. /\ a.then = m.then /\ a.snap = m.snap
        /\ a.todo = todo[d] /\ a.inbox = Tail(inbox[d])
        BY <2>1
  <2>6. QED
        BY <1>1, <2>3, <2>4, <2>5
<1>5. QED
      BY <1>3, <1>4 DEF Answers

LEMMA AnswerFacts ==
    ASSUME NEW G, NEW B, Allows(G), Asks(B), DatabaseInv(G, B), NEW d \in Device,
           NEW op, NEW a \in AnswersTo(d, op)
    PROVE  /\ a.then \in DOMAIN B[d] /\ a.then.op = op
           /\ a.snap \in Patch(G, B[d][a.then])
           /\ a.todo \in Seq(Call(G, B[d])) /\ a.inbox \in Seq(Message(G, B[d]))
BY AnswersAreGood DEF AnswersTo

-----------------------------------------------------------------------------
(* More values may come to be allowed.                                     *)

Wider(G, H) == \A l \in Leaf : G[l] \subseteq H[l]

LEMMA PatchWidens ==
    ASSUME NEW G, NEW H, Wider(G, H), NEW S \in SUBSET Leaf
    PROVE  Patch(G, S) \subseteq Patch(H, S)
BY DEF Patch, Wider

LEMMA WriteWidens ==
    ASSUME NEW G, NEW H, Wider(G, H)
    PROVE  Write(G) \subseteq Write(H)
BY PatchWidens DEF Write

LEMMA CallWidens ==
    ASSUME NEW G, NEW H, Wider(G, H), NEW b
    PROVE  Call(G, b) \subseteq Call(H, b)
BY WriteWidens DEF Call

LEMMA MessageWidens ==
    ASSUME NEW G, NEW H, Wider(G, H), NEW b, \A t \in DOMAIN b : b[t] \subseteq Leaf
    PROVE  Message(G, b) \subseteq Message(H, b)
BY WriteWidens, PatchWidens DEF Message

LEMMA DatabaseWidens ==
    ASSUME NEW G, NEW H, NEW B, Wider(G, H), Asks(B), DatabaseInv(G, B)
    PROVE  DatabaseInv(H, B)
<1>1. record \in Patch(H, Leaf)
      BY PatchWidens DEF DatabaseInv
<1>2. ASSUME NEW d \in Device
      PROVE  /\ todo[d] \in Seq(Call(H, B[d]))
             /\ pending[d] \in Seq(Write(H))
             /\ wire[d] \in Seq(Call(H, B[d]))
             /\ held[d] \in Seq(Call(H, B[d]))
             /\ inbox[d] \in Seq(Message(H, B[d]))
             /\ cache[d] \in Patch(H, Leaf) \cup {Absent}
  <2>1. Call(G, B[d]) \subseteq Call(H, B[d]) /\ Write(G) \subseteq Write(H)
        BY CallWidens, WriteWidens
  <2>2. Message(G, B[d]) \subseteq Message(H, B[d])
        BY MessageWidens DEF Asks
  <2>3. Patch(G, Leaf) \subseteq Patch(H, Leaf)
        BY PatchWidens
  <2>4. /\ todo[d] \in Seq(Call(G, B[d]))
        /\ pending[d] \in Seq(Write(G))
        /\ wire[d] \in Seq(Call(G, B[d]))
        /\ held[d] \in Seq(Call(G, B[d]))
        /\ inbox[d] \in Seq(Message(G, B[d]))
        /\ cache[d] \in Patch(G, Leaf) \cup {Absent}
        BY DEF DatabaseInv
  <2>5. QED
        BY <2>1, <2>2, <2>3, <2>4, SeqMonotonic
<1>3. QED
      BY <1>1, <1>2 DEF DatabaseInv

-----------------------------------------------------------------------------
(* Handlers and blocks.                                                    *)

LEMMA DispatchKeeps ==
    ASSUME NEW G, NEW B, DatabaseInv(G, B), NEW d \in Device,
           NEW calls \in Seq(Call(G, B[d])), Dispatch(d, calls)
    PROVE  DatabaseInv(G, B)'
<1>1. todo[d] \o calls \in Seq(Call(G, B[d]))
      BY ConcatProperties DEF DatabaseInv
<1>2. QED
      BY <1>1 DEF DatabaseInv, Dispatch, linkVars

LEMMA ReturnKeeps ==
    ASSUME NEW G, NEW B, Allows(G), Asks(B), DatabaseInv(G, B), NEW d \in Device,
           NEW op, NEW a \in AnswersTo(d, op),
           NEW calls \in Seq(Call(G, B[d])), Return(d, a, calls)
    PROVE  DatabaseInv(G, B)'
<1>1. a.todo \o calls \in Seq(Call(G, B[d])) /\ a.inbox \in Seq(Message(G, B[d]))
      BY AnswerFacts, ConcatProperties
<1>2. QED
      BY <1>1 DEF DatabaseInv, Return, linkVars

-----------------------------------------------------------------------------
(* The worker queue, the server and the connection.                        *)

\* The first call of the worker queue.
LEMMA FirstCall ==
    ASSUME NEW G, NEW B, DatabaseInv(G, B), NEW d \in Device, NEW c \in First(todo[d])
    PROVE  c \in Call(G, B[d]) /\ Tail(todo[d]) \in Seq(Call(G, B[d]))
BY HeadTailProperties DEF First, DatabaseInv

\* The oldest message.
LEMMA FirstMessage ==
    ASSUME NEW G, NEW B, DatabaseInv(G, B), NEW d \in Device, NEW m \in First(inbox[d])
    PROVE  m \in Message(G, B[d]) /\ Tail(inbox[d]) \in Seq(Message(G, B[d]))
BY HeadTailProperties DEF First, DatabaseInv

LEMMA ExecuteWriteKeeps ==
    ASSUME NEW G, NEW B, DatabaseInv(G, B), NEW d \in Device, ExecuteWrite(d)
    PROVE  DatabaseInv(G, B)'
<1>1. PICK c \in First(todo[d]) :
          /\ c.kind = "put"
          /\ pending' = [pending EXCEPT ![d] = Append(@, c.write)]
          /\ wire' = [wire EXCEPT ![d] = Append(@, c)]
      BY DEF ExecuteWrite
<1>2. c \in Call(G, B[d]) /\ c.write \in Write(G) /\ Tail(todo[d]) \in Seq(Call(G, B[d]))
      BY <1>1, FirstCall, CallKinds
<1>3. Append(pending[d], c.write) \in Seq(Write(G))
      BY <1>2, AppendProperties DEF DatabaseInv
<1>4. Append(wire[d], c) \in Seq(Call(G, B[d]))
      BY <1>2, AppendProperties DEF DatabaseInv
<1>5. QED
      BY <1>1, <1>2, <1>3, <1>4 DEF ExecuteWrite, DatabaseInv, linkVars

LEMMA ExecuteGetKeeps ==
    ASSUME NEW G, NEW B, DatabaseInv(G, B), NEW d \in Device, ExecuteGet(d)
    PROVE  DatabaseInv(G, B)'
<1>1. PICK c \in First(todo[d]) : wire' = [wire EXCEPT ![d] = Append(@, c)]
      BY DEF ExecuteGet
<1>2. /\ Append(wire[d], c) \in Seq(Call(G, B[d]))
      /\ Tail(todo[d]) \in Seq(Call(G, B[d]))
      BY FirstCall, AppendProperties DEF DatabaseInv
<1>3. QED
      BY <1>1, <1>2 DEF ExecuteGet, DatabaseInv, linkVars

LEMMA HoldGetKeeps ==
    ASSUME NEW G, NEW B, DatabaseInv(G, B), NEW d \in Device, HoldGet(d)
    PROVE  DatabaseInv(G, B)'
<1>1. PICK c \in First(todo[d]) : held' = [held EXCEPT ![d] = Append(@, c)]
      BY DEF HoldGet
<1>2. /\ Append(held[d], c) \in Seq(Call(G, B[d]))
      /\ Tail(todo[d]) \in Seq(Call(G, B[d]))
      BY FirstCall, AppendProperties DEF DatabaseInv
<1>3. QED
      BY <1>1, <1>2 DEF HoldGet, DatabaseInv, linkVars

LEMMA TimeOutKeeps ==
    ASSUME NEW G, NEW B, DatabaseInv(G, B), NEW d \in Device, TimeOut(d)
    PROVE  DatabaseInv(G, B)'
<1>1. Tail(held[d]) \in Seq(Call(G, B[d]))
      BY HeadTailProperties DEF TimeOut, DatabaseInv
<1>2. QED
      BY <1>1 DEF TimeOut, DatabaseInv, linkVars

LEMMA ExecuteListenKeeps ==
    ASSUME NEW G, NEW B, DatabaseInv(G, B), NEW d \in Device, ExecuteListen(d)
    PROVE  DatabaseInv(G, B)'
<1>1. /\ Append(wire[d], Observe) \in Seq(Call(G, B[d]))
      /\ Tail(todo[d]) \in Seq(Call(G, B[d]))
      BY FirstCall, ObserveIsCall, AppendProperties DEF ExecuteListen, DatabaseInv
<1>2. QED
      BY <1>1 DEF ExecuteListen, DatabaseInv

LEMMA ReceiveAckKeeps ==
    ASSUME NEW G, NEW B, DatabaseInv(G, B), NEW d \in Device, ReceiveAck(d)
    PROVE  DatabaseInv(G, B)'
<1>1. Tail(inbox[d]) \in Seq(Message(G, B[d]))
      BY FirstMessage DEF ReceiveAck
<1>2. SubSeq(pending[d], 2, Len(pending[d])) \in Seq(Write(G))
  <2>1. pending[d] \in Seq(Write(G))
        BY DEF DatabaseInv
  <2>2. Len(pending[d]) \in Int /\ 2 \in Int
        BY <2>1, LenProperties
  <2>3. \A i \in 2..Len(pending[d]) : pending[d][i] \in Write(G)
        BY <2>1, <2>2, ElementOfSeq
  <2>4. QED
        BY <2>2, <2>3, SubSeqProperties
<1>3. QED
      BY <1>1, <1>2 DEF ReceiveAck, DatabaseInv, linkVars

LEMMA ReceiveEventKeeps ==
    ASSUME NEW G, NEW B, Allows(G), DatabaseInv(G, B), NEW d \in Device, ReceiveEvent(d)
    PROVE  DatabaseInv(G, B)'
<1>1. PICK m \in First(inbox[d]) :
          /\ m.kind = "event"
          /\ cache' = [cache EXCEPT ![d] = Overlay(Row(d), m.write)]
      BY DEF ReceiveEvent
<1>2. m.write \in Write(G) /\ Tail(inbox[d]) \in Seq(Message(G, B[d]))
      BY <1>1, FirstMessage, MessageKinds
<1>3. Overlay(Row(d), m.write) \in Patch(G, Leaf)
      BY <1>2, RowIsPatch, OverlayIsPatch
<1>4. QED
      BY <1>1, <1>2, <1>3 DEF ReceiveEvent, DatabaseInv, linkVars

\* What is on the wire is a call, and serving it leaves calls there.
LEMMA RequestIsCall ==
    ASSUME NEW G, NEW B, DatabaseInv(G, B), NEW d \in Device, Reachable(d)
    PROVE  Head(wire[d]) \in Call(G, B[d]) /\ Tail(wire[d]) \in Seq(Call(G, B[d]))
BY HeadTailProperties DEF DatabaseInv, Reachable

LEMMA ServeWriteKeeps ==
    ASSUME NEW G, NEW B, Allows(G), DatabaseInv(G, B), NEW d \in Device, ServeWrite(d)
    PROVE  DatabaseInv(G, B)'
<1> DEFINE w == Head(wire[d]).write
<1>1. w \in Write(G) /\ Tail(wire[d]) \in Seq(Call(G, B[d]))
      BY RequestIsCall, CallKinds DEF ServeWrite
<1>2. record' \in Patch(G, Leaf)
      BY <1>1, OverlayIsPatch DEF ServeWrite, DatabaseInv
<1>3. DOMAIN inbox' = Device /\ \A e \in Device : inbox'[e] \in Seq(Message(G, B[e]))
  <2>1. ASSUME NEW e \in Device
        PROVE  inbox[e] \o Notices(e, d, w) \in Seq(Message(G, B[e]))
    <3> DEFINE M == Message(G, B[e])
    <3>1. Event(w) \in M /\ Ack \in M
          BY <1>1 DEF Message
    <3>2. inbox[e] \in Seq(M)
          BY DEF DatabaseInv
    <3> HIDE DEF M
    <3>3. Notices(e, d, w) \in Seq(M)
          BY <3>1 DEF Notices
    <3>4. QED
          BY <3>2, <3>3, ConcatProperties DEF M
  <2>2. inbox' = [e \in Device |-> inbox[e] \o Notices(e, d, w)]
        BY DEF ServeWrite
  <2>3. QED
        BY <2>1, <2>2
<1>4. QED
      BY <1>1, <1>2, <1>3 DEF ServeWrite, DatabaseInv, linkVars

LEMMA ServeGetKeeps ==
    ASSUME NEW G, NEW B, Asks(B), DatabaseInv(G, B), NEW d \in Device, ServeGet(d)
    PROVE  DatabaseInv(G, B)'
<1> DEFINE r == Head(wire[d])
           snap == [l \in r.leaves |-> record[l]]
<1>1. r \in Call(G, B[d]) /\ Tail(wire[d]) \in Seq(Call(G, B[d]))
      BY RequestIsCall DEF ServeGet
<1>2. r.then \in DOMAIN B[d] /\ r.leaves = B[d][r.then]
      BY <1>1, CallKinds DEF ServeGet
<1>3. snap \in Patch(G, B[d][r.then])
      BY <1>2, PartIsPatch DEF DatabaseInv, Asks
<1>4. Reply(r.then, snap) \in Message(G, B[d])
      BY <1>2, <1>3 DEF Message
<1>5. Append(inbox[d], Reply(r.then, snap)) \in Seq(Message(G, B[d]))
      BY <1>4, AppendProperties DEF DatabaseInv
<1>6. QED
      BY <1>1, <1>5 DEF ServeGet, DatabaseInv, linkVars

LEMMA ServeListenKeeps ==
    ASSUME NEW G, NEW B, DatabaseInv(G, B), NEW d \in Device, ServeListen(d)
    PROVE  DatabaseInv(G, B)'
<1>1. Tail(wire[d]) \in Seq(Call(G, B[d]))
      BY RequestIsCall DEF ServeListen
<1>2. Event(record) \in Message(G, B[d])
      BY PatchIsWrite DEF Message, DatabaseInv
<1>3. Append(inbox[d], Event(record)) \in Seq(Message(G, B[d]))
      BY <1>2, AppendProperties DEF DatabaseInv
<1>4. QED
      BY <1>1, <1>3 DEF ServeListen, DatabaseInv

LEMMA DisconnectKeeps ==
    ASSUME NEW G, NEW B, DatabaseInv(G, B), NEW d \in Device, Disconnect(d)
    PROVE  DatabaseInv(G, B)'
<1> DEFINE C == Call(G, B[d])
<1>1. Resends(d) \in Seq(C)
  <2>1. pending[d] \in Seq(Write(G))
        BY DEF DatabaseInv
  <2>2. Len(pending[d]) \in Nat
        BY <2>1, LenProperties
  <2>3. \A i \in 1..Len(pending[d]) : SetValue(pending[d][i]) \in C
        BY <2>1, ElementOfSeq, PutIsCall
  <2> HIDE DEF C
  <2>4. QED
        BY <2>2, <2>3 DEF Resends
<1>2. <<>> \in Seq(Message(G, B[d]))
      BY EmptySeq
<1>3. QED
      BY <1>1, <1>2 DEF Disconnect, DatabaseInv

LEMMA ReconnectKeeps ==
    ASSUME NEW G, NEW B, DatabaseInv(G, B), NEW d \in Device, Reconnect(d)
    PROVE  DatabaseInv(G, B)'
<1> DEFINE C == Call(G, B[d])
           again == IF listens[d] THEN <<Observe>> ELSE <<>>
<1>1. again \o wire[d] \o held[d] \in Seq(C)
  <2>1. Observe \in C
        BY ObserveIsCall
  <2>2. wire[d] \in Seq(C) /\ held[d] \in Seq(C)
        BY DEF DatabaseInv
  <2> HIDE DEF C
  <2>3. again \in Seq(C)
        BY <2>1
  <2>4. QED
        BY <2>2, <2>3, ConcatProperties
<1>2. <<>> \in Seq(C)
      BY EmptySeq
<1>3. QED
      BY <1>1, <1>2 DEF Reconnect, DatabaseInv

LEMMA ProcessEndsKeeps ==
    ASSUME NEW G, NEW B, DatabaseInv(G, B), NEW d \in Device, ProcessEnds(d)
    PROVE  DatabaseInv(G, B)'
<1>1. PICK n \in 0..(IF online[d] THEN Len(wire[d]) ELSE 0) :
          wire' = [wire EXCEPT ![d] = SubSeq(@, 1, n)]
      BY DEF ProcessEnds
<1>2. SubSeq(wire[d], 1, n) \in Seq(Call(G, B[d]))
  <2>1. wire[d] \in Seq(Call(G, B[d]))
        BY DEF DatabaseInv
  <2>2. Len(wire[d]) \in Nat
        BY <2>1, LenProperties
  <2>3. n \in Int /\ 1 \in Int /\ 1..n \subseteq 1..Len(wire[d])
        BY <2>2
  <2>4. \A i \in 1..n : wire[d][i] \in Call(G, B[d])
        BY <2>1, <2>3, ElementOfSeq
  <2>5. QED
        BY <2>3, <2>4, SubSeqProperties
<1>3. \A S : <<>> \in Seq(S)
      BY EmptySeq
<1>4. QED
      BY <1>1, <1>2, <1>3 DEF ProcessEnds, DatabaseInv

LEMMA ProcessStartsKeeps ==
    ASSUME NEW G, NEW B, DatabaseInv(G, B), NEW d \in Device, ProcessStarts(d)
    PROVE  DatabaseInv(G, B)'
BY DEF ProcessStarts, DatabaseInv

-----------------------------------------------------------------------------
(* Sequences that the login screen makes of a snapshot.                    *)

\* An order of a finite set is a sequence of its members.
LEMMA OrdersAreSequences ==
    ASSUME NEW S, IsFiniteSet(S), NEW order \in Orders(S)
    PROVE  /\ order \in Seq(S)
           /\ DOMAIN order = 1..Len(order) /\ Len(order) \in Nat
BY FS_CardinalityType DEF Orders

\* Sorting rearranges.
LEMMA SortedIsSequence ==
    ASSUME NEW R, NEW rows \in Seq(R), NEW sorted \in Sorted(rows)
    PROVE  sorted \in Seq(R)
<1>1. IsFiniteSet(DOMAIN rows) /\ DOMAIN rows = 1..Len(rows) /\ Len(rows) \in Nat
  <2>1. DOMAIN rows = 1..Len(rows) /\ Len(rows) \in Int /\ Len(rows) \in Nat
        BY LenProperties
  <2>2. QED
        BY <2>1, FS_Interval
<1>2. PICK order \in Orders(DOMAIN rows) :
            sorted = [i \in DOMAIN rows |-> rows[order[i]]]
      BY DEF Sorted
<1>3. Cardinality(DOMAIN rows) = Len(rows)
  <2>1. 1 \in Int /\ Len(rows) \in Int
        BY <1>1
  <2>2. QED
        BY <1>1, <2>1, FS_Interval
<1>4. order \in [1..Len(rows) -> DOMAIN rows]
      BY <1>2, <1>3 DEF Orders
<1>5. sorted \in [1..Len(rows) -> R]
      BY <1>1, <1>2, <1>4, ElementOfSeq
<1>6. QED
      BY <1>1, <1>5, SeqDef

\* The indices that hold an entry of a list without a hole are the first ones,
\* and its entries are coordinates.
LEMMA ListIsSequence ==
    ASSUME NEW G, Allows(G), NEW S \in SUBSET Leaf, NEW snap \in Patch(G, S),
           NEW k \in Key, ActiveList(k) \subseteq S, ~HasHole(snap, k)
    PROVE  /\ ListLength(snap, k) \in 0..(MaxIndex + 1)
           /\ ListOf(snap, k) \in Seq(Coordinate)
           /\ Len(ListOf(snap, k)) = ListLength(snap, k)
<1> DEFINE all == 0..MaxIndex
           there == {i \in all : snap[ActiveItem(k, i)] # Absent}
           n == ListLength(snap, k)
<1>1. MaxIndex \in Nat
      BY SchemaAssumption
<1>2. IsFiniteSet(all) /\ Cardinality(all) = MaxIndex + 1
  <2>1. 0 \in Int /\ MaxIndex \in Int
        BY <1>1
  <2>2. QED
        BY <1>1, <2>1, FS_Interval
<1>3. n = Cardinality(there) /\ n \in Nat /\ n <= MaxIndex + 1
  <2>1. Cardinality(there) \in Nat /\ Cardinality(there) <= Cardinality(all)
        BY <1>2, FS_Subset, FS_CardinalityType
  <2>2. n = Cardinality(there)
        BY DEF ListLength
  <2>3. QED
        BY <1>2, <2>1, <2>2
<1>4. \A i \in 0..MaxIndex : ActiveItem(k, i) \in ActiveList(k)
      BY DEF ActiveList
<1>5. ASSUME NEW i \in 1..n
      PROVE  snap[ActiveItem(k, i - 1)] \in Coordinate
  <2>1. i - 1 \in 0..MaxIndex
        BY <1>1, <1>3
  <2>2. snap[ActiveItem(k, i - 1)] # Absent
    <3>1. SUFFICES ASSUME snap[ActiveItem(k, i - 1)] = Absent
                   PROVE  FALSE
          OBVIOUS
    <3>2. ASSUME NEW j \in there
          PROVE  j \in 0..(i - 2)
      <4>1. j # i - 1
            BY <3>1
      <4>2. ~(j > i - 1)
        <5>1. SUFFICES ASSUME j > i - 1
                       PROVE  HasHole(snap, k)
              OBVIOUS
        <5>2. i - 1 \in 0..(j - 1)
              BY <2>1, <5>1
        <5>3. QED
              BY <3>1, <5>2 DEF HasHole
      <4>3. QED
            BY <1>3, <4>1, <4>2
    <3>3. IsFiniteSet(0..(i - 2)) /\ Cardinality(0..(i - 2)) = i - 1
      <4>1. 0 \in Int /\ i - 2 \in Int
            BY <1>3
      <4>2. Cardinality(0..(i - 2)) = IF 0 > i - 2 THEN 0 ELSE i - 2 - 0 + 1
            BY <4>1, FS_Interval
      <4>3. QED
            BY <1>3, <4>1, <4>2, FS_Interval
    <3>4. Cardinality(there) <= i - 1
      <4>1. there \subseteq 0..(i - 2)
            BY <3>2
      <4> HIDE DEF there
      <4>2. QED
            BY <3>3, <4>1, FS_Subset
    <3>5. QED
          BY <1>3, <3>4
  <2>3. snap[ActiveItem(k, i - 1)] \in G[ActiveItem(k, i - 1)]
        BY <1>4, <2>1 DEF Patch
  <2>4. ActiveItem(k, i - 1) \in ActiveLeaves
        BY <1>4, <2>1 DEF ActiveLeaves
  <2>5. QED
        BY <2>2, <2>3, <2>4 DEF Allows
<1> DEFINE list == ListOf(snap, k)
<1>6. list \in [1..n -> Coordinate]
      BY <1>5 DEF ListOf
<1> HIDE DEF n, list
<1>7. n \in Nat
      BY <1>3
<1>8. list \in Seq(Coordinate)
      BY <1>6, <1>7
<1>9. Len(list) = n
      BY <1>6, <1>7, <1>8
<1>10. QED
      BY <1>1, <1>3, <1>8, <1>9 DEF n, list

\* How many of the leaves hold a value.
LEMMA HeldLeavesAreFinite ==
    /\ IsFiniteSet(ActiveLeaves)
    /\ \A k \in Key : IsFiniteSet(ActiveList(k))
<1>1. ASSUME NEW k \in Key
      PROVE  IsFiniteSet(ActiveList(k))
  <2> DEFINE all == 0..MaxIndex
             f == [i \in all |-> ActiveItem(k, i)]
  <2>1. IsFiniteSet(all)
    <3>1. 0 \in Int /\ MaxIndex \in Int
          BY SchemaAssumption
    <3>2. QED
          BY <3>1, FS_Interval
  <2>2. f \in Surjection(all, ActiveList(k))
        BY DEF Surjection, ActiveList
  <2> HIDE DEF all, f
  <2>3. QED
        BY <2>1, <2>2, FS_Surjection
<1> DEFINE lists == {ActiveList(k) : k \in Key}
           g == [k \in Key |-> ActiveList(k)]
<1>2. g \in Surjection(Key, lists)
      BY DEF Surjection
<1>3. IsFiniteSet(lists)
  <2> HIDE DEF g, lists
  <2>1. QED
        BY <1>2, SchemaAssumption, FS_Surjection
<1>4. \A list \in lists : IsFiniteSet(list)
      BY <1>1
<1>5. IsFiniteSet(UNION lists)
  <2> HIDE DEF lists
  <2>1. QED
        BY <1>3, <1>4, FS_UNION
<1>6. QED
      BY <1>1, <1>5 DEF ActiveLeaves

-----------------------------------------------------------------------------
(* The process and signing in.                                             *)

LEMMA AppEndsKeeps ==
    ASSUME NEW G, NEW B, NEW K, DatabaseInv(G, B), SessionInv(K),
           NEW d \in Device, AppEnds(d)
    PROVE  DatabaseInv(G, B)' /\ SessionInv(K)'
<1>1. DatabaseInv(G, B)'
      BY ProcessEndsKeeps DEF AppEnds
<1>2. /\ <<>> \in Seq(HeldRow(K)) /\ <<>> \in Seq(PlacedRow)
      /\ NoCoordinates \in [Coordinate -> Nat]
      BY EmptySeq DEF NoCoordinates
<1>3. SessionInv(K)'
      BY <1>2 DEF AppEnds, SessionInv
<1>4. QED
      BY <1>1, <1>3

LEMMA SignInKeeps ==
    ASSUME NEW G, NEW B, NEW K, Asks(B), DatabaseInv(G, B), SessionInv(K),
           NEW d \in Device, NEW screen \in {"welcome", "tabs"},
           NEW more \in Seq(Call(G, B[d])), SignIn(d, screen, more)
    PROVE  DatabaseInv(G, B)' /\ SessionInv(K)'
<1> DEFINE C == Call(G, B[d])
           calls == <<GetData({DisplayName}, NameAnswer)>> \o more
<1>1. GetData({DisplayName}, NameAnswer) \in C
      BY GetIsCall DEF Asks
<1>2. calls \in Seq(C)
  <2> HIDE DEF C
  <2>1. <<GetData({DisplayName}, NameAnswer)>> \in Seq(C)
        BY <1>1
  <2>2. more \in Seq(C)
        BY DEF C
  <2>3. QED
        BY <2>1, <2>2, ConcatProperties
<1>3. DatabaseInv(G, B)'
      BY <1>2, DispatchKeeps DEF SignIn
<1>4. /\ <<>> \in Seq(HeldRow(K)) /\ <<>> \in Seq(PlacedRow)
      /\ NoCoordinates \in [Coordinate -> Nat]
      BY EmptySeq DEF NoCoordinates
<1>5. SessionInv(K)'
      BY <1>4 DEF SignIn, SessionInv
<1>6. QED
      BY <1>3, <1>5

LEMMA ObserveUsersIsCalls ==
    ASSUME NEW G, NEW B, NEW d \in Device
    PROVE  ObserveUsers(d) \in Seq(Call(G, B[d]))
<1> DEFINE C == Call(G, B[d])
<1>1. Observe \in C
      BY ObserveIsCall
<1> HIDE DEF C
<1>2. ObserveUsers(d) \in Seq(C)
      BY <1>1 DEF ObserveUsers
<1>3. QED
      BY <1>2 DEF C

LEMMA DidSignInKeeps ==
    ASSUME NEW G, NEW B, NEW K, Asks(B), DatabaseInv(G, B), SessionInv(K),
           NEW d \in Device, DidSignIn(d)
    PROVE  DatabaseInv(G, B)' /\ SessionInv(K)'
BY ObserveUsersIsCalls, SignInKeeps DEF DidSignIn

\* The record of a new account may be written.
LEMMA NewAccountIsWrite ==
    ASSUME NEW G, Allows(G)
    PROVE  NewAccount \in Write(G)
<1>1. \A l \in Leaf : NewAccount[l] \in G[l]
      BY LeavesAreLeaves DEF Allows, NewAccount
<1>2. NewAccount \in Patch(G, Leaf)
      BY <1>1 DEF NewAccount, Patch, Allows
<1>3. QED
      BY <1>2, PatchIsWrite

LEMMA GotDisplayNameKeeps ==
    ASSUME NEW G, NEW B, NEW K, Allows(G), Asks(B), DatabaseInv(G, B), SessionInv(K),
           NEW d \in Device, GotDisplayName(d)
    PROVE  DatabaseInv(G, B)' /\ SessionInv(K)'
<1> DEFINE C == Call(G, B[d])
           lists == <<GetData(InventoryLeaves, InventoryAnswer),
                      GetData(ActiveLeaves, ActiveAnswer)>>
<1>1. GetData(InventoryLeaves, InventoryAnswer) \in C /\ GetData(ActiveLeaves, ActiveAnswer) \in C
      BY GetIsCall DEF Asks
<1>2. SetValue(NewAccount) \in C
      BY NewAccountIsWrite, PutIsCall
<1>3. lists \in Seq(C) /\ <<SetValue(NewAccount)>> \in Seq(C)
  <2> HIDE DEF C
  <2>1. QED
        BY <1>1, <1>2
<1>4. DatabaseInv(G, B)'
  <2>1. PICK a \in AnswersTo(d, "displayName") :
            Return(d, a, IF Exists(a.snap) THEN lists ELSE <<SetValue(NewAccount)>>)
        BY DEF GotDisplayName
  <2> DEFINE calls == IF Exists(a.snap) THEN lists ELSE <<SetValue(NewAccount)>>
  <2> HIDE DEF lists
  <2>2. calls \in Seq(C)
        BY <1>3
  <2> HIDE DEF calls
  <2>3. QED
        BY <2>1, <2>2, ReturnKeeps DEF calls
<1>5. SessionInv(K)'
      BY DEF GotDisplayName, SessionInv, sessionVars, listVars
<1>6. QED
      BY <1>4, <1>5

LEMMA GotInventoryKeeps ==
    ASSUME NEW G, NEW B, NEW K, Key \subseteq K, Allows(G), Asks(B),
           DatabaseInv(G, B), SessionInv(K), NEW d \in Device, GotInventory(d)
    PROVE  DatabaseInv(G, B)' /\ SessionInv(K)'
<1>1. PICK a \in AnswersTo(d, "inventory") :
          /\ Return(d, a, <<>>)
          /\ \E order \in Orders(KeysHeld(a.snap)) :
             \E rows \in Sorted(inventoryItems[d] \o
                          [i \in DOMAIN order |->
                              InventoryRow(order[i], a.snap[Inventory(order[i])])]) :
                inventoryItems' = IF Exists(a.snap)
                                  THEN [inventoryItems EXCEPT ![d] = rows]
                                  ELSE inventoryItems
      BY DEF GotInventory
<1>2. a.snap \in Patch(G, InventoryLeaves)
      BY AnswerFacts DEF Asks
<1>3. PICK order \in Orders(KeysHeld(a.snap)) :
             \E rows \in Sorted(inventoryItems[d] \o
                          [i \in DOMAIN order |->
                              InventoryRow(order[i], a.snap[Inventory(order[i])])]) :
                inventoryItems' = IF Exists(a.snap)
                                  THEN [inventoryItems EXCEPT ![d] = rows]
                                  ELSE inventoryItems
      BY <1>1
<1> DEFINE read == [i \in DOMAIN order |->
                        InventoryRow(order[i], a.snap[Inventory(order[i])])]
<1>4. read \in Seq(HeldRow(K))
  <2>1. IsFiniteSet(KeysHeld(a.snap))
        BY SchemaAssumption, FS_Subset DEF KeysHeld
  <2>2. order \in Seq(KeysHeld(a.snap)) /\ DOMAIN order = 1..Len(order) /\ Len(order) \in Nat
        BY <2>1, OrdersAreSequences
  <2>3. ASSUME NEW i \in DOMAIN order
        PROVE  InventoryRow(order[i], a.snap[Inventory(order[i])]) \in HeldRow(K)
    <3>1. order[i] \in Key /\ a.snap[Inventory(order[i])] # Absent
          BY <2>2 DEF KeysHeld
    <3>2. a.snap[Inventory(order[i])] \in G[Inventory(order[i])]
          BY <1>2, <3>1, LeavesAreLeaves DEF Patch
    <3>3. a.snap[Inventory(order[i])] \in Nat \ {0}
          BY <3>1, <3>2 DEF Allows
    <3>4. QED
          BY <3>1, <3>3 DEF InventoryRow, HeldRow
  <2>4. QED
        BY <2>2, <2>3
<1>5. inventoryItems[d] \o read \in Seq(HeldRow(K))
      BY <1>4, ConcatProperties DEF SessionInv
<1>6. PICK rows \in Sorted(inventoryItems[d] \o read) :
                inventoryItems' = IF Exists(a.snap)
                                  THEN [inventoryItems EXCEPT ![d] = rows]
                                  ELSE inventoryItems
      BY <1>3
<1>7. rows \in Seq(HeldRow(K))
  <2> HIDE DEF read
  <2>1. QED
        BY <1>5, <1>6, SortedIsSequence
<1>8. DatabaseInv(G, B)'
      BY <1>1, ReturnKeeps, EmptySeq
<1>9. SessionInv(K)'
      BY <1>6, <1>7 DEF GotInventory, SessionInv
<1>10. QED
      BY <1>8, <1>9

LEMMA GotActiveItemsKeeps ==
    ASSUME NEW G, NEW B, NEW K, Allows(G), Asks(B), DatabaseInv(G, B), SessionInv(K),
           NEW d \in Device, GotActiveItems(d)
    PROVE  DatabaseInv(G, B)' /\ SessionInv(K)'
<1>1. PICK a \in AnswersTo(d, "activeItems") :
          /\ \A k \in Key : ~HasHole(a.snap, k)
          /\ Return(d, a, <<>>)
          /\ \E order \in Orders(KeysPlaced(a.snap)) :
                activeItems' = [activeItems EXCEPT ![d] =
                    @ \o [i \in DOMAIN order |->
                            ActiveEntry(order[i], ListOf(a.snap, order[i]))]]
          /\ coordinatesOccupied' = [coordinatesOccupied EXCEPT ![d] =
              [c \in Coordinate |->
                  @[c] + Cardinality({l \in ActiveLeaves : a.snap[l] = c})]]
      BY DEF GotActiveItems
<1>2. a.snap \in Patch(G, ActiveLeaves)
      BY AnswerFacts DEF Asks
<1>3. PICK order \in Orders(KeysPlaced(a.snap)) :
          activeItems' = [activeItems EXCEPT ![d] =
              @ \o [i \in DOMAIN order |->
                      ActiveEntry(order[i], ListOf(a.snap, order[i]))]]
      BY <1>1
<1> DEFINE read == [i \in DOMAIN order |->
                        ActiveEntry(order[i], ListOf(a.snap, order[i]))]
<1>4. read \in Seq(PlacedRow)
  <2>1. IsFiniteSet(KeysPlaced(a.snap))
        BY SchemaAssumption, FS_Subset DEF KeysPlaced
  <2>2. order \in Seq(KeysPlaced(a.snap)) /\ DOMAIN order = 1..Len(order) /\ Len(order) \in Nat
        BY <2>1, OrdersAreSequences
  <2>3. ASSUME NEW i \in DOMAIN order
        PROVE  ActiveEntry(order[i], ListOf(a.snap, order[i])) \in PlacedRow
    <3>1. order[i] \in Key
          BY <2>2 DEF KeysPlaced
    <3>2. ActiveList(order[i]) \subseteq ActiveLeaves
          BY <3>1 DEF ActiveLeaves
    <3>3. ListOf(a.snap, order[i]) \in Seq(Coordinate)
          BY <1>1, <1>2, <3>1, <3>2, LeavesAreLeaves, ListIsSequence
    <3>4. QED
          BY <3>1, <3>3 DEF ActiveEntry, PlacedRow
  <2>4. QED
        BY <2>2, <2>3
<1>5. activeItems[d] \o read \in Seq(PlacedRow)
      BY <1>4, ConcatProperties DEF SessionInv
<1>6. DatabaseInv(G, B)'
      BY <1>1, ReturnKeeps, EmptySeq
<1>7. coordinatesOccupied' \in [Device -> [Coordinate -> Nat]]
  <2>1. ASSUME NEW c \in Coordinate
        PROVE  Cardinality({l \in ActiveLeaves : a.snap[l] = c}) \in Nat
        BY HeldLeavesAreFinite, FS_Subset, FS_CardinalityType
  <2> DEFINE count == [c \in Coordinate |-> Cardinality({l \in ActiveLeaves : a.snap[l] = c})]
             sum == [c \in Coordinate |-> coordinatesOccupied[d][c] + count[c]]
  <2>2. count \in [Coordinate -> Nat]
        BY <2>1
  <2>3. coordinatesOccupied' = [coordinatesOccupied EXCEPT ![d] = sum]
        BY <1>1
  <2> HIDE DEF count
  <2>4. sum \in [Coordinate -> Nat]
        BY <2>2 DEF SessionInv
  <2> HIDE DEF sum
  <2>5. QED
        BY <2>3, <2>4 DEF SessionInv
<1>8. SessionInv(K)'
      BY <1>3, <1>5, <1>7 DEF GotActiveItems, SessionInv
<1>9. QED
      BY <1>6, <1>8

\* The blocks of the login screen and of the leaderboard.
LEMMA SessionAnswerKeeps ==
    ASSUME NEW G, NEW B, NEW K, Key \subseteq K, Allows(G), Asks(B),
           DatabaseInv(G, B), SessionInv(K), NEW d \in Device, SessionAnswer(d)
    PROVE  DatabaseInv(G, B)' /\ SessionInv(K)'
<1>1. CASE CrashOnActiveItems(d) \/ CrashOnPartialRow(d)
      BY <1>1, AppEndsKeeps DEF CrashOnActiveItems, CrashOnPartialRow, Crash
<1>2. CASE LeaderboardChanged(d)
  <2>1. DatabaseInv(G, B)'
        BY <1>2, ReceiveEventKeeps DEF LeaderboardChanged
  <2>2. SessionInv(K)'
        BY <1>2 DEF LeaderboardChanged, SessionInv, sessionVars, listVars
  <2>3. QED
        BY <2>1, <2>2
<1>3. CASE GotDisplayName(d) \/ GotInventory(d) \/ GotActiveItems(d)
      BY <1>3, GotDisplayNameKeeps, GotInventoryKeeps, GotActiveItemsKeeps
<1>4. QED
      BY <1>1, <1>2, <1>3 DEF SessionAnswer

\* Steps of the client library, the server, the network and the system.
LEMMA EnvironmentKeeps ==
    ASSUME NEW G, NEW B, NEW K, Allows(G), Asks(B), DatabaseInv(G, B), SessionInv(K),
           NEW d \in Device, EnvironmentStep(d)
    PROVE  DatabaseInv(G, B)' /\ SessionInv(K)'
<1>1. CASE Kill(d)
      BY <1>1, AppEndsKeeps DEF Kill
<1>2. CASE ~Kill(d)
  <2>1. DatabaseInv(G, B)'
    <3>1. CASE ClientStep(d)
          BY <3>1, ExecuteWriteKeeps, ExecuteGetKeeps, HoldGetKeeps, ExecuteListenKeeps,
             TimeOutKeeps, ReceiveAckKeeps DEF ClientStep
    <3>2. CASE ServerStep(d)
          BY <3>2, ServeWriteKeeps, ServeGetKeeps, ServeListenKeeps DEF ServerStep
    <3>3. CASE Disconnect(d) \/ Reconnect(d)
          BY <3>3, DisconnectKeeps, ReconnectKeeps
    <3>4. CASE Launch(d)
          BY <3>4, ProcessStartsKeeps DEF Launch
    <3>5. QED
          BY <1>2, <3>1, <3>2, <3>3, <3>4 DEF EnvironmentStep
  <2>2. SessionInv(K)'
        BY <1>2 DEF EnvironmentStep, Launch, SessionInv, sessionVars, listVars
  <2>3. QED
        BY <2>1, <2>2
<1>3. QED
      BY <1>1, <1>2

\* The record the server holds at the beginning, and empty queues.
LEMMA SessionInitHolds ==
    ASSUME NEW G, NEW B, NEW K, NEW opening \in Patch(G, Leaf), SessionInit(opening)
    PROVE  DatabaseInv(G, B) /\ SessionInv(K)
<1>1. \A S : <<>> \in Seq(S)
      BY EmptySeq
<1>2. DatabaseInv(G, B)
      BY <1>1 DEF SessionInit, DatabaseInit, DatabaseInv
<1>3. SessionInv(K)
      BY <1>1 DEF SessionInit, SessionInv, NoCoordinates
<1>4. QED
      BY <1>2, <1>3
=============================================================================
