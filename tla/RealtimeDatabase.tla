-------------------------- MODULE RealtimeDatabase --------------------------
(***************************************************************************)
(* The Firebase Realtime Database client of one account, as the view       *)
(* controllers meet it, with the server at the other end.                  *)
(*                                                                         *)
(* Every getData, setValue, removeValue and updateChildValues is           *)
(* dispatched to one serial queue (FirebaseWorker).  When its turn comes a *)
(* write is remembered as pending and sent; a get is answered at once when *)
(* the client already holds the answer, and sent otherwise.  The block of  *)
(* a getData runs on the same queue, and what it issues goes to the        *)
(* queue's tail.                                                           *)
(*                                                                         *)
(*   record       the server's users/<uid>                                 *)
(*   todo[d]      calls dispatched to the worker queue, not executed yet   *)
(*   pending[d]   writes sent or to be sent and not acknowledged           *)
(*                (FWriteTree, outstandingPuts)                            *)
(*   wire[d]      requests on their way to the server, in order            *)
(*   held[d]      gets issued while there is no connection                 *)
(*   inbox[d]     the server's messages not processed yet, in order        *)
(*   cache[d]     users/<uid> as the Dashboard's listener last saw it, or  *)
(*                Absent before its first event                            *)
(*   listens[d]   the client has the Dashboard's observe to keep up        *)
(*   watching[d]  the server holds that listener's registration            *)
(*   online[d]    the connection is established                            *)
(*   up[d]        the app's process runs                                   *)
(*   faults       connections lost and processes killed so far, and        *)
(*                whether a process has ended by a runtime error           *)
(*                                                                         *)
(* The app's modules add the handlers that dispatch calls and the blocks   *)
(* that take the answers.                                                  *)
(***************************************************************************)
EXTENDS UserRecord

CONSTANTS
    Listening,   \* devices whose Dashboard query contains the account's row
    MaxDrops,    \* bound: connections lost in one behaviour
    MaxKills     \* bound: processes killed in one behaviour

\* Absent is also what the cache is of a client whose listener has seen no event yet:
\* it must not be a record.
ASSUME ClientAssumption ==
    /\ Listening \subseteq Device
    /\ MaxDrops \in Nat
    /\ MaxKills \in Nat
    /\ Absent \notin [Leaf -> Value]

VARIABLES record, todo, pending, wire, held, inbox, cache, listens, watching, online,
          up, faults

clientVars == <<todo, pending, wire, held, inbox, cache>>
linkVars   == <<listens, watching, online, up, faults>>
dbVars     == <<record, clientVars, linkVars>>

-----------------------------------------------------------------------------
(* Calls, requests and messages.                                           *)

\* getData on the node that covers these leaves; "then" names the block and
\* carries what the block has captured.
GetData(leaves, then) == [kind |-> "get", leaves |-> leaves, then |-> then]

\* setValue, removeValue (values Absent) and updateChildValues.
SetValue(write) == [kind |-> "put", write |-> write]

\* The Dashboard's observe(.value) on users.
Observe == [kind |-> "listen"]

Ack              == [kind |-> "ack"]
Event(write)     == [kind |-> "event", write |-> write]
Reply(then, snap) == [kind |-> "reply", then |-> then, snap |-> snap]

Calls(s, kind) == {i \in DOMAIN s : s[i].kind = kind}

\* The first element of a sequence, as a set with at most one member.
First(s) == IF s = <<>> THEN {} ELSE {Head(s)}

-----------------------------------------------------------------------------
(* What the client can answer by itself.                                   *)

\* Position i of the writes holds the last one that covers leaf l.
Newest(writes, i, l) ==
    /\ l \in DOMAIN writes[i]
    /\ \A j \in DOMAIN writes : j > i => l \notin DOMAIN writes[j]

\* The event cache: pending writes over what the listener saw.
View(base, writes) ==
    [l \in Leaf |->
        IF \E i \in DOMAIN writes : Newest(writes, i, l)
        THEN writes[CHOOSE i \in DOMAIN writes : Newest(writes, i, l)][l]
        ELSE base[l]]

Row(d) == IF cache[d] = Absent THEN Nothing ELSE cache[d]

LocalView(d) == View(Row(d), pending[d])

\* getServerValue returns a node: the listener has seen the account's row, or
\* one pending write covers all of the node asked for.
ReadsLocally(d, leaves) ==
    \/ Exists(Row(d))
    \/ \E i \in DOMAIN pending[d] : leaves \subseteq DOMAIN pending[d][i]

\* The blocks that may run next on device d, each with its snapshot and the
\* queues as they are when it starts: at most one for a get answered on the
\* spot and one for a reply of the server.
Answers(d) ==
    {[then  |-> t.then,
      snap  |-> [l \in t.leaves |-> LocalView(d)[l]],
      todo  |-> Tail(todo[d]),
      inbox |-> inbox[d]] :
        t \in {c \in First(todo[d]) : c.kind = "get" /\ ReadsLocally(d, c.leaves)}}
    \cup
    {[then  |-> m.then,
      snap  |-> m.snap,
      todo  |-> todo[d],
      inbox |-> Tail(inbox[d])] :
        m \in {c \in First(inbox[d]) : c.kind = "reply"}}

AnswersTo(d, op) == {a \in Answers(d) : a.then.op = op}

\* A handler dispatches calls; a block runs and dispatches calls.
Dispatch(d, calls) ==
    /\ todo' = [todo EXCEPT ![d] = @ \o calls]
    /\ UNCHANGED <<record, pending, wire, held, inbox, cache, linkVars>>

Return(d, a, calls) ==
    /\ todo' = [todo EXCEPT ![d] = a.todo \o calls]
    /\ inbox' = [inbox EXCEPT ![d] = a.inbox]
    /\ UNCHANGED <<record, pending, wire, held, cache, linkVars>>

-----------------------------------------------------------------------------
(* The worker queue.                                                       *)

\* FRepo set / update: remember the write, then send it (or keep it for the
\* next connection, in the same order).
ExecuteWrite(d) ==
    /\ \E c \in First(todo[d]) :
        /\ c.kind = "put"
        /\ pending' = [pending EXCEPT ![d] = Append(@, c.write)]
        /\ wire' = [wire EXCEPT ![d] = Append(@, c)]
    /\ todo' = [todo EXCEPT ![d] = Tail(@)]
    /\ UNCHANGED <<record, held, inbox, cache, linkVars>>

\* FRepo getData that cannot be answered on the spot, with a connection.
ExecuteGet(d) ==
    /\ online[d]
    /\ \E c \in First(todo[d]) :
        /\ c.kind = "get"
        /\ ~ReadsLocally(d, c.leaves)
        /\ wire' = [wire EXCEPT ![d] = Append(@, c)]
    /\ todo' = [todo EXCEPT ![d] = Tail(@)]
    /\ UNCHANGED <<record, pending, held, inbox, cache, linkVars>>

\* The same without a connection: the get waits, with a timer running.
HoldGet(d) ==
    /\ ~online[d]
    /\ \E c \in First(todo[d]) :
        /\ c.kind = "get"
        /\ ~ReadsLocally(d, c.leaves)
        /\ held' = [held EXCEPT ![d] = Append(@, c)]
    /\ todo' = [todo EXCEPT ![d] = Tail(@)]
    /\ UNCHANGED <<record, pending, wire, inbox, cache, linkVars>>

\* kGetDataTimeout: the oldest waiting get is answered with an error.  Every
\* block of the app prints the error and does nothing else.
TimeOut(d) ==
    /\ ~online[d]
    /\ held[d] # <<>>
    /\ held' = [held EXCEPT ![d] = Tail(@)]
    /\ UNCHANGED <<record, todo, pending, wire, inbox, cache, linkVars>>

\* A further observer of the query joins the listen there is.
ExecuteListen(d) ==
    /\ \E c \in First(todo[d]) : c.kind = "listen"
    /\ todo' = [todo EXCEPT ![d] = Tail(@)]
    /\ listens' = [listens EXCEPT ![d] = TRUE]
    /\ wire' = IF online[d] /\ ~listens[d]
               THEN [wire EXCEPT ![d] = Append(@, Observe)] ELSE wire
    /\ UNCHANGED <<record, pending, held, inbox, cache, watching, online, up, faults>>

\* The server's acknowledgement of the oldest pending write.
ReceiveAck(d) ==
    /\ \E m \in First(inbox[d]) : m.kind = "ack"
    /\ inbox' = [inbox EXCEPT ![d] = Tail(@)]
    /\ pending' = [pending EXCEPT ![d] = SubSeq(@, 2, Len(@))]
    /\ UNCHANGED <<record, todo, wire, held, cache, linkVars>>

\* A data message for the Dashboard's listener, and the row the listener's
\* block is given.
RowsShown(d) ==
    {View(Overlay(Row(d), m.write), pending[d]) :
        m \in {c \in First(inbox[d]) : c.kind = "event"}}

ReceiveEvent(d) ==
    /\ \E m \in First(inbox[d]) :
        /\ m.kind = "event"
        /\ cache' = [cache EXCEPT ![d] = Overlay(Row(d), m.write)]
    /\ inbox' = [inbox EXCEPT ![d] = Tail(@)]
    /\ UNCHANGED <<record, todo, pending, wire, held, linkVars>>

-----------------------------------------------------------------------------
(* The server.  It takes the requests of a connection in order; what it    *)
(* had received when a process died it still carries out, answering        *)
(* nobody.                                                                 *)

Reachable(d) == wire[d] # <<>> /\ (online[d] \/ ~up[d])

\* What the server sends device e when device d's write is applied.
Notices(e, d, write) ==
    (IF watching[e] THEN <<Event(write)>> ELSE <<>>)
    \o (IF e = d /\ up[d] THEN <<Ack>> ELSE <<>>)

ServeWrite(d) ==
    /\ Reachable(d)
    /\ LET r == Head(wire[d])
       IN  /\ r.kind = "put"
           /\ record' = Overlay(record, r.write)
           /\ inbox' = [e \in Device |-> inbox[e] \o Notices(e, d, r.write)]
    /\ wire' = [wire EXCEPT ![d] = Tail(@)]
    /\ UNCHANGED <<todo, pending, held, cache, linkVars>>

ServeGet(d) ==
    /\ Reachable(d)
    /\ LET r == Head(wire[d])
       IN  /\ r.kind = "get"
           /\ inbox' = IF up[d]
                       THEN [inbox EXCEPT ![d] =
                                Append(@, Reply(r.then, [l \in r.leaves |-> record[l]]))]
                       ELSE inbox
    /\ wire' = [wire EXCEPT ![d] = Tail(@)]
    /\ UNCHANGED <<record, todo, pending, held, cache, linkVars>>

ServeListen(d) ==
    /\ Reachable(d)
    /\ Head(wire[d]).kind = "listen"
    /\ watching' = [watching EXCEPT ![d] = up[d]]
    /\ inbox' = IF up[d] THEN [inbox EXCEPT ![d] = Append(@, Event(record))]
                         ELSE inbox
    /\ wire' = [wire EXCEPT ![d] = Tail(@)]
    /\ UNCHANGED <<record, todo, pending, held, cache, listens, online, up, faults>>

-----------------------------------------------------------------------------
(* Losing and restoring the connection.                                    *)

\* What a connection that is lost leaves to be sent by the next one.
ResendsUnserved(d) == SelectSeq(wire[d], LAMBDA c : c.kind = "put")
Resends(d) == [i \in 1..Len(pending[d]) |-> SetValue(pending[d][i])]

\* onDisconnect: replies and acknowledgements under way are lost, a get that
\* was sent is forgotten (it is neither sent again nor answered), and every
\* unacknowledged write is to be sent again, whether or not the server has it.
Disconnect(d) ==
    /\ faults.drops < MaxDrops
    /\ up[d] /\ online[d]
    /\ online' = [online EXCEPT ![d] = FALSE]
    /\ watching' = [watching EXCEPT ![d] = FALSE]
    /\ inbox' = [inbox EXCEPT ![d] = <<>>]
    /\ wire' = [wire EXCEPT ![d] = Resends(d)]
    /\ faults' = [faults EXCEPT !.drops = @ + 1]
    /\ UNCHANGED <<record, todo, pending, held, cache, listens, up>>

\* restoreState: the listens, then the outstanding writes, then the gets that
\* still wait.
Reconnect(d) ==
    /\ up[d] /\ ~online[d]
    /\ online' = [online EXCEPT ![d] = TRUE]
    /\ wire' = [wire EXCEPT ![d] =
                    (IF listens[d] THEN <<Observe>> ELSE <<>>) \o @ \o held[d]]
    /\ held' = [held EXCEPT ![d] = <<>>]
    /\ UNCHANGED <<record, todo, pending, inbox, cache, listens, watching, up, faults>>

\* The process of device d ends, by the system's hand or by a runtime error in
\* the app.  Nothing is on disk: the queues are gone, and the server has got
\* some first part of what was on the wire.
ProcessEnds(d) ==
    /\ up' = [up EXCEPT ![d] = FALSE]
    /\ todo' = [todo EXCEPT ![d] = <<>>]
    /\ pending' = [pending EXCEPT ![d] = <<>>]
    /\ held' = [held EXCEPT ![d] = <<>>]
    /\ inbox' = [inbox EXCEPT ![d] = <<>>]
    /\ cache' = [cache EXCEPT ![d] = Absent]
    /\ listens' = [listens EXCEPT ![d] = FALSE]
    /\ watching' = [watching EXCEPT ![d] = FALSE]
    /\ \E n \in 0..(IF online[d] THEN Len(wire[d]) ELSE 0) :
          wire' = [wire EXCEPT ![d] = SubSeq(@, 1, n)]
    /\ UNCHANGED <<record, online>>

\* The app is started again; what the server still had to do for the old
\* process is done by then.
ProcessStarts(d) ==
    /\ ~up[d]
    /\ wire[d] = <<>>
    /\ up' = [up EXCEPT ![d] = TRUE]
    /\ online' = [online EXCEPT ![d] = TRUE]
    /\ UNCHANGED <<record, todo, pending, wire, held, inbox, cache, listens, watching,
                   faults>>

-----------------------------------------------------------------------------

DatabaseInit(opening) ==
    /\ record = opening
    /\ todo = [d \in Device |-> <<>>]
    /\ pending = [d \in Device |-> <<>>]
    /\ wire = [d \in Device |-> <<>>]
    /\ held = [d \in Device |-> <<>>]
    /\ inbox = [d \in Device |-> <<>>]
    /\ cache = [d \in Device |-> Absent]
    /\ listens = [d \in Device |-> FALSE]
    /\ watching = [d \in Device |-> FALSE]
    /\ online = [d \in Device |-> TRUE]
    /\ up = [d \in Device |-> TRUE]
    /\ faults = [drops |-> 0, kills |-> 0, crashed |-> FALSE]

\* What the worker queue does between two blocks of the app.
ClientStep(d) ==
    \/ ExecuteWrite(d) \/ ExecuteGet(d) \/ HoldGet(d) \/ ExecuteListen(d)
    \/ TimeOut(d) \/ ReceiveAck(d)

ServerStep(d) == ServeWrite(d) \/ ServeGet(d) \/ ServeListen(d)

\* A device that waits for nothing: no call is left to execute, no get is
\* unanswered.  Writes may still be unacknowledged.
Idle(d) ==
    /\ todo[d] = <<>>
    /\ held[d] = <<>>
    /\ Calls(wire[d], "get") = {}
    /\ Calls(inbox[d], "reply") = {}

\* Nothing is under way between device d and the server.
Settled(d) ==
    /\ todo[d] = <<>> /\ pending[d] = <<>> /\ wire[d] = <<>>
    /\ held[d] = <<>> /\ inbox[d] = <<>>
=============================================================================
