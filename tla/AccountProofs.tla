---------------------------- MODULE AccountProofs ----------------------------
(***************************************************************************)
(* The account of a user who waits and has one phone: what is deleted      *)
(* stays deleted, and as long as no connection is lost the record has no   *)
(* gaps and shows what the user asked for last.                            *)
(*                                                                         *)
(* What counts is not the record alone but what it will be when the writes *)
(* on the wire have been applied, and those that are still to be executed  *)
(* after them: Base and Final.  Executing a write or applying one does not *)
(* change what the record will be, and the pending writes of a lost        *)
(* connection lead to the same record again: Agrees.                       *)
(***************************************************************************)
EXTENDS QueueProofs, WellFoundedInduction

\* A call that writes leaf l; the last one among the first i of a queue.
Writes(x, l) == x.kind = "put" /\ l \in DOMAIN x.write
LastOf(s, i, l, j) ==
    j \in 1..i /\ Writes(s[j], l) /\ \A h \in (j + 1)..i : ~Writes(s[h], l)

\* What becomes of record b by the first i calls of a queue; by one call.
Stand(s, i, b) ==
    [l \in Leaf |-> IF \E j \in 1..i : LastOf(s, i, l, j)
                    THEN s[CHOOSE j \in 1..i : LastOf(s, i, l, j)].write[l] ELSE b[l]]
After(x, b) == IF x.kind = "put" THEN Overlay(b, x.write) ELSE b

\* The record as it will be when all that is sent is applied, and when all that is
\* to be executed is too.
Base(d)  == Stand(wire[d], Len(wire[d]), record)
Final(d) == Stand(todo[d], Len(todo[d]), Base(d))

-----------------------------------------------------------------------------
(* What writes do to a record.                                             *)

LEMMA ThereIsALast ==
    ASSUME NEW s, NEW i \in Nat, NEW l, \E j \in 1..i : Writes(s[j], l)
    PROVE  \E j \in 1..i : LastOf(s, i, l, j)
<1> DEFINE D == {n \in Nat : n < i /\ Writes(s[i - n], l)}
<1>1. PICK R : R = OpToRel(<, Nat)
      OBVIOUS
<1>2. IsWellFoundedOn(R, Nat)
      BY <1>1, NatLessThanWellFounded
<1>3. IsWellFoundedOn(R, D)
      BY <1>2, IsWellFoundedOnSubset
<1>4. PICK k \in 1..i : Writes(s[k], l)
      OBVIOUS
<1>5. i - k \in D
  <2>1. i - k \in Nat /\ i - k < i /\ i - (i - k) = k
        BY <1>4
  <2>2. QED
        BY <1>4, <2>1
<1>6. PICK n \in D : \A m \in D : ~(<<m, n>> \in R)
      BY <1>3, <1>5, WFMin
<1>7. \A m, h \in Nat : m < h => <<m, h>> \in R
      BY <1>1 DEF OpToRel
<1>8. ASSUME NEW h \in (i - n + 1)..i
      PROVE  ~Writes(s[h], l)
  <2>1. i - h \in Nat /\ i - h < n /\ i - h < i /\ i - (i - h) = h
        BY <1>6, <1>8
  <2>2. ~(i - h \in D)
        BY <1>6, <1>7, <2>1
  <2>3. QED
        BY <2>1, <2>2
<1>9. i - n \in 1..i /\ Writes(s[i - n], l)
      BY <1>6
<1>10. QED
       BY <1>8, <1>9 DEF LastOf

LEMMA LastStands ==
    ASSUME NEW s, NEW i \in Nat, NEW l \in Leaf, NEW j \in 1..i, LastOf(s, i, l, j), NEW b
    PROVE  Stand(s, i, b)[l] = s[j].write[l]
<1>1. PICK h \in 1..i : /\ h = CHOOSE k \in 1..i : LastOf(s, i, l, k)
                        /\ LastOf(s, i, l, h)
      OBVIOUS
<1>2. h = j
  <2>1. ~(h < j) /\ ~(j < h)
        BY <1>1 DEF LastOf
  <2>2. QED
        BY <2>1
<1>3. QED
      BY <1>1, <1>2 DEF Stand

LEMMA UnwrittenStands ==
    ASSUME NEW s, NEW i \in Nat, NEW l \in Leaf, NEW b,
           \A j \in 1..i : ~Writes(s[j], l)
    PROVE  Stand(s, i, b)[l] = b[l]
BY DEF Stand, LastOf

LEMMA StandIsARow == \A s, i, b : DOMAIN Stand(s, i, b) = Leaf
BY DEF Stand

\* Two rows are the same that have the same at each leaf.
LEMMA SameRow ==
    ASSUME NEW s, NEW i, NEW b, NEW t, NEW k, NEW c,
           \A l \in Leaf : Stand(s, i, b)[l] = Stand(t, k, c)[l]
    PROVE  Stand(s, i, b) = Stand(t, k, c)
<1>1. PICK p : p = Stand(s, i, b) /\ p = [l \in Leaf |-> p[l]]
      BY DEF Stand
<1>2. PICK q : q = Stand(t, k, c) /\ q = [l \in Leaf |-> q[l]]
      BY DEF Stand
<1>3. QED
      BY <1>1, <1>2

LEMMA NothingWritten ==
    ASSUME NEW s, NEW b, b = [l \in Leaf |-> b[l]]
    PROVE  Stand(s, 0, b) = b
<1>1. \A l \in Leaf : ~\E j \in 1..0 : LastOf(s, 0, l, j)
      OBVIOUS
<1>2. Stand(s, 0, b) = [l \in Leaf |-> b[l]]
      BY <1>1 DEF Stand
<1>3. QED
      BY <1>2

LEMMA AlikeStand ==
    ASSUME NEW s, NEW t, NEW i \in Nat, NEW b, \A j \in 1..i : t[j] = s[j]
    PROVE  Stand(t, i, b) = Stand(s, i, b)
<1>1. ASSUME NEW l \in Leaf
      PROVE  Stand(t, i, b)[l] = Stand(s, i, b)[l]
  <2>1. CASE \E j \in 1..i : Writes(s[j], l)
    <3>1. PICK j \in 1..i : LastOf(s, i, l, j)
          BY <2>1, ThereIsALast
    <3>2. \A h \in (j + 1)..i : h \in 1..i
          OBVIOUS
    <3>3. LastOf(t, i, l, j)
          BY <3>1, <3>2 DEF LastOf
    <3>4. QED
          BY <3>1, <3>3, LastStands
  <2>2. CASE \A j \in 1..i : ~Writes(s[j], l)
        BY <2>2, UnwrittenStands
  <2>3. QED
        BY <2>1, <2>2
<1>2. QED
      BY <1>1, SameRow

\* The calls of t come after the first n of s; what the first n leave is c.
LEMMA StandOnStand ==
    ASSUME NEW s, NEW t, NEW n \in Nat, NEW i \in Nat, NEW b,
           \A j \in 1..i : s[n + j] = t[j]
    PROVE  Stand(s, n + i, b) = Stand(t, i, Stand(s, n, b))
<1>1. ASSUME NEW l \in Leaf
      PROVE  Stand(s, n + i, b)[l] = Stand(t, i, Stand(s, n, b))[l]
  <2>1. CASE \E j \in 1..i : Writes(t[j], l)
    <3>1. PICK j \in 1..i : LastOf(t, i, l, j)
          BY <2>1, ThereIsALast
    <3>2. n + j \in 1..(n + i) /\ n + i \in Nat
          OBVIOUS
    <3>3. ASSUME NEW h \in (n + j + 1)..(n + i)
          PROVE  ~Writes(s[h], l)
      <4>1. h - n \in (j + 1)..i /\ h - n \in 1..i /\ n + (h - n) = h
            OBVIOUS
      <4>2. QED
            BY <3>1, <4>1 DEF LastOf
    <3>4. LastOf(s, n + i, l, n + j)
          BY <3>1, <3>2, <3>3 DEF LastOf
    <3>5. Stand(s, n + i, b)[l] = s[n + j].write[l]
          BY <3>2, <3>4, LastStands
    <3>6. QED
          BY <3>1, <3>5, LastStands
  <2>2. CASE \A j \in 1..i : ~Writes(t[j], l)
    <3>1. Stand(t, i, Stand(s, n, b))[l] = Stand(s, n, b)[l]
          BY <2>2, UnwrittenStands
    <3>2. ASSUME NEW h \in (n + 1)..(n + i)
          PROVE  ~Writes(s[h], l)
      <4>1. h - n \in 1..i /\ n + (h - n) = h
            OBVIOUS
      <4>2. QED
            BY <2>2, <4>1
    <3>3. CASE \E j \in 1..n : Writes(s[j], l)
      <4>1. PICK j \in 1..n : LastOf(s, n, l, j)
            BY <3>3, ThereIsALast
      <4>2. j \in 1..(n + i) /\ n + i \in Nat
            OBVIOUS
      <4>3. ASSUME NEW h \in (j + 1)..(n + i)
            PROVE  ~Writes(s[h], l)
        <5>1. h \in (j + 1)..n \/ h \in (n + 1)..(n + i)
              OBVIOUS
        <5>2. QED
              BY <3>2, <4>1, <5>1 DEF LastOf
      <4>4. LastOf(s, n + i, l, j)
            BY <4>1, <4>2, <4>3 DEF LastOf
      <4>5. Stand(s, n + i, b)[l] = s[j].write[l]
            BY <4>2, <4>4, LastStands
      <4>6. QED
            BY <3>1, <4>1, <4>5, LastStands
    <3>4. CASE \A j \in 1..n : ~Writes(s[j], l)
      <4>1. ASSUME NEW h \in 1..(n + i)
            PROVE  ~Writes(s[h], l)
        <5>1. h \in 1..n \/ h \in (n + 1)..(n + i)
              OBVIOUS
        <5>2. QED
              BY <3>2, <3>4, <5>1
      <4>2. n + i \in Nat
            OBVIOUS
      <4>3. Stand(s, n + i, b)[l] = b[l]
            BY <4>1, <4>2, UnwrittenStands
      <4>4. QED
            BY <3>1, <3>4, <4>3, UnwrittenStands
    <3>5. QED
          BY <3>3, <3>4
  <2>3. QED
        BY <2>1, <2>2
<1>2. QED
      BY <1>1, SameRow

\* One call.
LEMMA OneStands ==
    ASSUME NEW s, NEW b, b = [l \in Leaf |-> b[l]]
    PROVE  Stand(s, 1, b) = After(s[1], b)
<1>1. PICK p : p = Stand(s, 1, b) /\ p = [l \in Leaf |-> p[l]]
      BY DEF Stand
<1>2. PICK q : q = After(s[1], b) /\ q = [l \in Leaf |-> q[l]]
      BY DEF After, Overlay
<1>3. ASSUME NEW l \in Leaf
      PROVE  p[l] = q[l]
  <2>1. CASE Writes(s[1], l)
    <3>1. LastOf(s, 1, l, 1) /\ 1 \in 1..1 /\ 1 \in Nat
          BY <2>1 DEF LastOf
    <3>2. p[l] = s[1].write[l]
          BY <1>1, <3>1, LastStands
    <3>3. q[l] = s[1].write[l]
          BY <1>2, <2>1 DEF After, Overlay, Writes
    <3>4. QED
          BY <3>2, <3>3
  <2>2. CASE ~Writes(s[1], l)
    <3>1. \A j \in 1..1 : ~Writes(s[j], l)
          BY <2>2
    <3>2. p[l] = b[l]
          BY <1>1, <3>1, UnwrittenStands
    <3>3. q[l] = b[l]
          BY <1>2, <2>2 DEF After, Overlay, Writes
    <3>4. QED
          BY <3>2, <3>3
  <2>3. QED
        BY <2>1, <2>2
<1>4. QED
      BY <1>1, <1>2, <1>3

\* A queue without its first call, on what that call leaves.
LEMMA FirstStands ==
    ASSUME NEW S, NEW s \in Seq(S), NEW t \in Seq(S), Shorter(s, t),
           NEW b, b = [l \in Leaf |-> b[l]], NEW i \in 0..Len(t)
    PROVE  Stand(t, i, After(s[1], b)) = Stand(s, i + 1, b)
<1>1. 1 \in Nat /\ i \in Nat /\ \A j \in 1..i : j \in 1..Len(t)
      BY LenProperties
<1>2. PICK n \in Nat : n = 1
      BY <1>1
<1>3. \A j \in 1..i : s[n + j] = t[j]
      BY <1>1, <1>2 DEF Shorter
<1>4. Stand(s, n + i, b) = Stand(t, i, Stand(s, n, b))
      BY <1>1, <1>3, StandOnStand
<1>5. n + i = i + 1
      BY <1>1, <1>2
<1>6. QED
      BY <1>2, <1>4, <1>5, OneStands

\* A queue with one more call.
LEMMA MoreStands ==
    ASSUME NEW S, NEW s \in Seq(S), NEW x \in S, NEW t \in Seq(S), Longer(s, x, t), NEW b
    PROVE  /\ \A i \in 0..Len(s) : Stand(t, i, b) = Stand(s, i, b)
           /\ Stand(t, Len(t), b) = After(x, Stand(s, Len(s), b))
<1>1. PICK n \in Nat : n = Len(s) /\ Len(t) = n + 1 /\ t[n + 1] = x
      BY LenProperties DEF Longer
<1>2. ASSUME NEW i \in 0..n
      PROVE  Stand(t, i, b) = Stand(s, i, b)
  <2>1. i \in Nat /\ \A j \in 1..i : t[j] = s[j]
        BY <1>1 DEF Longer
  <2>2. QED
        BY <2>1, AlikeStand
<1>3. PICK c : c = Stand(s, n, b) /\ c = [l \in Leaf |-> c[l]]
      BY DEF Stand
<1>4. PICK u : u = <<x>>
      OBVIOUS
<1>5. u[1] = x /\ \A j \in 1..1 : t[n + j] = u[j]
      BY <1>1, <1>4
<1>6. Stand(t, n + 1, b) = Stand(u, 1, Stand(t, n, b))
      BY <1>5, StandOnStand
<1>7. Stand(t, n, b) = c
  <2>1. n \in 0..n
        OBVIOUS
  <2>2. QED
        BY <1>2, <1>3, <2>1
<1>8. Stand(u, 1, c) = After(x, c)
      BY <1>3, <1>5, OneStands
<1>9. QED
      BY <1>1, <1>2, <1>3, <1>6, <1>7, <1>8

\* Calls put at the end of a queue.
Joined(s, g, u) ==
    /\ Len(u) = Len(s) + Len(g)
    /\ \A i \in 1..Len(s) : u[i] = s[i]
    /\ \A i \in 1..Len(g) : u[Len(s) + i] = g[i]

LEMMA ConcatIsJoined ==
    ASSUME NEW S, NEW s \in Seq(S), NEW g \in Seq(S)
    PROVE  \E u \in Seq(S) : u = s \o g /\ Joined(s, g, u)
<1>1. PICK u : u = s \o g
      OBVIOUS
<1>2. PICK n \in Nat, m \in Nat : n = Len(s) /\ m = Len(g)
      BY LenProperties
<1>3. /\ u \in Seq(S) /\ Len(u) = n + m
      /\ \A i \in 1..(n + m) : u[i] = IF i <= n THEN s[i] ELSE g[i - n]
      BY <1>1, <1>2, ConcatProperties
<1>4. ASSUME NEW i \in 1..n
      PROVE  u[i] = s[i]
      BY <1>3
<1>5. ASSUME NEW i \in 1..m
      PROVE  u[n + i] = g[i]
  <2>1. n + i \in 1..(n + m) /\ ~(n + i <= n) /\ (n + i) - n = i
        OBVIOUS
  <2>2. QED
        BY <1>3, <2>1
<1>6. QED
      BY <1>1, <1>2, <1>3, <1>4, <1>5 DEF Joined

LEMMA JoinedStand ==
    ASSUME NEW S, NEW s \in Seq(S), NEW g \in Seq(S), NEW u, Joined(s, g, u), NEW b
    PROVE  /\ \A i \in 0..Len(s) : Stand(u, i, b) = Stand(s, i, b)
           /\ \A i \in 0..Len(g) :
                 Stand(u, Len(s) + i, b) = Stand(g, i, Stand(s, Len(s), b))
<1>1. PICK n \in Nat, m \in Nat : n = Len(s) /\ m = Len(g)
      BY LenProperties
<1>2. /\ \A i \in 1..n : u[i] = s[i]
      /\ \A i \in 1..m : u[n + i] = g[i]
      BY <1>1 DEF Joined
<1>3. ASSUME NEW i \in 0..n
      PROVE  Stand(u, i, b) = Stand(s, i, b)
  <2>1. i \in Nat /\ \A j \in 1..i : u[j] = s[j]
        BY <1>2
  <2>2. QED
        BY <2>1, AlikeStand
<1>4. ASSUME NEW i \in 0..m
      PROVE  Stand(u, n + i, b) = Stand(g, i, Stand(s, n, b))
  <2>1. i \in Nat /\ \A j \in 1..i : u[n + j] = g[j]
        BY <1>2
  <2>2. Stand(u, n + i, b) = Stand(g, i, Stand(u, n, b))
        BY <2>1, StandOnStand
  <2>3. Stand(u, n, b) = Stand(s, n, b)
        BY <1>3
  <2>4. QED
        BY <2>2, <2>3
<1>5. QED
      BY <1>1, <1>3, <1>4

-----------------------------------------------------------------------------
(* The client, the server and the connection do not change what the record *)
(* will be.                                                                *)

\* The newest pending write of a leaf has the value that leaf will have.
Agrees(d) ==
    \A i \in DOMAIN pending[d], l \in Leaf :
        Newest(pending[d], i, l) => pending[d][i][l] = Base(d)[l]

Holds(d) == Agrees(d)' /\ Final(d)' = Final(d)

LEMMA BaseIsARow ==
    ASSUME NEW d
    PROVE  /\ Base(d) = [l \in Leaf |-> Base(d)[l]]
           /\ Final(d) = [l \in Leaf |-> Final(d)[l]]
BY DEF Base, Final, Stand

LEMMA RecordIsARow ==
    ASSUME NEW G, NEW B, DatabaseInv(G, B)
    PROVE  record = [l \in Leaf |-> record[l]]
BY DEF DatabaseInv, Patch

\* A queue without its first call.
LEMMA RestStands ==
    ASSUME NEW S, NEW s \in Seq(S), s # <<>>, NEW b, b = [l \in Leaf |-> b[l]]
    PROVE  Stand(Tail(s), Len(Tail(s)), After(Head(s), b)) = Stand(s, Len(s), b)
<1>1. PICK t \in Seq(S) : t = Tail(s) /\ Shorter(s, t) /\ Head(s) = s[1]
      BY TailIsShorter
<1>2. PICK n \in Nat : n = Len(t) /\ n \in 0..Len(t) /\ n + 1 = Len(s)
      BY <1>1, LenProperties DEF Shorter
<1>3. t \in Seq(S) /\ Shorter(s, t) /\ n \in 0..Len(t)
      BY <1>1, <1>2
<1>4. Stand(t, n, After(s[1], b)) = Stand(s, n + 1, b)
      BY <1>3, FirstStands
<1>5. QED
      BY <1>1, <1>2, <1>4

\* A queue with one more call.
LEMMA AppendStands ==
    ASSUME NEW S, NEW s \in Seq(S), NEW x \in S, NEW b
    PROVE  Stand(Append(s, x), Len(Append(s, x)), b) = After(x, Stand(s, Len(s), b))
<1>1. PICK t \in Seq(S) : t = Append(s, x) /\ Longer(s, x, t)
      BY AppendIsLonger
<1>2. t \in Seq(S) /\ Longer(s, x, t)
      BY <1>1
<1>3. Stand(t, Len(t), b) = After(x, Stand(s, Len(s), b))
      BY <1>2, MoreStands
<1>4. QED
      BY <1>1, <1>3

\* Where nothing is sent or served, and where one request is.
LEMMA BaseStays ==
    ASSUME NEW d, record' = record, wire'[d] = wire[d]
    PROVE  Base(d)' = Base(d)
BY DEF Base

LEMMA AgreesStays ==
    ASSUME NEW d, Agrees(d), pending'[d] = pending[d], Base(d)' = Base(d)
    PROVE  Agrees(d)'
BY DEF Agrees

LEMMA ExecuteWriteHolds ==
    ASSUME NEW G, NEW B, DatabaseInv(G, B), NEW d \in Device, Agrees(d), ExecuteWrite(d)
    PROVE  Holds(d)
<1>1. PICK c \in First(todo[d]) :
          /\ c.kind = "put"
          /\ pending' = [pending EXCEPT ![d] = Append(@, c.write)]
          /\ wire' = [wire EXCEPT ![d] = Append(@, c)]
      BY DEF ExecuteWrite
<1>2. c \in Call(G, B[d]) /\ c.write \in Write(G)
      BY <1>1, FirstCall, CallKinds
<1>3. /\ wire[d] \in Seq(Call(G, B[d])) /\ pending[d] \in Seq(Write(G))
      /\ todo[d] \in Seq(Call(G, B[d])) /\ todo[d] # <<>> /\ c = Head(todo[d])
      BY <1>1 DEF DatabaseInv, First
<1>4. /\ wire'[d] = Append(wire[d], c) /\ pending'[d] = Append(pending[d], c.write)
      /\ todo'[d] = Tail(todo[d]) /\ record' = record
      BY <1>1 DEF ExecuteWrite, DatabaseInv
<1>5. Base(d)' = After(c, Base(d))
      BY <1>2, <1>3, <1>4, AppendStands DEF Base
<1>6. Final(d)' = Final(d)
      BY <1>3, <1>4, <1>5, BaseIsARow, RestStands DEF Final
<1>7. PICK q \in Seq(Write(G)) : q = pending'[d] /\ Longer(pending[d], c.write, q)
      BY <1>2, <1>3, <1>4, AppendIsLonger
<1>8. ASSUME NEW i \in DOMAIN q, NEW l \in Leaf, Newest(q, i, l)
      PROVE  q[i][l] = Base(d)'[l]
  <2>1. PICK n \in Nat : /\ n = Len(pending[d]) /\ Len(q) = n + 1 /\ q[n + 1] = c.write
                         /\ \A j \in 1..n : q[j] = pending[d][j]
                         /\ DOMAIN q = 1..(n + 1) /\ DOMAIN pending[d] = 1..n
        BY <1>3, <1>7, LenProperties DEF Longer
  <2>2. Base(d)'[l] = IF l \in DOMAIN c.write THEN c.write[l] ELSE Base(d)[l]
    <3>1. PICK b : b = Base(d) /\ DOMAIN b = Leaf
          BY StandIsARow DEF Base
    <3>2. After(c, b)[l] = IF l \in DOMAIN c.write THEN c.write[l] ELSE b[l]
          BY <1>1, <3>1 DEF After, Overlay
    <3>3. QED
          BY <1>5, <3>1, <3>2
  <2>3. CASE i = n + 1
        BY <1>8, <2>1, <2>2, <2>3 DEF Newest
  <2>4. CASE i \in 1..n
    <3>1. n + 1 > i /\ n + 1 \in DOMAIN q
          BY <2>1, <2>4
    <3>2. l \notin DOMAIN c.write
          BY <1>8, <2>1, <3>1 DEF Newest
    <3>3. Newest(pending[d], i, l)
          BY <1>8, <2>1, <2>4 DEF Newest
    <3>4. QED
          BY <2>1, <2>2, <2>4, <3>2, <3>3 DEF Agrees
  <2>5. QED
        BY <2>1, <2>3, <2>4
<1>9. Agrees(d)'
      BY <1>7, <1>8 DEF Agrees
<1>10. QED
       BY <1>6, <1>9 DEF Holds

\* Any other call is taken off the queue; what it sends is no write.
LEMMA OtherTakenOff ==
    ASSUME NEW G, NEW B, DatabaseInv(G, B), NEW d \in Device, Agrees(d),
           NEW c \in First(todo[d]), c.kind # "put",
           todo' = [todo EXCEPT ![d] = Tail(@)], record' = record, pending' = pending,
           \/ wire' = wire
           \/ \E x \in Call(G, B[d]) :
                 x.kind # "put" /\ wire' = [wire EXCEPT ![d] = Append(@, x)]
    PROVE  Holds(d)
<1>1. /\ todo[d] \in Seq(Call(G, B[d])) /\ todo[d] # <<>> /\ c = Head(todo[d])
      /\ todo'[d] = Tail(todo[d]) /\ wire[d] \in Seq(Call(G, B[d]))
      BY DEF DatabaseInv, First
<1>2. Base(d)' = Base(d)
  <2>1. CASE wire' = wire
        BY <2>1, BaseStays
  <2>2. CASE wire' # wire
    <3>1. PICK x \in Call(G, B[d]) :
              x.kind # "put" /\ wire' = [wire EXCEPT ![d] = Append(@, x)]
          BY <2>2
    <3>2. wire'[d] = Append(wire[d], x)
          BY <3>1 DEF DatabaseInv
    <3>3. Base(d)' = After(x, Base(d))
          BY <1>1, <3>2, AppendStands DEF Base
    <3>4. QED
          BY <3>1, <3>3 DEF After
  <2>3. QED
        BY <2>1, <2>2
<1>3. Final(d)' = Final(d)
  <2>1. Stand(Tail(todo[d]), Len(Tail(todo[d])), After(Head(todo[d]), Base(d)))
            = Stand(todo[d], Len(todo[d]), Base(d))
        BY <1>1, BaseIsARow, RestStands
  <2>2. After(Head(todo[d]), Base(d)) = Base(d)
        BY <1>1 DEF After
  <2>3. QED
        BY <1>1, <1>2, <2>1, <2>2 DEF Final
<1>4. QED
      BY <1>2, <1>3, AgreesStays DEF Holds

LEMMA ReceiveAckHolds ==
    ASSUME NEW G, NEW B, DatabaseInv(G, B), QueueInv, NEW d \in Device, Agrees(d),
           ReceiveAck(d)
    PROVE  Holds(d)
<1>1. UNCHANGED <<record, todo, wire>> /\ pending[d] \in Seq(Write(G))
      BY DEF ReceiveAck, DatabaseInv
<1>2. Base(d)' = Base(d) /\ Final(d)' = Final(d)
      BY <1>1, BaseStays DEF Final
<1>3. Len(pending[d]) > 0 => Agrees(d)'
  <2>1. HAVE Len(pending[d]) > 0
  <2>2. PICK q \in Seq(Write(G)) : /\ q = SubSeq(pending[d], 2, Len(pending[d]))
                                   /\ Shorter(pending[d], q)
        BY <1>1, <2>1, RestIsShorter
  <2>3. pending'[d] = q
        BY <2>2 DEF ReceiveAck, DatabaseInv
  <2>4. ASSUME NEW i \in DOMAIN q, NEW l \in Leaf, Newest(q, i, l)
        PROVE  q[i][l] = Base(d)[l]
    <3>1. PICK n \in Nat : /\ n = Len(q) /\ Len(pending[d]) = n + 1
                           /\ \A j \in 1..n : q[j] = pending[d][j + 1]
                           /\ DOMAIN q = 1..n /\ DOMAIN pending[d] = 1..(n + 1)
      <4>1. Len(q) \in Nat /\ Len(pending[d]) \in Nat /\ DOMAIN q = 1..Len(q)
            /\ DOMAIN pending[d] = 1..Len(pending[d])
            BY <1>1, LenProperties
      <4>2. Len(pending[d]) = Len(q) + 1
            BY <2>2, <4>1 DEF Shorter
      <4>3. \A j \in 1..Len(q) : q[j] = pending[d][j + 1]
            BY <2>2 DEF Shorter
      <4>4. QED
            BY <4>1, <4>2, <4>3
    <3>2. i + 1 \in DOMAIN pending[d] /\ i \in 1..n
          BY <3>1
    <3>3. ASSUME NEW j \in DOMAIN pending[d], j > i + 1
          PROVE  l \notin DOMAIN pending[d][j]
      <4>1. j - 1 \in 1..n /\ j - 1 > i /\ (j - 1) + 1 = j
            BY <3>1, <3>2, <3>3
      <4>2. QED
            BY <2>4, <3>1, <4>1 DEF Newest
    <3>4. Newest(pending[d], i + 1, l)
          BY <2>4, <3>1, <3>2, <3>3 DEF Newest
    <3>5. QED
          BY <3>1, <3>2, <3>4 DEF Agrees
  <2>5. QED
        BY <1>2, <2>3, <2>4 DEF Agrees
<1>4. Len(pending[d]) > 0
  <2>1. PICK M : M = Message(G, B[d])
        OBVIOUS
  <2>2. PICK m \in First(inbox[d]) : m.kind = "ack"
        BY DEF ReceiveAck
  <2>3. inbox[d] \in Seq(M) /\ inbox[d] # <<>> /\ m = Head(inbox[d]) /\ up[d]
        BY <2>1, <2>2, OnlyWhenUp DEF DatabaseInv, First
  <2>4. PICK t \in Seq(M) : t = Tail(inbox[d]) /\ Shorter(inbox[d], t)
        BY <2>3, TailIsShorter
  <2>5. One(inbox[d], "ack") = 1
        BY <2>2, <2>3, TailIsShorter DEF One
  <2>6. Acks(t) = Acks(inbox[d]) - 1 /\ Acks(t) \in Nat /\ Acks(inbox[d]) \in Nat
        BY <2>3, <2>4, <2>5, FewerAcks, CallsAreCounted DEF Acks
  <2>7. Cardinality(Calls(wire[d], "put")) = Len(pending[d]) - Acks(inbox[d])
        BY <2>3 DEF QueueInv, QueueOf, UnderWay
  <2>8. Cardinality(Calls(wire[d], "put")) \in Nat
    <3>1. wire[d] \in Seq(Call(G, B[d]))
          BY DEF DatabaseInv
    <3>2. QED
          BY <3>1, CallsAreCounted
  <2>9. Len(pending[d]) \in Nat
        BY <1>1, LenProperties
  <2>10. QED
        BY <2>6, <2>7, <2>8, <2>9
<1>5. QED
      BY <1>2, <1>3, <1>4 DEF Holds

LEMMA ClientHolds ==
    ASSUME NEW G, NEW B, DatabaseInv(G, B), QueueInv, NEW d \in Device, Agrees(d),
           ClientStep(d)
    PROVE  Holds(d)
<1>1. CASE ExecuteWrite(d)
      BY <1>1, ExecuteWriteHolds
<1>2. CASE ExecuteGet(d)
  <2>1. PICK c \in First(todo[d]) :
            c.kind = "get" /\ wire' = [wire EXCEPT ![d] = Append(@, c)]
        BY <1>2 DEF ExecuteGet
  <2>2. c \in Call(G, B[d]) /\ c.kind # "put"
        BY <2>1, FirstCall
  <2>3. QED
        BY <1>2, <2>1, <2>2, OtherTakenOff DEF ExecuteGet
<1>3. CASE HoldGet(d)
  <2>1. PICK c \in First(todo[d]) : c.kind = "get"
        BY <1>3 DEF HoldGet
  <2>2. c.kind # "put"
        BY <2>1
  <2>3. QED
        BY <1>3, <2>2, OtherTakenOff DEF HoldGet
<1>4. CASE ExecuteListen(d)
  <2>1. PICK c \in First(todo[d]) : c.kind = "listen"
        BY <1>4 DEF ExecuteListen
  <2>2. c.kind # "put" /\ Observe \in Call(G, B[d]) /\ Observe.kind # "put"
        BY <2>1, ObserveIsCall DEF Observe
  <2>3. QED
        BY <1>4, <2>2, OtherTakenOff DEF ExecuteListen
<1>5. CASE TimeOut(d)
      BY <1>5, BaseStays, AgreesStays DEF TimeOut, Holds, Final
<1>6. CASE ReceiveAck(d)
      BY <1>6, ReceiveAckHolds
<1>7. QED
      BY <1>1, <1>2, <1>3, <1>4, <1>5, <1>6 DEF ClientStep

LEMMA ServerHolds ==
    ASSUME NEW G, NEW B, DatabaseInv(G, B), NEW d \in Device, Agrees(d), ServerStep(d)
    PROVE  Holds(d)
<1>1. /\ wire[d] \in Seq(Call(G, B[d])) /\ wire[d] # <<>>
      /\ wire'[d] = Tail(wire[d]) /\ pending' = pending /\ todo' = todo
      BY DEF ServerStep, ServeWrite, ServeGet, ServeListen, Reachable, DatabaseInv
<1>2. record' = After(Head(wire[d]), record)
      BY DEF ServerStep, ServeWrite, ServeGet, ServeListen, After
<1>3. Base(d)' = Base(d)
      BY <1>1, <1>2, RecordIsARow, RestStands DEF Base
<1>4. QED
      BY <1>1, <1>3, AgreesStays DEF Holds, Final

\* What is lost with a connection is sent again, and nothing else was to be written.
LEMMA DisconnectHolds ==
    ASSUME NEW G, NEW B, DatabaseInv(G, B), QueueInv, NEW d \in Device, Agrees(d),
           Disconnect(d)
    PROVE  Holds(d)
<1>1. PICK w : w = Resends(d) /\ wire'[d] = w
      BY DEF Disconnect, DatabaseInv
<1>2. PICK n \in Nat : n = Len(pending[d]) /\ DOMAIN pending[d] = 1..n
      BY LenProperties DEF DatabaseInv
<1>3. Len(w) = n /\ \A i \in 1..n : w[i] = SetValue(pending[d][i])
      BY <1>1, <1>2 DEF Resends
<1>4. \A i \in 1..n : \A l : Writes(w[i], l) <=> l \in DOMAIN pending[d][i]
      BY <1>3 DEF Writes, SetValue
<1>5. PICK m \in Nat : m = Len(wire[d]) /\ DOMAIN wire[d] = 1..m
      BY LenProperties DEF DatabaseInv
<1>6. ASSUME NEW l \in Leaf
      PROVE  Stand(w, n, record)[l] = Base(d)[l]
  <2>1. CASE \E i \in 1..n : Writes(w[i], l)
    <3>1. PICK i \in 1..n : LastOf(w, n, l, i)
          BY <2>1, ThereIsALast
    <3>2. Newest(pending[d], i, l)
      <4>1. l \in DOMAIN pending[d][i]
            BY <1>4, <3>1 DEF LastOf
      <4>2. ASSUME NEW j \in 1..n, j > i
            PROVE  l \notin DOMAIN pending[d][j]
        <5>1. j \in (i + 1)..n
              BY <4>2
        <5>2. QED
              BY <1>4, <3>1, <5>1 DEF LastOf
      <4>3. QED
            BY <1>2, <4>1, <4>2 DEF Newest
    <3>3. pending[d][i][l] = Base(d)[l]
          BY <1>2, <3>2 DEF Agrees
    <3>4. QED
          BY <1>3, <3>1, <3>3, LastStands DEF SetValue
  <2>2. CASE \A i \in 1..n : ~Writes(w[i], l)
    <3>1. ASSUME NEW j \in 1..m, Writes(wire[d][j], l)
          PROVE  FALSE
      <4>1. j \in Calls(wire[d], "put")
            BY <1>5, <3>1 DEF Calls, Writes
      <4>2. PICK a : a = Acks(inbox[d])
            OBVIOUS
      <4>3. PICK u : u = Cardinality(Upto(wire[d], "put", j))
            OBVIOUS
      <4>4. PICK p : p = Cardinality(Calls(wire[d], "put"))
            OBVIOUS
      <4>5. /\ p = n - a
            /\ wire[d][j].write = pending[d][a + u]
        <5>1. up[d]
              BY DEF Disconnect
        <5>2. UnderWay(wire[d], pending[d], a)
              BY <4>2, <5>1 DEF QueueInv, QueueOf
        <5>3. QED
              BY <1>2, <4>1, <4>3, <4>4, <5>2 DEF UnderWay
      <4>6. u \in 1..p /\ p \in Nat
        <5>1. wire[d] \in Seq(Call(G, B[d]))
              BY DEF DatabaseInv
        <5>2. QED
              BY <4>1, <4>3, <4>4, <5>1, CallsAreCounted
      <4>7. a \in Nat
            BY <4>2, AcksAreNat
      <4>8. a + u \in 1..n
            BY <4>5, <4>6, <4>7
      <4>9. QED
            BY <1>4, <2>2, <3>1, <4>5, <4>8 DEF Writes
    <3>2. Base(d)[l] = record[l]
          BY <1>5, <3>1, UnwrittenStands DEF Base
    <3>3. QED
          BY <2>2, <3>2, UnwrittenStands
  <2>3. QED
        BY <2>1, <2>2
<1>7. Stand(w, n, record) = Base(d)
      BY <1>6, SameRow DEF Base
<1>8. Base(d)' = Base(d)
      BY <1>1, <1>3, <1>7 DEF Base, Disconnect
<1>9. QED
      BY <1>8, AgreesStays DEF Holds, Final, Disconnect

\* Two queues, one after the other; a queue without writes.
LEMMA ConcatStands ==
    ASSUME NEW S, NEW s \in Seq(S), NEW g \in Seq(S), NEW b
    PROVE  Stand(s \o g, Len(s \o g), b) = Stand(g, Len(g), Stand(s, Len(s), b))
<1>1. PICK u \in Seq(S) : u = s \o g /\ Joined(s, g, u)
      BY ConcatIsJoined
<1>2. Joined(s, g, u) /\ Len(u) = Len(s) + Len(g)
      BY <1>1 DEF Joined
<1>3. \A i \in 0..Len(g) : Stand(u, Len(s) + i, b) = Stand(g, i, Stand(s, Len(s), b))
      BY <1>2, JoinedStand
<1>4. Len(g) \in 0..Len(g)
      BY LenProperties
<1>5. QED
      BY <1>1, <1>2, <1>3, <1>4

\* No call or message of a kind in a queue.
None(s, kind) == \A i \in DOMAIN s : s[i].kind # kind

LEMMA NoPutsStand ==
    ASSUME NEW S, NEW s \in Seq(S), None(s, "put"), NEW b, b = [l \in Leaf |-> b[l]]
    PROVE  Stand(s, Len(s), b) = b
<1>1. PICK p : p = Stand(s, Len(s), b) /\ p = [l \in Leaf |-> p[l]]
      BY DEF Stand
<1>2. Len(s) \in Nat /\ DOMAIN s = 1..Len(s)
      BY LenProperties
<1>3. ASSUME NEW l \in Leaf
      PROVE  p[l] = b[l]
  <2>1. \A j \in 1..Len(s) : ~Writes(s[j], l)
        BY <1>2 DEF None, Writes
  <2>2. Stand(s, Len(s), b)[l] = b[l]
        BY <1>2, <2>1, UnwrittenStands
  <2>3. QED
        BY <1>1, <2>2
<1>4. QED
      BY <1>1, <1>3

\* Only the writes among the calls before and after a queue would matter.
LEMMA AroundStands ==
    ASSUME NEW S, NEW f \in Seq(S), NEW s \in Seq(S), NEW g \in Seq(S),
           None(f, "put"), None(g, "put"), NEW b, b = [l \in Leaf |-> b[l]]
    PROVE  Stand((f \o s) \o g, Len((f \o s) \o g), b) = Stand(s, Len(s), b)
<1>1. f \o s \in Seq(S)
      BY ConcatProperties
<1>2. PICK w : w = f \o s
      OBVIOUS
<1>3. w \in Seq(S)
      BY <1>1, <1>2
<1>4. Stand(w \o g, Len(w \o g), b) = Stand(g, Len(g), Stand(w, Len(w), b))
      BY <1>3, ConcatStands
<1>5. Stand(f \o s, Len(f \o s), b) = Stand(s, Len(s), Stand(f, Len(f), b))
      BY ConcatStands
<1>6. Stand(f, Len(f), b) = b
      BY NoPutsStand
<1>7. PICK c : c = Stand(s, Len(s), b) /\ c = [l \in Leaf |-> c[l]]
      BY DEF Stand
<1>8. Stand(g, Len(g), c) = c
      BY <1>7, NoPutsStand
<1>9. QED
      BY <1>2, <1>4, <1>5, <1>6, <1>7, <1>8

LEMMA ReconnectHolds ==
    ASSUME NEW G, NEW B, DatabaseInv(G, B), QueueInv, NEW d \in Device, Agrees(d),
           Reconnect(d)
    PROVE  Holds(d)
<1>1. PICK C : C = Call(G, B[d])
      OBVIOUS
<1>2. wire[d] \in Seq(C) /\ held[d] \in Seq(C) /\ Observe \in C
      BY <1>1, ObserveIsCall DEF DatabaseInv
<1>3. PICK f : f = IF listens[d] THEN <<Observe>> ELSE <<>>
      OBVIOUS
<1>4. f \in Seq(C) /\ None(f, "put")
      BY <1>2, <1>3 DEF None, Observe
<1>5. wire'[d] = (f \o wire[d]) \o held[d]
      BY <1>3 DEF Reconnect, DatabaseInv
<1>6. None(held[d], "put")
      BY DEF None, QueueInv, QueueOf
<1>7. PICK s, g : s = wire[d] /\ g = held[d]
      OBVIOUS
<1>8. s \in Seq(C) /\ g \in Seq(C) /\ None(g, "put")
      BY <1>2, <1>6, <1>7
<1>9. Stand((f \o s) \o g, Len((f \o s) \o g), record) = Stand(s, Len(s), record)
      BY <1>4, <1>8, RecordIsARow, AroundStands
<1>10. Base(d)' = Base(d)
       BY <1>5, <1>7, <1>9 DEF Base, Reconnect
<1>11. QED
       BY <1>10, AgreesStays DEF Holds, Final, Reconnect

\* The process takes its pending writes with it.
LEMMA AppEndsAgrees ==
    ASSUME NEW G, NEW B, DatabaseInv(G, B), NEW d \in Device, AppEnds(d)
    PROVE  Agrees(d)'
BY DEF AppEnds, ProcessEnds, DatabaseInv, Agrees

LEMMA LaunchAgrees ==
    ASSUME NEW d \in Device, Agrees(d), Launch(d)
    PROVE  Agrees(d)'
BY BaseStays, AgreesStays DEF Launch, ProcessStarts

-----------------------------------------------------------------------------
(* What a step is to the queues and to the process.                        *)

\* A step of the app's own code, other than a sign-in's.
AppStep(d) ==
    \/ StoreStep(d) \/ RewardStep(d) \/ RedeemStep(d)
    \/ LandStep(d) \/ AccountStep(d) \/ SessionAnswer(d)

Aside == UNCHANGED <<record, pending, wire, up, faults>>

LEMMA AppIsAside ==
    ASSUME NEW d, AppStep(d)
    PROVE  Aside \/ Crash(d)
<1>1. ASSUME NEW calls, Dispatch(d, calls)
      PROVE  Aside
      BY <1>1 DEF Dispatch, linkVars, Aside
<1>2. ASSUME NEW a, NEW calls, Return(d, a, calls)
      PROVE  Aside
      BY <1>2 DEF Return, linkVars, Aside
<1>3. ASSUME UNCHANGED dbVars
      PROVE  Aside
      BY <1>3 DEF dbVars, clientVars, linkVars, Aside
<1>4. CASE StoreStep(d)
      BY <1>1, <1>2, <1>3, <1>4 DEF StoreStep, BuyOnClick, CellForRow, GotBuyLeaves, Deliver,
         Refuse, CrashOnNilLeaves
<1>5. CASE RewardStep(d)
      BY <1>1, <1>2, <1>5 DEF RewardStep, ClaimOnClick, GotClaimDate, GotRewardCurrent,
         GotRewardAllTime
<1>6. CASE RedeemStep(d)
      BY <1>1, <1>2, <1>6 DEF RedeemStep, RedeemButtonPressed, GotUser, CrashOnPartialUser
<1>7. CASE LandStep(d)
      BY <1>1, <1>2, <1>3, <1>7 DEF LandStep, OnPlaceItem, OnBackButtonPressed,
         OnPlacementCompleted, OnRemove, GotPlaceActive, GotPlaceInventory, GotRemoveActive,
         GotRemoveInventory, CrashOnLand
<1>8. CASE SessionAnswer(d)
      BY <1>1, <1>2, <1>8 DEF SessionAnswer, GotDisplayName, GotInventory,
         GotActiveItems, CrashOnActiveItems, LeaderboardChanged, CrashOnPartialRow,
         ReceiveEvent, linkVars, Aside
<1>9. CASE AccountStep(d)
  <2>1. ASSUME NEW write, NEW calls, Save(d, write, calls)
        PROVE  Aside
        BY <1>1, <2>1 DEF Save
  <2>2. ASSUME NEW calls, Issue(d, calls)
        PROVE  Aside
        BY <1>1, <2>2 DEF Issue
  <2>3. CASE FirstSignIn(d) \/ SignInAgain(d)
        BY <1>1, <2>3 DEF FirstSignIn, SignInAgain, SignIn
  <2>4. CASE \E c \in Choice : ChooseAvatar(d, c) \/ ChangeAvatar(d, c) \/ UpdateButtonPressed(d, c)
        BY <1>1, <2>1, <2>4 DEF ChooseAvatar, ChangeAvatar, UpdateButtonPressed
  <2>5. CASE \E joins \in BOOLEAN : LeaderSettingsSwitched(d, joins)
        BY <2>1, <2>5 DEF LeaderSettingsSwitched
  <2>6. CASE OpenDashboard(d) \/ OpenSettings(d) \/ AppNotifySwitched(d)
        BY <2>2, <2>6 DEF OpenDashboard, OpenSettings, AppNotifySwitched
  <2>7. CASE GotDashboard(d) \/ GotSettings(d)
        BY <1>2, <2>7 DEF GotDashboard, GotSettings
  <2>8. CASE PermissionKnown(d)
        BY <1>1, <1>3, <2>8 DEF PermissionKnown
  <2>9. CASE SignOutButtonPressed(d) \/ DeleteButtonPressed(d) \/ LoginViewDidLoad(d)
        BY <1>1, <1>3, <2>9 DEF SignOutButtonPressed, DeleteButtonPressed, LoginViewDidLoad
  <2>10. CASE CrashOnScreen(d) \/ CrashOnPermission(d)
         BY <2>10 DEF CrashOnScreen, CrashOnPermission
  <2>11. QED
         BY <1>9, <2>3, <2>4, <2>5, <2>6, <2>7, <2>8, <2>9, <2>10 DEF AccountStep, ScreenStep
<1>10. QED
       BY <1>4, <1>5, <1>6, <1>7, <1>8, <1>9 DEF AppStep

\* Faults, and what they leave.
FaultsType == faults \in [drops : Nat, kills : Nat, crashed : BOOLEAN]

Lives == FaultsType /\ (~ProcessHasEnded => \A d \in Device : up[d])

LEMMA CrashEnds ==
    ASSUME FaultsType, NEW d, Crash(d)
    PROVE  FaultsType' /\ ProcessHasEnded' /\ faults'.drops = faults.drops
<1>1. faults' = [drops |-> faults.drops, kills |-> faults.kills, crashed |-> TRUE]
      BY DEF Crash, FaultsType
<1>2. faults.drops \in Nat /\ faults.kills \in Nat
      BY DEF FaultsType
<1>3. QED
      BY <1>1, <1>2 DEF FaultsType, ProcessHasEnded

LEMMA KillEnds ==
    ASSUME FaultsType, NEW d, Kill(d)
    PROVE  FaultsType' /\ ProcessHasEnded' /\ faults'.drops = faults.drops
<1>1. faults' = [drops |-> faults.drops, kills |-> faults.kills + 1, crashed |-> faults.crashed]
      BY DEF Kill, FaultsType
<1>2. faults.drops \in Nat /\ faults.kills \in Nat /\ faults.crashed \in BOOLEAN
      BY DEF FaultsType
<1>3. QED
      BY <1>1, <1>2 DEF FaultsType, ProcessHasEnded

LEMMA DisconnectCounts ==
    ASSUME FaultsType, NEW d, Disconnect(d)
    PROVE  /\ FaultsType' /\ (ProcessHasEnded' <=> ProcessHasEnded)
           /\ faults'.drops = faults.drops + 1
<1>1. faults' = [drops |-> faults.drops + 1, kills |-> faults.kills, crashed |-> faults.crashed]
      BY DEF Disconnect, FaultsType
<1>2. faults.drops \in Nat /\ faults.kills \in Nat /\ faults.crashed \in BOOLEAN
      BY DEF FaultsType
<1>3. QED
      BY <1>1, <1>2 DEF FaultsType, ProcessHasEnded

\* The client, the server and a connection that comes back leave both alone.
LEMMA OthersSpare ==
    ASSUME NEW d, ClientStep(d) \/ ServerStep(d) \/ Reconnect(d)
    PROVE  UNCHANGED <<up, faults>>
BY DEF ClientStep, ExecuteWrite, ExecuteGet, HoldGet, ExecuteListen, TimeOut, ReceiveAck,
   ServerStep, ServeWrite, ServeGet, ServeListen, Reconnect, linkVars

LEMMA SparedLives ==
    ASSUME Lives, UNCHANGED <<up, faults>>
    PROVE  Lives' /\ (ProcessHasEnded' <=> ProcessHasEnded) /\ faults'.drops = faults.drops
BY DEF Lives, FaultsType, ProcessHasEnded

LEMMA LivesOn ==
    ASSUME Lives, QueueInv, NEW d \in Device, AppStep(d) \/ EnvironmentStep(d)
    PROVE  Lives' /\ (ProcessHasEnded => ProcessHasEnded') /\ faults'.drops >= faults.drops
<1>1. faults.drops \in Nat /\ FaultsType
      BY DEF Lives, FaultsType
<1>2. CASE UNCHANGED <<up, faults>>
      BY <1>1, <1>2, SparedLives
<1>3. CASE Crash(d) \/ Kill(d)
      BY <1>1, <1>3, CrashEnds, KillEnds DEF Lives
<1>4. CASE Disconnect(d)
  <2>1. up' = up
        BY <1>4 DEF Disconnect
  <2>2. QED
        BY <1>1, <1>4, <2>1, DisconnectCounts DEF Lives
<1>5. CASE Launch(d)
  <2>1. faults' = faults /\ ~up[d]
        BY <1>5 DEF Launch, ProcessStarts
  <2>2. ProcessHasEnded /\ ProcessHasEnded'
        BY <2>1 DEF Lives, ProcessHasEnded
  <2>3. QED
        BY <1>1, <2>1, <2>2 DEF Lives, FaultsType
<1>6. QED
      BY <1>2, <1>3, <1>4, <1>5, AppIsAside, OthersSpare DEF EnvironmentStep, Aside


-----------------------------------------------------------------------------
(* What is asked for.                                                      *)

Elems(s) == {s[i] : i \in DOMAIN s}

LEMMA FirstAndRest ==
    ASSUME NEW S, NEW s \in Seq(S), s # <<>>
    PROVE  Head(s) \in Elems(s) /\ Elems(Tail(s)) \subseteq Elems(s)
<1>1. PICK t \in Seq(S) : t = Tail(s) /\ Shorter(s, t) /\ Head(s) = s[1]
      BY TailIsShorter
<1>2. /\ Len(s) \in Nat /\ DOMAIN s = 1..Len(s)
      /\ Len(t) \in Nat /\ DOMAIN t = 1..Len(t)
      BY LenProperties
<1>3. Len(s) > 0 /\ \A i \in DOMAIN t : i + 1 \in DOMAIN s /\ t[i] = s[i + 1]
      BY <1>1, <1>2 DEF Shorter
<1>4. 1 \in DOMAIN s
      BY <1>2, <1>3
<1>5. Elems(t) \subseteq Elems(s) /\ s[1] \in Elems(s)
      BY <1>3, <1>4 DEF Elems
<1>6. QED
      BY <1>1, <1>5

LEMMA ElemsOfAppend ==
    ASSUME NEW S, NEW s \in Seq(S), NEW x \in S
    PROVE  Elems(Append(s, x)) = Elems(s) \cup {x}
<1>1. PICK t \in Seq(S) : t = Append(s, x) /\ Longer(s, x, t)
      BY AppendIsLonger
<1>2. PICK n \in Nat : n = Len(s) /\ DOMAIN s = 1..n /\ DOMAIN t = 1..(n + 1)
      BY <1>1, LenProperties DEF Longer
<1>3. t[n + 1] = x /\ \A i \in 1..n : t[i] = s[i]
      BY <1>1, <1>2 DEF Longer
<1>4. \A i : i \in 1..(n + 1) <=> i \in 1..n \/ i = n + 1
      BY <1>2
<1>5. Elems(t) = Elems(s) \cup {x}
      BY <1>2, <1>3, <1>4 DEF Elems
<1>6. QED
      BY <1>1, <1>5

LEMMA ElemsOfConcat ==
    ASSUME NEW S, NEW s \in Seq(S), NEW T, NEW g \in Seq(T)
    PROVE  Elems(s \o g) = Elems(s) \cup Elems(g)
<1>1. PICK U : U = S \cup T
      OBVIOUS
<1>2. s \in Seq(U) /\ g \in Seq(U)
      BY <1>1, SeqWidens
<1>3. PICK u \in Seq(U) : u = s \o g /\ Joined(s, g, u)
      BY <1>2, ConcatIsJoined
<1>4. PICK n \in Nat, m \in Nat : n = Len(s) /\ m = Len(g) /\ DOMAIN s = 1..n /\ DOMAIN g = 1..m
      BY LenProperties
<1>5. DOMAIN u = 1..(n + m)
      BY <1>3, <1>4, LenProperties DEF Joined
<1>6. /\ \A i \in 1..n : i \in 1..(n + m) /\ u[i] = s[i]
      /\ \A i \in 1..m : n + i \in 1..(n + m) /\ u[n + i] = g[i]
      BY <1>3, <1>4 DEF Joined
<1>7. ASSUME NEW i \in 1..(n + m)
      PROVE  i \in 1..n \/ \E j \in 1..m : i = n + j
  <2>1. CASE i <= n
        BY <2>1
  <2>2. CASE ~(i <= n)
    <3>1. i - n \in 1..m /\ i = n + (i - n)
          BY <2>2
    <3>2. QED
          BY <3>1
  <2>3. QED
        BY <2>1, <2>2
<1>8. Elems(u) = Elems(s) \cup Elems(g)
  <2>1. ASSUME NEW i \in DOMAIN u
        PROVE  u[i] \in Elems(s) \cup Elems(g)
    <3>1. CASE i \in 1..n
          BY <1>4, <1>6, <3>1 DEF Elems
    <3>2. CASE i \notin 1..n
      <4>1. PICK j \in 1..m : i = n + j
            BY <1>5, <1>7, <3>2
      <4>2. u[i] = g[j] /\ j \in DOMAIN g
            BY <1>4, <1>6, <4>1
      <4>3. QED
            BY <4>2 DEF Elems
    <3>3. QED
          BY <3>1, <3>2
  <2>2. /\ \A i \in DOMAIN s : s[i] \in Elems(u)
        /\ \A i \in DOMAIN g : g[i] \in Elems(u)
        BY <1>4, <1>5, <1>6 DEF Elems
  <2>3. Elems(u) \subseteq Elems(s) \cup Elems(g)
        BY <2>1 DEF Elems
  <2>4. Elems(s) \subseteq Elems(u) /\ Elems(g) \subseteq Elems(u)
        BY <2>2 DEF Elems
  <2>5. QED
        BY <2>3, <2>4
<1>9. QED
      BY <1>3, <1>8

\* Everything that is under way on device d, the questions among it, and one that
\* a step keeps or passes on.
Underway(d) == Elems(todo[d]) \cup Elems(wire[d]) \cup Elems(held[d]) \cup Elems(inbox[d])

IsAsk(x) == x.kind \in {"get", "reply"}
Passed(x, S) == \/ ~IsAsk(x)
               \/ \E y \in S : IsAsk(y) /\ y.then = x.then

AsksNothing(d) == \A x \in Underway(d)' : Passed(x, Underway(d))

LEMMA ClientAsksNothing ==
    ASSUME NEW G, NEW B, DatabaseInv(G, B), NEW d \in Device, ClientStep(d)
    PROVE  AsksNothing(d)
<1>1. PICK C, M : C = Call(G, B[d]) /\ M = Message(G, B[d])
      OBVIOUS
<1>2. /\ todo[d] \in Seq(C) /\ wire[d] \in Seq(C) /\ held[d] \in Seq(C) /\ inbox[d] \in Seq(M)
      BY <1>1 DEF DatabaseInv
<1>3. ASSUME NEW c \in First(todo[d])
      PROVE  c \in C /\ c \in Elems(todo[d]) /\ Elems(Tail(todo[d])) \subseteq Elems(todo[d])
  <2>1. todo[d] # <<>> /\ c = Head(todo[d])
        BY <1>3 DEF First
  <2>2. QED
        BY <1>1, <1>2, <1>3, <2>1, FirstCall, FirstAndRest
<1>4. ASSUME NEW c \in First(todo[d]), todo'[d] = Tail(todo[d]), inbox'[d] = inbox[d],
             wire'[d] \in {wire[d], Append(wire[d], c), Append(wire[d], Observe)},
             held'[d] \in {held[d], Append(held[d], c)}
      PROVE  AsksNothing(d)
  <2>1. /\ Elems(Append(wire[d], c)) = Elems(wire[d]) \cup {c}
        /\ Elems(Append(held[d], c)) = Elems(held[d]) \cup {c}
        BY <1>2, <1>3, ElemsOfAppend
  <2>2. Elems(Append(wire[d], Observe)) = Elems(wire[d]) \cup {Observe}
        BY <1>1, <1>2, ObserveIsCall, ElemsOfAppend
  <2>3. ~IsAsk(Observe)
        BY DEF IsAsk, Observe
  <2>4. \A x \in Underway(d)' : x \in Underway(d) \/ x = Observe
        BY <1>3, <1>4, <2>1, <2>2 DEF Underway
  <2>5. QED
        BY <2>3, <2>4 DEF AsksNothing, Passed
<1>5. CASE ExecuteWrite(d)
      BY <1>4, <1>5 DEF ExecuteWrite, DatabaseInv
<1>6. CASE ExecuteGet(d)
      BY <1>4, <1>6 DEF ExecuteGet, DatabaseInv
<1>7. CASE HoldGet(d)
      BY <1>4, <1>7 DEF HoldGet, DatabaseInv
<1>8. CASE ExecuteListen(d)
      BY <1>4, <1>8 DEF ExecuteListen, DatabaseInv
<1>9. CASE TimeOut(d)
  <2>1. held[d] # <<>> /\ held'[d] = Tail(held[d]) /\ UNCHANGED <<todo, wire, inbox>>
        BY <1>9 DEF TimeOut, DatabaseInv
  <2>2. Elems(held'[d]) \subseteq Elems(held[d])
        BY <1>2, <2>1, FirstAndRest
  <2>3. QED
        BY <2>1, <2>2 DEF AsksNothing, Passed, Underway
<1>10. CASE ReceiveAck(d)
  <2>1. inbox[d] # <<>> /\ inbox'[d] = Tail(inbox[d]) /\ UNCHANGED <<todo, wire, held>>
        BY <1>10 DEF ReceiveAck, First, DatabaseInv
  <2>2. Elems(inbox'[d]) \subseteq Elems(inbox[d])
        BY <1>2, <2>1, FirstAndRest
  <2>3. QED
        BY <2>1, <2>2 DEF AsksNothing, Passed, Underway
<1>11. QED
       BY <1>5, <1>6, <1>7, <1>8, <1>9, <1>10 DEF ClientStep

LEMMA EventAsksNothing ==
    ASSUME NEW G, NEW B, DatabaseInv(G, B), NEW d \in Device, ReceiveEvent(d)
    PROVE  AsksNothing(d)
<1>1. inbox[d] # <<>> /\ inbox'[d] = Tail(inbox[d]) /\ UNCHANGED <<todo, wire, held>>
      BY DEF ReceiveEvent, First, DatabaseInv
<1>2. inbox[d] \in Seq(Message(G, B[d]))
      BY DEF DatabaseInv
<1>3. Elems(inbox'[d]) \subseteq Elems(inbox[d])
      BY <1>1, <1>2, FirstAndRest
<1>4. QED
      BY <1>1, <1>3 DEF AsksNothing, Passed, Underway

LEMMA NoticesAskNothing ==
    ASSUME NEW e, NEW d, NEW w
    PROVE  Elems(Notices(e, d, w)) \subseteq {Event(w), Ack} /\ \E S : Notices(e, d, w) \in Seq(S)
<1>1. PICK S : S = {Event(w), Ack}
      OBVIOUS
<1>2. PICK f : f = IF watching[e] THEN <<Event(w)>> ELSE <<>>
      OBVIOUS
<1>3. PICK g : g = IF e = d /\ up[d] THEN <<Ack>> ELSE <<>>
      OBVIOUS
<1>4. f \in Seq(S) /\ g \in Seq(S)
  <2>1. Event(w) \in S /\ Ack \in S
        BY <1>1
  <2>2. <<Event(w)>> \in Seq(S) /\ <<Ack>> \in Seq(S) /\ <<>> \in Seq(S)
        BY <2>1
  <2>3. QED
        BY <1>2, <1>3, <2>2
<1>5. Notices(e, d, w) = f \o g
      BY <1>2, <1>3 DEF Notices
<1>6. f \o g \in Seq(S)
      BY <1>4, ConcatProperties
<1>7. \A s \in Seq(S) : Elems(s) \subseteq S
  <2>1. TAKE s \in Seq(S)
  <2>2. DOMAIN s = 1..Len(s) /\ \A i \in 1..Len(s) : s[i] \in S
        BY LenProperties, ElementOfSeq
  <2>3. QED
        BY <2>2 DEF Elems
<1>8. QED
      BY <1>1, <1>5, <1>6, <1>7

LEMMA ServerAsksNothing ==
    ASSUME NEW G, NEW B, Asks(B), DatabaseInv(G, B), NEW d \in Device, ServerStep(d)
    PROVE  AsksNothing(d)
<1>1. PICK M, h : M = Message(G, B[d]) /\ h = Head(wire[d])
      OBVIOUS
<1>2. /\ wire[d] \in Seq(Call(G, B[d])) /\ wire[d] # <<>> /\ inbox[d] \in Seq(M)
      /\ wire'[d] = Tail(wire[d]) /\ held' = held /\ todo' = todo
      BY <1>1 DEF ServerStep, ServeWrite, ServeGet, ServeListen, Reachable, DatabaseInv
<1>3. Elems(wire'[d]) \subseteq Elems(wire[d]) /\ h \in Elems(wire[d])
      BY <1>1, <1>2, FirstAndRest
<1>4. SUFFICES \A x \in Elems(inbox'[d]) : Passed(x, Underway(d))
      BY <1>2, <1>3 DEF AsksNothing, Underway, Passed
<1>5. \A x \in Elems(inbox[d]) : Passed(x, Underway(d))
      BY DEF Underway, Passed
<1>6. CASE ServeWrite(d)
  <2>1. PICK w : inbox'[d] = inbox[d] \o Notices(d, d, w)
        BY <1>6 DEF ServeWrite, DatabaseInv
  <2>2. Elems(inbox'[d]) = Elems(inbox[d]) \cup Elems(Notices(d, d, w))
        BY <1>2, <2>1, NoticesAskNothing, ElemsOfConcat
  <2>3. ~IsAsk(Event(w)) /\ ~IsAsk(Ack)
        BY DEF IsAsk, Event, Ack
  <2>4. QED
        BY <1>5, <2>2, <2>3, NoticesAskNothing DEF Passed
<1>7. CASE ServeGet(d)
  <2>1. PICK m : m = Reply(h.then, [l \in h.leaves |-> record[l]])
        OBVIOUS
  <2>2. inbox'[d] = inbox[d] \/ inbox'[d] = Append(inbox[d], m)
        BY <1>1, <1>7, <2>1 DEF ServeGet, DatabaseInv
  <2>3. h.kind = "get" /\ m.then = h.then /\ m.kind = "reply"
        BY <1>1, <1>7, <2>1 DEF ServeGet, Reply
  <2>4. Elems(Append(inbox[d], m)) = Elems(inbox[d]) \cup {m}
    <3>1. inbox[d] \in Seq(M \cup {m})
          BY <1>2, SeqWidens
    <3>2. QED
          BY <3>1, ElemsOfAppend
  <2>5. h \in Underway(d) /\ IsAsk(h)
        BY <1>3, <2>3 DEF Underway, IsAsk
  <2>6. QED
        BY <1>5, <2>2, <2>3, <2>4, <2>5 DEF Passed
<1>8. CASE ServeListen(d)
  <2>1. PICK m : m = Event(record)
        OBVIOUS
  <2>2. inbox'[d] = inbox[d] \/ inbox'[d] = Append(inbox[d], m)
        BY <1>8, <2>1 DEF ServeListen, DatabaseInv
  <2>3. Elems(Append(inbox[d], m)) = Elems(inbox[d]) \cup {m}
    <3>1. inbox[d] \in Seq(M \cup {m})
          BY <1>2, SeqWidens
    <3>2. QED
          BY <3>1, ElemsOfAppend
  <2>4. ~IsAsk(m)
        BY <2>1 DEF IsAsk, Event
  <2>5. QED
        BY <1>5, <2>2, <2>3, <2>4 DEF Passed
<1>9. QED
      BY <1>6, <1>7, <1>8 DEF ServerStep

LEMMA LinkAsksNothing ==
    ASSUME NEW G, NEW B, DatabaseInv(G, B), NEW d \in Device, Disconnect(d) \/ Reconnect(d)
    PROVE  AsksNothing(d)
<1>1. PICK C : C = Call(G, B[d])
      OBVIOUS
<1>2. wire[d] \in Seq(C) /\ held[d] \in Seq(C) /\ Observe \in C /\ pending[d] \in Seq(Write(G))
      BY <1>1, ObserveIsCall DEF DatabaseInv
<1>3. CASE Disconnect(d)
  <2>1. wire'[d] = Resends(d) /\ inbox'[d] = <<>> /\ UNCHANGED <<todo, held>>
        BY <1>3 DEF Disconnect, DatabaseInv
  <2>2. \A x \in Elems(Resends(d)) : ~IsAsk(x)
    <3>1. PICK r : r = Resends(d)
          OBVIOUS
    <3>2. \A i \in DOMAIN r : r[i].kind = "put"
          BY <3>1 DEF Resends, SetValue
    <3>3. QED
          BY <3>1, <3>2 DEF Elems, IsAsk
  <2>3. Elems(inbox'[d]) = {}
        BY <2>1 DEF Elems
  <2>4. QED
        BY <2>1, <2>2, <2>3 DEF AsksNothing, Underway, Passed
<1>4. CASE Reconnect(d)
  <2>1. PICK f : f = IF listens[d] THEN <<Observe>> ELSE <<>>
        OBVIOUS
  <2>2. f \in Seq(C) /\ \A x \in Elems(f) : ~IsAsk(x)
        BY <1>2, <2>1 DEF Elems, Observe, IsAsk
  <2>3. PICK s, g : s = wire[d] /\ g = held[d]
        OBVIOUS
  <2>4. wire'[d] = (f \o s) \o g /\ held'[d] = <<>> /\ UNCHANGED <<todo, inbox>>
        BY <1>4, <2>1, <2>3 DEF Reconnect, DatabaseInv
  <2>5. f \o s \in Seq(C) /\ s \in Seq(C) /\ g \in Seq(C)
        BY <1>2, <2>2, <2>3, ConcatProperties
  <2>6. PICK q : q = f \o s
        OBVIOUS
  <2>7. Elems(q) = Elems(f) \cup Elems(s) /\ q \in Seq(C)
        BY <2>2, <2>5, <2>6, ElemsOfConcat
  <2>8. Elems(q \o g) = Elems(q) \cup Elems(g)
        BY <2>5, <2>7, ElemsOfConcat
  <2>9. Elems(held'[d]) = {}
        BY <2>4 DEF Elems
  <2>10. QED
         BY <2>2, <2>3, <2>4, <2>6, <2>7, <2>8, <2>9 DEF AsksNothing, Underway, Passed
<1>5. QED
      BY <1>3, <1>4
-----------------------------------------------------------------------------
(* A deleted account.                                                      *)

\* Nobody waits for an answer.
Silent(d) == \A x \in Underway(d) : ~IsAsk(x)

\* The user has left; nothing but the permission for notifications is kept.
Left(d) == stage[d] \in {"leaving", "login"}
Gone(d) == Left(d) /\ Silent(d) /\ ~Held(Final(d))

LEMMA StaysSilent ==
    ASSUME NEW d, Silent(d), AsksNothing(d)
    PROVE  Silent(d)'
BY DEF Silent, AsksNothing, Passed

\* Nothing the app hears makes it do anything.
LEMMA SilentAnswers ==
    ASSUME NEW G, NEW B, DatabaseInv(G, B), NEW d \in Device, Silent(d)
    PROVE  Answers(d) = {}
<1>1. ASSUME NEW c \in First(todo[d])
      PROVE  c.kind # "get"
  <2>1. todo[d] \in Seq(Call(G, B[d])) /\ todo[d] # <<>> /\ c = Head(todo[d])
        BY <1>1 DEF DatabaseInv, First
  <2>2. c \in Underway(d)
        BY <2>1, FirstAndRest DEF Underway
  <2>3. QED
        BY <2>2 DEF Silent, IsAsk
<1>2. ASSUME NEW m \in First(inbox[d])
      PROVE  m.kind # "reply"
  <2>1. inbox[d] \in Seq(Message(G, B[d])) /\ inbox[d] # <<>> /\ m = Head(inbox[d])
        BY <1>2 DEF DatabaseInv, First
  <2>2. m \in Underway(d)
        BY <2>1, FirstAndRest DEF Underway
  <2>3. QED
        BY <2>2 DEF Silent, IsAsk
<1>3. QED
      BY <1>1, <1>2 DEF Answers

\* The queues of a deleted account only empty, but for the permission.
LEMMA NobodyActs ==
    ASSUME NEW d, AppStep(d), Answers(d) = {}, Left(d), identity = "deleted"
    PROVE  \/ UNCHANGED <<dbVars, stage>>
           \/ UNCHANGED dbVars /\ LoginViewDidLoad(d)
           \/ ReceiveEvent(d) /\ UNCHANGED stage
           \/ Dispatch(d, PermissionWrite) /\ UNCHANGED stage
           \/ Crash(d)
<1>1. ~MayAct(d) /\ ~MayStart(d) /\ stage[d] \notin {"welcome", "tabs"}
      BY DEF MayAct, MayStart, Left
<1>2. \A op : AnswersTo(d, op) = {}
      BY DEF AnswersTo
<1>3. ~StoreStep(d)
      BY <1>1, <1>2 DEF StoreStep, BuyOnClick, CellForRow, GotBuyLeaves, Deliver, Refuse,
         CrashOnNilLeaves
<1>4. ~RewardStep(d)
      BY <1>1, <1>2 DEF RewardStep, ClaimOnClick, GotClaimDate, GotRewardCurrent,
         GotRewardAllTime
<1>5. ~RedeemStep(d)
      BY <1>1, <1>2 DEF RedeemStep, RedeemButtonPressed, GotUser, CrashOnPartialUser
<1>6. LandStep(d) => OnBackButtonPressed(d)
      BY <1>1, <1>2 DEF LandStep, OnPlaceItem, OnPlacementCompleted, OnRemove,
         GotPlaceActive, GotPlaceInventory, GotRemoveActive, GotRemoveInventory, CrashOnLand
<1>7. OnBackButtonPressed(d) => UNCHANGED <<dbVars, stage>>
      BY DEF OnBackButtonPressed, sessionVars
<1>8. AccountStep(d) => \/ LoginViewDidLoad(d) \/ PermissionKnown(d)
                        \/ CrashOnPermission(d)
      BY <1>1, <1>2 DEF AccountStep, ScreenStep, FirstSignIn, SignInAgain, ChooseAvatar,
         ChangeAvatar, UpdateButtonPressed, LeaderSettingsSwitched, Save, Issue, OpenDashboard,
         OpenSettings, AppNotifySwitched, GotDashboard, GotSettings, CrashOnScreen,
         SignOutButtonPressed, DeleteButtonPressed
<1>9. SessionAnswer(d) => LeaderboardChanged(d) \/ CrashOnPartialRow(d)
      BY <1>2 DEF SessionAnswer, GotDisplayName, GotInventory, GotActiveItems,
         CrashOnActiveItems
<1>10. LoginViewDidLoad(d) => UNCHANGED dbVars
       BY DEF LoginViewDidLoad
<1>11. PermissionKnown(d) =>
           (Dispatch(d, PermissionWrite) \/ UNCHANGED dbVars) /\ UNCHANGED stage
       BY DEF PermissionKnown, sessionVars
<1>12. CrashOnPermission(d) => Crash(d)
       BY DEF CrashOnPermission
<1>13. QED
       BY <1>3, <1>4, <1>5, <1>6, <1>7, <1>8, <1>9, <1>10, <1>11, <1>12
          DEF AppStep, LeaderboardChanged, CrashOnPartialRow, sessionVars

LEMMA EventSilent ==
    ASSUME NEW G, NEW B, DatabaseInv(G, B), NEW d \in Device, Silent(d), ReceiveEvent(d)
    PROVE  Silent(d)' /\ Final(d)' = Final(d)
<1>1. inbox[d] # <<>>
      BY DEF ReceiveEvent, First
<1>2. inbox'[d] = Tail(inbox[d]) /\ UNCHANGED <<record, todo, held, wire>>
      BY DEF ReceiveEvent, DatabaseInv
<1>3. Silent(d)'
      BY EventAsksNothing, StaysSilent
<1>4. QED
      BY <1>2, <1>3, BaseStays DEF Final

\* What a dispatched call will do to the record, when nothing else is to be done.
LEMMA DispatchStands ==
    ASSUME NEW G, NEW B, DatabaseInv(G, B), NEW d \in Device, NEW x, Dispatch(d, <<x>>)
    PROVE  Final(d)' = After(x, Final(d))
<1>1. todo[d] \in Seq(Call(G, B[d])) /\ todo'[d] = todo[d] \o <<x>>
      BY DEF Dispatch, DatabaseInv
<1>2. PICK S : S = Call(G, B[d]) \cup {x}
      OBVIOUS
<1>3. PICK s, g : s = todo[d] /\ g = <<x>>
      OBVIOUS
<1>4. s \in Seq(S) /\ g \in Seq(S)
      BY <1>1, <1>2, <1>3, SeqWidens
<1>5. Base(d)' = Base(d)
      BY BaseStays DEF Dispatch
<1>6. PICK b : b = Base(d)
      OBVIOUS
<1>7. Stand(s \o g, Len(s \o g), b) = Stand(g, Len(g), Stand(s, Len(s), b))
      BY <1>4, ConcatStands
<1>8. PICK c : c = Stand(s, Len(s), b) /\ c = [l \in Leaf |-> c[l]]
      BY DEF Stand
<1>9. Len(g) = 1 /\ Stand(g, 1, c) = After(x, c)
      BY <1>3, <1>8, OneStands
<1>10. QED
       BY <1>1, <1>3, <1>4, <1>5, <1>6, <1>7, <1>8, <1>9 DEF Final

LEMMA PermissionHolds ==
    ASSUME NEW v, NEW b, DOMAIN b = Leaf
    PROVE  \A l \in Leaf \ {Notifications} :
              After(SetValue(SetLeaf(Notifications, v)), b)[l] = b[l]
<1>1. DOMAIN SetLeaf(Notifications, v) = {Notifications}
      BY DEF SetLeaf
<1>2. QED
      BY <1>1 DEF After, SetValue, Overlay

LEMMA PermissionGone ==
    ASSUME NEW G, NEW B, DatabaseInv(G, B), NEW d \in Device, Dispatch(d, PermissionWrite),
           Silent(d), ~Held(Final(d))
    PROVE  Silent(d)' /\ ~Held(Final(d)')
<1>1. PICK x : x = SetValue(SetLeaf(Notifications, 0)) /\ PermissionWrite = <<x>>
      BY DEF PermissionWrite
<1>2. Final(d)' = After(x, Final(d))
      BY <1>1, DispatchStands
<1>3. DOMAIN Final(d) = Leaf
      BY StandIsARow DEF Final
<1>4. ~Held(Final(d)')
      BY <1>1, <1>2, <1>3, PermissionHolds DEF Held
<1>5. todo[d] \in Seq(Call(G, B[d])) /\ todo'[d] = todo[d] \o <<x>>
      BY <1>1 DEF Dispatch, DatabaseInv
<1>6. UNCHANGED <<wire, held, inbox>>
      BY DEF Dispatch
<1>7. Elems(<<x>>) = {x}
      BY DEF Elems
<1>8. Elems(todo'[d]) = Elems(todo[d]) \cup {x}
  <2>1. <<x>> \in Seq({x})
        OBVIOUS
  <2>2. QED
        BY <1>5, <1>7, <2>1, ElemsOfConcat
<1>9. ~IsAsk(x)
      BY <1>1 DEF SetValue, IsAsk
<1>10. QED
       BY <1>4, <1>6, <1>8, <1>9 DEF Silent, Underway

LEMMA GoneStays ==
    ASSUME NEW G, NEW B, Asks(B), DatabaseInv(G, B), QueueInv, Lives, NEW d \in Device, Agrees(d),
           Gone(d), identity = "deleted", ~ProcessHasEnded,
           AppStep(d) \/ EnvironmentStep(d)
    PROVE  Gone(d)' \/ ProcessHasEnded'
<1>1. Left(d) /\ Silent(d) /\ ~Held(Final(d))
      BY DEF Gone
<1>2. CASE AppStep(d)
  <2>1. Answers(d) = {}
        BY <1>1, SilentAnswers
  <2>2. CASE UNCHANGED dbVars /\ Left(d)'
    <3>1. UNCHANGED <<record, todo, wire, held, inbox>>
          BY <2>2 DEF dbVars, clientVars, linkVars
    <3>2. Final(d)' = Final(d) /\ (Silent(d)' <=> Silent(d))
          BY <3>1, BaseStays DEF Silent, Underway, Final
    <3>3. QED
          BY <1>1, <2>2, <3>2 DEF Gone
  <2>3. CASE ReceiveEvent(d) /\ UNCHANGED stage
        BY <1>1, <2>3, EventSilent DEF Gone, Left
  <2>4. CASE Dispatch(d, PermissionWrite) /\ UNCHANGED stage
        BY <1>1, <2>4, PermissionGone DEF Gone, Left
  <2>5. CASE Crash(d)
        BY <2>5, CrashEnds DEF Lives
  <2>6. LoginViewDidLoad(d) => Left(d)'
        BY DEF LoginViewDidLoad, Leave, Left, QueueInv
  <2>7. UNCHANGED stage => Left(d)'
        BY <1>1 DEF Left
  <2>8. QED
        BY <1>1, <1>2, <2>1, <2>2, <2>3, <2>4, <2>5, <2>6, <2>7, NobodyActs
<1>3. CASE EnvironmentStep(d)
  <2>1. CASE Kill(d)
        BY <2>1, KillEnds DEF Lives
  <2>2. ~Launch(d)
        BY DEF Launch, ProcessStarts, Lives
  <2>3. CASE ClientStep(d) \/ ServerStep(d) \/ Disconnect(d) \/ Reconnect(d)
    <3>1. Holds(d)
          BY <2>3, ClientHolds, ServerHolds, DisconnectHolds, ReconnectHolds
    <3>2. Silent(d)'
          BY <1>1, <2>3, StaysSilent, ClientAsksNothing, ServerAsksNothing, LinkAsksNothing
    <3>3. CASE UNCHANGED stage
          BY <1>1, <3>1, <3>2, <3>3 DEF Gone, Left, Holds
    <3>4. CASE Kill(d) \/ Launch(d)
          BY <2>1, <2>2, <3>4
    <3>5. QED
          BY <1>3, <3>3, <3>4 DEF EnvironmentStep, sessionVars
  <2>4. QED
        BY <1>3, <2>1, <2>2, <2>3 DEF EnvironmentStep
<1>4. QED
      BY <1>2, <1>3

LEMMA AllRemoved ==
    ASSUME NEW b, b = [l \in Leaf |-> b[l]]
    PROVE  After(SetValue(Nothing), b) = Nothing
<1>1. DOMAIN b = Leaf
      OBVIOUS
<1>2. After(SetValue(Nothing), b) = Overlay(b, Nothing)
      BY DEF After, SetValue
<1>3. Overlay(b, Nothing) = [l \in Leaf |-> Absent]
      BY <1>1 DEF Overlay, Nothing
<1>4. QED
      BY <1>2, <1>3 DEF Nothing

LEMMA IdleIsSilent ==
    ASSUME NEW G, NEW B, DatabaseInv(G, B), NEW d \in Device, Idle(d)
    PROVE  Silent(d)
<1>1. todo[d] = <<>> /\ held[d] = <<>>
      BY DEF Idle
<1>2. Elems(todo[d]) = {} /\ Elems(held[d]) = {}
      BY <1>1 DEF Elems
<1>3. ASSUME NEW i \in DOMAIN wire[d]
      PROVE  ~IsAsk(wire[d][i])
  <2>1. wire[d][i] \in Call(G, B[d])
        BY DEF DatabaseInv
  <2>2. wire[d][i].kind # "reply"
        BY <2>1 DEF Call, GetData, SetValue, Observe
  <2>3. QED
        BY <2>2 DEF Idle, Calls, IsAsk
<1>4. ASSUME NEW i \in DOMAIN inbox[d]
      PROVE  ~IsAsk(inbox[d][i])
  <2>1. inbox[d][i] \in Message(G, B[d])
        BY DEF DatabaseInv
  <2>2. inbox[d][i].kind # "get"
        BY <2>1 DEF Message, Ack, Event, Reply
  <2>3. QED
        BY <2>2 DEF Idle, Calls, IsAsk
<1>5. QED
      BY <1>2, <1>3, <1>4 DEF Silent, Underway, Elems

LEMMA NothingHeld == ~Held(Nothing)
BY DEF Held, Nothing

LEMMA DeletedIsGone ==
    ASSUME NEW G, NEW B, DatabaseInv(G, B), QueueInv, NEW d \in Device, ~Overlap,
           DeleteButtonPressed(d)
    PROVE  Gone(d)'
<1>1. Dispatch(d, <<SetValue(Nothing)>>) /\ Idle(d) /\ stage'[d] = "leaving"
      BY DEF DeleteButtonPressed, RemovedUser, MayStart, MayAct, Patient, Leave, QueueInv
<1>2. PICK x : x = SetValue(Nothing)
      OBVIOUS
<1>3. Final(d)' = After(x, Final(d))
      BY <1>1, <1>2, DispatchStands
<1>4. Final(d)' = Nothing
      BY <1>2, <1>3, AllRemoved, BaseIsARow
<1>5. todo'[d] = <<>> \o <<x>> /\ UNCHANGED <<wire, held, inbox>>
      BY <1>1, <1>2 DEF Dispatch, DatabaseInv, Idle
<1>6. \A y \in Elems(todo'[d]) : ~IsAsk(y)
  <2>1. <<>> \o <<x>> = <<x>> /\ ~IsAsk(x)
        BY <1>2 DEF SetValue, IsAsk
  <2>2. QED
        BY <1>5, <2>1 DEF Elems
<1>7. Silent(d)
      BY <1>1, IdleIsSilent
<1>8. QED
      BY <1>1, <1>4, <1>5, <1>6, <1>7, NothingHeld DEF Gone, Left, Silent, Underway

-----------------------------------------------------------------------------
(* In every behaviour with one phone.                                      *)

Solo == \A d, e \in Device : d = e

Deserted == (identity = "deleted" /\ ~ProcessHasEnded) => \E d \in Device : Gone(d)

AccountInv == Lives /\ (\A d \in Device : Agrees(d)) /\ Deserted

LEMMA AgreesOn ==
    ASSUME NEW G, NEW B, DatabaseInv(G, B), QueueInv, NEW d \in Device, Agrees(d),
           AppStep(d) \/ EnvironmentStep(d)
    PROVE  Agrees(d)'
<1>1. CASE AppStep(d)
  <2>1. CASE Aside
        BY <2>1, BaseStays, AgreesStays DEF Aside
  <2>2. CASE Crash(d)
        BY <2>2, AppEndsAgrees DEF Crash
  <2>3. QED
        BY <1>1, <2>1, <2>2, AppIsAside
<1>2. CASE EnvironmentStep(d)
      BY <1>2, ClientHolds, ServerHolds, DisconnectHolds, ReconnectHolds, AppEndsAgrees,
         LaunchAgrees DEF EnvironmentStep, Kill, Holds
<1>3. QED
      BY <1>1, <1>2

\* Only the button deletes an account.
LEMMA IdentityMoves ==
    ASSUME NEW d, AccountStep(d), identity' = "deleted"
    PROVE  identity = "deleted" \/ DeleteButtonPressed(d)
BY DEF AccountStep, ScreenStep, FirstSignIn, SignInAgain, ChooseAvatar, ChangeAvatar,
   UpdateButtonPressed, LeaderSettingsSwitched, Save, Issue, OpenDashboard, OpenSettings,
   AppNotifySwitched, GotDashboard, GotSettings, CrashOnScreen, PermissionKnown,
   CrashOnPermission, SignOutButtonPressed, LoginViewDidLoad, accountVars

LEMMA GameSteps ==
    ASSUME GameNext
    PROVE  \/ \E d \in Device :
                 /\ AppStep(d) \/ EnvironmentStep(d)
                 /\ identity' = identity \/ AccountStep(d)
           \/ UNCHANGED <<dbVars, stage, identity, wishes>>
BY DEF GameNext, WalletPart, LandPart, AccountPart, CommonPart, AppStep, NextDay,
   accountVars, sessionVars

LEMMA StillAccount ==
    ASSUME AccountInv, UNCHANGED <<dbVars, stage, identity>>
    PROVE  AccountInv'
<1>1. UNCHANGED <<record, todo, pending, wire, held, inbox, up, faults>>
      BY DEF dbVars, clientVars, linkVars
<1>2. Lives' /\ (ProcessHasEnded' <=> ProcessHasEnded)
      BY <1>1, SparedLives DEF AccountInv
<1>3. \A d \in Device : Agrees(d)' /\ Base(d)' = Base(d)
      BY <1>1, BaseStays, AgreesStays DEF AccountInv
<1>4. ASSUME NEW d \in Device, Gone(d)
      PROVE  Gone(d)'
      BY <1>1, <1>3, <1>4 DEF Gone, Left, Silent, Underway, Final
<1>5. QED
      BY <1>2, <1>3, <1>4 DEF AccountInv, Deserted

LEMMA AccountGoesOn ==
    ASSUME Solo, ~Overlap, GameInv, QueueInv, AccountInv, [GameNext]_gameVars
    PROVE  AccountInv'
<1>1. PICK G : DatabaseInv(G, Blocks) /\ Asks(Blocks)
      BY BlocksAsk DEF GameInv, Inv
<1>2. CASE UNCHANGED <<dbVars, stage, identity>>
      BY <1>2, StillAccount
<1>3. ASSUME NEW d \in Device, AppStep(d) \/ EnvironmentStep(d),
             identity' = identity \/ AccountStep(d)
      PROVE  AccountInv'
  <2>1. Lives' /\ (ProcessHasEnded => ProcessHasEnded')
        BY <1>3, LivesOn DEF AccountInv
  <2>2. Agrees(d)'
        BY <1>1, <1>3, AgreesOn DEF AccountInv
  <2>3. ASSUME identity' = "deleted", ~ProcessHasEnded'
        PROVE  Gone(d)'
    <3>1. CASE identity = "deleted"
      <4>1. Gone(d) /\ ~ProcessHasEnded
            BY <2>1, <2>3, <3>1 DEF AccountInv, Deserted, Solo
      <4>2. QED
            BY <1>1, <1>3, <2>3, <3>1, <4>1, GoneStays DEF AccountInv
    <3>2. CASE identity # "deleted"
          BY <1>1, <1>3, <2>3, <3>2, IdentityMoves, DeletedIsGone
    <3>3. QED
          BY <3>1, <3>2
  <2>4. \A e \in Device : e = d
        BY DEF Solo
  <2>5. QED
        BY <2>1, <2>2, <2>3, <2>4 DEF AccountInv, Deserted
<1>4. CASE GameNext
      BY <1>2, <1>3, <1>4, GameSteps
<1>5. CASE UNCHANGED gameVars
  <2>1. UNCHANGED <<dbVars, stage, identity>>
        BY <1>5 DEF gameVars, vars, accountVars, sessionVars
  <2>2. QED
        BY <1>2, <2>1
<1>6. QED
      BY <1>4, <1>5

LEMMA AccountBegins ==
    ASSUME GameInit
    PROVE  AccountInv
<1>1. PICK opening \in Openings : SessionInit(opening)
      BY DEF GameInit, WalletInit, UsersInit
<1>2. /\ pending = [d \in Device |-> <<>>] /\ up = [d \in Device |-> TRUE]
      /\ faults = [drops |-> 0, kills |-> 0, crashed |-> FALSE]
      BY <1>1 DEF SessionInit, DatabaseInit
<1>3. Lives
      BY <1>2 DEF Lives, FaultsType
<1>4. \A d \in Device : Agrees(d)
      BY <1>2 DEF Agrees
<1>5. identity # "deleted"
      BY DEF GameInit, AccountStart
<1>6. QED
      BY <1>3, <1>4, <1>5 DEF AccountInv, Deserted

LEMMA SettledIsFinal ==
    ASSUME NEW G, NEW B, DatabaseInv(G, B), NEW d \in Device, Settled(d)
    PROVE  Final(d) = record
<1>1. todo[d] = <<>> /\ wire[d] = <<>>
      BY DEF Settled
<1>2. Base(d) = record
      BY <1>1, RecordIsARow, NothingWritten DEF Base
<1>3. QED
      BY <1>1, <1>2, RecordIsARow, NothingWritten DEF Final

LEMMA DesertedIsEmpty ==
    ASSUME GameInv, AccountInv
    PROVE  DeletionLasts
<1>1. PICK G : DatabaseInv(G, Blocks)
      BY DEF GameInv, Inv
<1>2. SUFFICES ASSUME identity = "deleted", ~ProcessHasEnded, AllSettled
               PROVE  ~Held(record)
      BY DEF DeletionLasts
<1>3. PICK d \in Device : ~Held(Final(d)) /\ Settled(d)
      BY <1>2 DEF AccountInv, Deserted, Gone, AllSettled
<1>4. QED
      BY <1>1, <1>3, SettledIsFinal

\* Nothing of a deleted account but the permission for notifications comes back,
\* whatever else was under way to the server and however often connections are lost:
\* the user of the one phone waited for all answers before the button, so no block of
\* the database is left that could write, and what the system answers to the settings
\* changes that leaf alone (SettingsViewController.swift:82, 89, 262 and 278).
THEOREM DeletedStaysDeleted ==
    ASSUME Solo, ~Overlap
    PROVE  GameSpec => []DeletionLasts
<1>1. GameInit => AccountInv
      BY AccountBegins
<1>2. GameInv /\ QueueInv /\ AccountInv /\ [GameNext]_gameVars => AccountInv'
      BY AccountGoesOn
<1>3. GameInit => QueueInv
      BY QueueInitHolds DEF GameInit, WalletInit
<1>4. GameInv /\ QueueInv /\ [GameNext]_gameVars => QueueInv'
      BY GameMoves
<1>5. GameInv /\ AccountInv => DeletionLasts
      BY DesertedIsEmpty
<1>6. QED
      BY <1>1, <1>2, <1>3, <1>4, <1>5, GameInvHolds, PTL DEF GameSpec

-----------------------------------------------------------------------------
(* Records without a gap.                                                  *)

\* The fields that the screens cast.
Field == {DisplayName, OnLeaderboard, CurrentLeaves, AllTimeLeaves}

There(b) == \A l \in Field : b[l] # Absent
Whole(b) == Held(b) => There(b)

\* A record that is whole, and stays so with each call of the queue.
Steady(s, b) == \A i \in 0..Len(s) : Whole(Stand(s, i, b))

\* A call that removes none of the fields.
Gives(x) == x.kind = "put" => \A l \in Field : l \in DOMAIN x.write => x.write[l] # Absent

LEMMA FieldIsLeaf == Field \subseteq Leaf \ {Notifications} /\ DisplayName \in Field
<1>1. DisplayName # Notifications /\ OnLeaderboard # Notifications
      /\ CurrentLeaves # Notifications /\ AllTimeLeaves # Notifications
      BY DEF DisplayName, OnLeaderboard, CurrentLeaves, AllTimeLeaves, Notifications
<1>2. QED
      BY <1>1, LeavesAreLeaves DEF Field, Leaf, Profile

LEMMA ThereIsHeld ==
    ASSUME NEW b, NEW l \in Field, b[l] # Absent
    PROVE  Held(b)
BY FieldIsLeaf DEF Held

LEMMA NothingIsWhole == Whole(Nothing)
BY NothingHeld DEF Whole

\* The permission makes no difference.
LEMMA AlikeWhole ==
    ASSUME NEW b, NEW c, \A l \in Leaf \ {Notifications} : c[l] = b[l]
    PROVE  (Held(c) <=> Held(b)) /\ (There(c) <=> There(b)) /\ (Whole(c) <=> Whole(b))
<1>1. Held(c) <=> Held(b)
      BY DEF Held
<1>2. There(c) <=> There(b)
      BY FieldIsLeaf DEF There
<1>3. QED
      BY <1>1, <1>2 DEF Whole

\* Where a row's value comes from.
LEMMA StandFrom ==
    ASSUME NEW s, NEW i \in Nat, NEW b, NEW l \in Leaf
    PROVE  \/ Stand(s, i, b)[l] = b[l]
           \/ \E j \in 1..i : Writes(s[j], l) /\ Stand(s, i, b)[l] = s[j].write[l]
<1>1. CASE \E j \in 1..i : Writes(s[j], l)
  <2>1. PICK j \in 1..i : LastOf(s, i, l, j)
        BY <1>1, ThereIsALast
  <2>2. QED
        BY <2>1, LastStands DEF LastOf
<1>2. CASE \A j \in 1..i : ~Writes(s[j], l)
      BY <1>2, UnwrittenStands
<1>3. QED
      BY <1>1, <1>2

LEMMA GivenStands ==
    ASSUME NEW S, NEW s \in Seq(S), \A x \in Elems(s) : Gives(x), NEW b, There(b),
           NEW i \in 0..Len(s)
    PROVE  There(Stand(s, i, b))
<1>1. DOMAIN s = 1..Len(s) /\ Len(s) \in Nat
      BY LenProperties
<1>2. ASSUME NEW l \in Field
      PROVE  Stand(s, i, b)[l] # Absent
  <2>1. CASE Stand(s, i, b)[l] = b[l]
        BY <2>1 DEF There
  <2>2. ASSUME NEW j \in 1..i, Writes(s[j], l), Stand(s, i, b)[l] = s[j].write[l]
        PROVE  Stand(s, i, b)[l] # Absent
    <3>1. j \in DOMAIN s
          BY <1>1
    <3>2. Gives(s[j])
          BY <3>1 DEF Elems
    <3>3. QED
          BY <2>2, <3>2 DEF Gives, Writes
  <2>3. i \in Nat /\ l \in Leaf
        BY <1>1, FieldIsLeaf
  <2>4. QED
        BY <2>1, <2>2, <2>3, StandFrom
<1>3. QED
      BY <1>2 DEF There

LEMMA UntouchedStands ==
    ASSUME NEW S, NEW s \in Seq(S), NEW l \in Leaf, \A x \in Elems(s) : ~Writes(x, l), NEW b
    PROVE  Stand(s, Len(s), b)[l] = b[l]
<1>1. DOMAIN s = 1..Len(s) /\ Len(s) \in Nat
      BY LenProperties
<1>2. \A j \in 1..Len(s) : ~Writes(s[j], l)
      BY <1>1 DEF Elems
<1>3. QED
      BY <1>1, <1>2, UnwrittenStands

\* A queue without its first call, with another one, and with others.
LEMMA SteadyRest ==
    ASSUME NEW S, NEW s \in Seq(S), s # <<>>, NEW b, b = [l \in Leaf |-> b[l]], Steady(s, b)
    PROVE  Whole(After(Head(s), b)) /\ Steady(Tail(s), After(Head(s), b))
<1>1. PICK t \in Seq(S) : t = Tail(s) /\ Shorter(s, t) /\ Head(s) = s[1]
      BY TailIsShorter
<1>2. PICK n \in Nat : n = Len(t) /\ n + 1 = Len(s)
      BY <1>1, LenProperties DEF Shorter
<1>3. ASSUME NEW i \in 0..n
      PROVE  Whole(Stand(t, i, After(s[1], b)))
  <2>1. i \in 0..Len(t) /\ i + 1 \in 0..Len(s)
        BY <1>2
  <2>2. t \in Seq(S) /\ Shorter(s, t) /\ i \in 0..Len(t)
        BY <1>1, <2>1
  <2>3. Stand(t, i, After(s[1], b)) = Stand(s, i + 1, b)
        BY <2>2, FirstStands
  <2>4. QED
        BY <2>1, <2>3 DEF Steady
<1>4. Stand(s, 1, b) = After(s[1], b) /\ 1 \in 0..Len(s)
      BY <1>2, OneStands
<1>5. QED
      BY <1>1, <1>2, <1>3, <1>4 DEF Steady

LEMMA SteadyMore ==
    ASSUME NEW S, NEW s \in Seq(S), NEW x \in S, NEW b, Steady(s, b),
           Whole(After(x, Stand(s, Len(s), b)))
    PROVE  Steady(Append(s, x), b)
<1>1. PICK t \in Seq(S) : t = Append(s, x) /\ Longer(s, x, t)
      BY AppendIsLonger
<1>2. PICK n \in Nat : n = Len(s) /\ n + 1 = Len(t)
      BY <1>1, LenProperties DEF Longer
<1>3. /\ \A i \in 0..n : Stand(t, i, b) = Stand(s, i, b)
      /\ Stand(t, n + 1, b) = After(x, Stand(s, Len(s), b))
  <2>1. t \in Seq(S) /\ Longer(s, x, t)
        BY <1>1
  <2>2. /\ \A i \in 0..Len(s) : Stand(t, i, b) = Stand(s, i, b)
        /\ Stand(t, Len(t), b) = After(x, Stand(s, Len(s), b))
        BY <2>1, MoreStands
  <2>3. QED
        BY <1>2, <2>2
<1>4. \A i \in 0..(n + 1) : i \in 0..n \/ i = n + 1
      OBVIOUS
<1>5. QED
      BY <1>1, <1>2, <1>3, <1>4 DEF Steady

LEMMA SteadyJoined ==
    ASSUME NEW S, NEW s \in Seq(S), NEW T, NEW g \in Seq(T), NEW b, Steady(s, b),
           Steady(g, Stand(s, Len(s), b))
    PROVE  /\ Steady(s \o g, b)
           /\ Stand(s \o g, Len(s \o g), b) = Stand(g, Len(g), Stand(s, Len(s), b))
<1>1. PICK U : U = S \cup T
      OBVIOUS
<1>2. s \in Seq(U) /\ g \in Seq(U)
      BY <1>1, SeqWidens
<1>3. PICK u \in Seq(U) : u = s \o g /\ Joined(s, g, u)
      BY <1>2, ConcatIsJoined
<1>4. PICK n \in Nat, m \in Nat : n = Len(s) /\ m = Len(g) /\ Len(u) = n + m
      BY <1>3, LenProperties DEF Joined
<1>5. /\ \A i \in 0..n : Stand(u, i, b) = Stand(s, i, b)
      /\ \A i \in 0..m : Stand(u, n + i, b) = Stand(g, i, Stand(s, n, b))
      BY <1>2, <1>3, <1>4, JoinedStand
<1>6. ASSUME NEW i \in 0..(n + m)
      PROVE  i \in 0..n \/ \E j \in 0..m : i = n + j
  <2>1. CASE i <= n
        BY <2>1
  <2>2. CASE ~(i <= n)
    <3>1. i - n \in 0..m /\ i = n + (i - n)
          BY <2>2
    <3>2. QED
          BY <3>1
  <2>3. QED
        BY <2>1, <2>2
<1>7. ASSUME NEW i \in 0..(n + m)
      PROVE  Whole(Stand(u, i, b))
      BY <1>4, <1>5, <1>6 DEF Steady
<1>8. m \in 0..m
      BY <1>4
<1>9. QED
      BY <1>3, <1>4, <1>5, <1>7, <1>8 DEF Steady

LEMMA SteadyOne ==
    ASSUME NEW x, NEW b, b = [l \in Leaf |-> b[l]], Whole(b), Whole(After(x, b))
    PROVE  Steady(<<x>>, b) /\ Stand(<<x>>, Len(<<x>>), b) = After(x, b)
<1>1. PICK s : s = <<x>>
      OBVIOUS
<1>2. Len(s) = 1 /\ s[1] = x
      BY <1>1
<1>3. Stand(s, 0, b) = b /\ Stand(s, 1, b) = After(x, b)
      BY <1>2, NothingWritten, OneStands
<1>4. \A i \in 0..1 : i = 0 \/ i = 1
      OBVIOUS
<1>5. QED
      BY <1>1, <1>2, <1>3, <1>4 DEF Steady

LEMMA SteadyGiven ==
    ASSUME NEW S, NEW s \in Seq(S), \A x \in Elems(s) : Gives(x), NEW b, There(b)
    PROVE  Steady(s, b) /\ There(Stand(s, Len(s), b))
<1>1. Len(s) \in 0..Len(s)
      BY LenProperties
<1>2. QED
      BY <1>1, GivenStands DEF Steady, Whole

\* What has come through of a queue.
LEMMA SteadyPart ==
    ASSUME NEW S, NEW s \in Seq(S), NEW n \in 0..Len(s), NEW b, Steady(s, b)
    PROVE  Steady(SubSeq(s, 1, n), b) /\ Whole(Stand(SubSeq(s, 1, n), Len(SubSeq(s, 1, n)), b))
<1>1. PICK t : t = SubSeq(s, 1, n)
      OBVIOUS
<1>2. Len(s) \in Nat
      BY LenProperties
<1>3. Len(t) = n /\ \A j \in 1..n : t[j] = s[j]
  <2>1. CASE n = 0
        BY <1>1, <2>1
  <2>2. CASE n # 0
        BY <1>1, <1>2, <2>2, SubSeqProperties
  <2>3. QED
        BY <2>1, <2>2
<1>4. ASSUME NEW i \in 0..n
      PROVE  Whole(Stand(t, i, b))
  <2>1. i \in Nat /\ i \in 0..Len(s) /\ \A j \in 1..i : t[j] = s[j]
        BY <1>2, <1>3
  <2>2. Stand(t, i, b) = Stand(s, i, b)
        BY <2>1, AlikeStand
  <2>3. QED
        BY <2>1, <2>2 DEF Steady
<1>5. n \in 0..n
      BY <1>2
<1>6. QED
      BY <1>1, <1>3, <1>4, <1>5 DEF Steady

-----------------------------------------------------------------------------
(* The question of a sign-in.                                              *)

\* A sign-in's question for the name, and its answer when the name is v.
IsName(x) == IsAsk(x) /\ x.then.op = "displayName"
AsksName(x, v) ==
    /\ IsName(x)
    /\ x.kind = "get" => x.leaves = {DisplayName}
    /\ x.kind = "reply" => (Exists(x.snap) <=> v # Absent)

\* What may come after it: no write but the permission's, and no question but the
\* Dashboard's.
IsTame(x) ==
    /\ x.kind = "put" => DOMAIN x.write = {Notifications}
    /\ IsAsk(x) => x.then.op = "dashboard"
Tame(s)    == \A x \in Elems(s) : IsTame(x)
Unasked(s) == \A x \in Elems(s) : ~IsAsk(x)

\* It is in a queue, the first question there.
AskedAt(s, p, v) ==
    /\ AsksName(s[p], v)
    /\ \A i \in DOMAIN s : i < p => ~IsAsk(s[i])
    /\ \A i \in DOMAIN s : i > p => IsTame(s[i])
NameAsked(s, v) == \E p \in DOMAIN s : AskedAt(s, p, v)

LEMMA TameNames == \A x : IsTame(x) => ~IsName(x)
BY DEF IsTame, IsName

LEMMA NamedIsUnderway ==
    ASSUME NEW s, NEW v, NameAsked(s, v)
    PROVE  \E x \in Elems(s) : IsName(x)
BY DEF NameAsked, AskedAt, AsksName, Elems

\* The queue without its first element.
LEMMA NameAskedRest ==
    ASSUME NEW S, NEW s \in Seq(S), s # <<>>, NEW v, NameAsked(s, v)
    PROVE  \/ AsksName(Head(s), v) /\ Tame(Tail(s))
           \/ ~IsAsk(Head(s)) /\ NameAsked(Tail(s), v)
<1>1. PICK t \in Seq(S) : t = Tail(s) /\ Shorter(s, t) /\ Head(s) = s[1]
      BY TailIsShorter
<1>2. PICK n \in Nat : /\ n = Len(t) /\ n + 1 = Len(s)
                       /\ DOMAIN t = 1..n /\ DOMAIN s = 1..(n + 1)
  <2>1. /\ Len(s) \in Nat /\ DOMAIN s = 1..Len(s)
        /\ Len(t) \in Nat /\ DOMAIN t = 1..Len(t)
        BY LenProperties
  <2>2. Len(t) + 1 = Len(s)
        BY <1>1, <2>1 DEF Shorter
  <2>3. QED
        BY <2>1, <2>2
<1>3. PICK p \in 1..(n + 1) : AskedAt(s, p, v)
      BY <1>2 DEF NameAsked
<1>4. \A i \in 1..n : i + 1 \in 1..(n + 1) /\ t[i] = s[i + 1]
      BY <1>1, <1>2 DEF Shorter
<1>5. CASE p = 1
  <2>1. \A i \in 1..n : i + 1 > p
        BY <1>5
  <2>2. \A i \in 1..n : IsTame(t[i])
        BY <1>2, <1>3, <1>4, <2>1 DEF AskedAt
  <2>3. QED
        BY <1>1, <1>2, <1>3, <1>5, <2>2 DEF AskedAt, Tame, Elems
<1>6. CASE p # 1
  <2>1. p - 1 \in 1..n /\ (p - 1) + 1 = p /\ 1 < p /\ 1 \in 1..(n + 1)
        BY <1>6
  <2>2. ~IsAsk(s[1]) /\ t[p - 1] = s[p]
        BY <1>2, <1>3, <1>4, <2>1 DEF AskedAt
  <2>3. \A i \in 1..n : (i < p - 1 => i + 1 < p) /\ (i > p - 1 => i + 1 > p)
        BY <2>1
  <2>4. AskedAt(t, p - 1, v)
        BY <1>2, <1>3, <1>4, <2>2, <2>3 DEF AskedAt
  <2>5. QED
        BY <1>1, <1>2, <2>1, <2>2, <2>4 DEF NameAsked
<1>7. QED
      BY <1>5, <1>6

\* Two queues, one after the other.
LEMMA NameAskedJoined ==
    ASSUME NEW S, NEW s \in Seq(S), NEW T, NEW g \in Seq(T), NEW v,
           \/ NameAsked(s, v) /\ Tame(g)
           \/ Unasked(s) /\ NameAsked(g, v)
    PROVE  NameAsked(s \o g, v)
<1>1. PICK U : U = S \cup T
      OBVIOUS
<1>2. s \in Seq(U) /\ g \in Seq(U)
      BY <1>1, SeqWidens
<1>3. PICK u \in Seq(U) : u = s \o g /\ Joined(s, g, u)
      BY <1>2, ConcatIsJoined
<1>4. PICK n \in Nat, m \in Nat : /\ n = Len(s) /\ m = Len(g)
                                  /\ DOMAIN s = 1..n /\ DOMAIN g = 1..m
      BY LenProperties
<1>5. DOMAIN u = 1..(n + m)
      BY <1>3, <1>4, LenProperties DEF Joined
<1>6. /\ \A i \in 1..n : i \in 1..(n + m) /\ u[i] = s[i]
      /\ \A i \in 1..m : n + i \in 1..(n + m) /\ u[n + i] = g[i]
      BY <1>3, <1>4 DEF Joined
<1>7. ASSUME NEW i \in 1..(n + m)
      PROVE  i \in 1..n \/ \E j \in 1..m : i = n + j
  <2>1. CASE i <= n
        BY <2>1
  <2>2. CASE ~(i <= n)
    <3>1. i - n \in 1..m /\ i = n + (i - n)
          BY <2>2
    <3>2. QED
          BY <3>1
  <2>3. QED
        BY <2>1, <2>2
<1>8. CASE NameAsked(s, v) /\ Tame(g)
  <2>1. PICK p \in 1..n : AskedAt(s, p, v)
        BY <1>4, <1>8 DEF NameAsked
  <2>2. ASSUME NEW i \in 1..(n + m), i < p
        PROVE  ~IsAsk(u[i])
    <3>1. i \in 1..n
          BY <2>2
    <3>2. QED
          BY <1>4, <1>6, <2>1, <2>2, <3>1 DEF AskedAt
  <2>3. ASSUME NEW i \in 1..(n + m), i > p
        PROVE  IsTame(u[i])
    <3>1. CASE i \in 1..n
          BY <1>4, <1>6, <2>1, <2>3, <3>1 DEF AskedAt
    <3>2. ASSUME NEW j \in 1..m, i = n + j
          PROVE  IsTame(u[i])
          BY <1>4, <1>6, <1>8, <3>2 DEF Tame, Elems
    <3>3. QED
          BY <1>7, <3>1, <3>2
  <2>4. AskedAt(u, p, v) /\ p \in DOMAIN u
        BY <1>5, <1>6, <2>1, <2>2, <2>3 DEF AskedAt
  <2>5. QED
        BY <1>3, <2>4 DEF NameAsked
<1>9. CASE Unasked(s) /\ NameAsked(g, v)
  <2>1. PICK p \in 1..m : AskedAt(g, p, v)
        BY <1>4, <1>9 DEF NameAsked
  <2>2. ASSUME NEW i \in 1..(n + m), i < n + p
        PROVE  ~IsAsk(u[i])
    <3>1. CASE i \in 1..n
          BY <1>4, <1>6, <1>9, <3>1 DEF Unasked, Elems
    <3>2. ASSUME NEW j \in 1..m, i = n + j
          PROVE  ~IsAsk(u[i])
      <4>1. j < p
            BY <2>2, <3>2
      <4>2. QED
            BY <1>4, <1>6, <2>1, <3>2, <4>1 DEF AskedAt
    <3>3. QED
          BY <1>7, <3>1, <3>2
  <2>3. ASSUME NEW i \in 1..(n + m), i > n + p
        PROVE  IsTame(u[i])
    <3>1. i \notin 1..n
          BY <2>3
    <3>2. PICK j \in 1..m : i = n + j
          BY <1>7, <3>1
    <3>3. j > p
          BY <2>3, <3>2
    <3>4. QED
          BY <1>4, <1>6, <2>1, <3>2, <3>3 DEF AskedAt
  <2>4. AskedAt(u, n + p, v) /\ n + p \in DOMAIN u
        BY <1>5, <1>6, <2>1, <2>2, <2>3 DEF AskedAt
  <2>5. QED
        BY <1>3, <2>4 DEF NameAsked
<1>10. QED
       BY <1>8, <1>9

LEMMA AppendIsJoined ==
    ASSUME NEW S, NEW s \in Seq(S), NEW x \in S
    PROVE  Append(s, x) = s \o <<x>> /\ <<x>> \in Seq(S) /\ Elems(<<x>>) = {x}
<1>1. Append(s, x) = s \o <<x>>
      BY AppendIsConcat
<1>2. Elems(<<x>>) = {x}
      BY DEF Elems
<1>3. QED
      BY <1>1, <1>2

\* The question is put at the end of a queue, or something else is.
LEMMA NameAskedMore ==
    ASSUME NEW S, NEW s \in Seq(S), NEW x \in S, NEW v,
           \/ NameAsked(s, v) /\ IsTame(x)
           \/ Unasked(s) /\ AsksName(x, v)
    PROVE  NameAsked(Append(s, x), v)
<1>1. PICK g : g = <<x>>
      OBVIOUS
<1>2. g \in Seq(S) /\ Append(s, x) = s \o g /\ Elems(g) = {x}
      BY <1>1, AppendIsJoined
<1>3. CASE NameAsked(s, v) /\ IsTame(x)
  <2>1. Tame(g)
        BY <1>2, <1>3 DEF Tame
  <2>2. QED
        BY <1>2, <1>3, <2>1, NameAskedJoined
<1>4. CASE Unasked(s) /\ AsksName(x, v)
  <2>1. AskedAt(g, 1, v) /\ DOMAIN g = {1}
    <3>1. DOMAIN g = {1} /\ g[1] = x
          BY <1>1
    <3>2. \A i \in DOMAIN g : ~(i < 1) /\ ~(i > 1)
          BY <3>1
    <3>3. QED
          BY <1>4, <3>1, <3>2 DEF AskedAt
  <2>2. NameAsked(g, v)
        BY <2>1 DEF NameAsked
  <2>3. QED
        BY <1>2, <1>4, <2>2, NameAskedJoined
<1>5. QED
      BY <1>3, <1>4

\* In a queue of calls the name does not matter.
LEMMA NameAskedAnyway ==
    ASSUME NEW s, NEW v, NEW w, NameAsked(s, v), None(s, "reply")
    PROVE  NameAsked(s, w)
BY DEF NameAsked, AskedAt, AsksName, None

LEMMA OthersMore ==
    ASSUME NEW S, NEW s \in Seq(S), NEW x \in S
    PROVE  /\ Tame(s) /\ IsTame(x) => Tame(Append(s, x))
           /\ Unasked(s) /\ ~IsAsk(x) => Unasked(Append(s, x))
BY ElemsOfAppend DEF Tame, Unasked

LEMMA OthersRest ==
    ASSUME NEW S, NEW s \in Seq(S), s # <<>>
    PROVE  /\ Tame(s) => IsTame(Head(s)) /\ Tame(Tail(s))
           /\ Unasked(s) => ~IsAsk(Head(s)) /\ Unasked(Tail(s))
BY FirstAndRest DEF Tame, Unasked

LEMMA OthersJoined ==
    ASSUME NEW S, NEW s \in Seq(S), NEW T, NEW g \in Seq(T)
    PROVE  /\ Tame(s) /\ Tame(g) => Tame(s \o g)
           /\ Unasked(s) /\ Unasked(g) => Unasked(s \o g)
BY ElemsOfConcat DEF Tame, Unasked

\* A queue in which nothing but the permission is written.
LEMMA TameStands ==
    ASSUME NEW S, NEW s \in Seq(S), Tame(s), NEW b
    PROVE  \A l \in Leaf \ {Notifications} : Stand(s, Len(s), b)[l] = b[l]
<1>1. TAKE l \in Leaf \ {Notifications}
<1>2. \A x \in Elems(s) : ~Writes(x, l)
      BY DEF Tame, IsTame, Writes
<1>3. QED
      BY <1>2, UntouchedStands

-----------------------------------------------------------------------------
(* A device from its sign-in until the name is known.                      *)

\* The connection stands as long as the process.
LinkType  == online \in [Device -> BOOLEAN] /\ listens \in [Device -> BOOLEAN]
Linked(d) == held[d] = <<>> /\ (up[d] => online[d])

\* The question is to be sent, is on its way, or is answered.
ToSend(d)   == NameAsked(todo[d], record[DisplayName]) /\ Unasked(wire[d]) /\ Unasked(inbox[d])
Sent(d)     == Tame(todo[d]) /\ NameAsked(wire[d], record[DisplayName]) /\ Unasked(inbox[d])
Answered(d) == Tame(todo[d]) /\ Tame(wire[d]) /\ NameAsked(inbox[d], record[DisplayName])

Entering(d) == ToSend(d) \/ Sent(d) \/ Answered(d)

LEMMA CallsAreNoReplies ==
    ASSUME NEW G, NEW B, DatabaseInv(G, B), NEW d \in Device
    PROVE  None(todo[d], "reply") /\ None(wire[d], "reply")
<1>1. \A x \in Call(G, B[d]) : x.kind # "reply"
      BY DEF Call, GetData, SetValue, Observe
<1>2. todo[d] \in Seq(Call(G, B[d])) /\ wire[d] \in Seq(Call(G, B[d]))
      BY DEF DatabaseInv
<1>3. QED
      BY <1>1, <1>2 DEF None

\* The worker queue sends its first call.
LEMMA SendsEntering ==
    ASSUME NEW G, NEW B, DatabaseInv(G, B), NEW d \in Device, Entering(d), todo[d] # <<>>,
           NEW c, c = Head(todo[d]), todo'[d] = Tail(todo[d]),
           UNCHANGED <<record, inbox>>,
           \/ wire'[d] = wire[d] /\ ~IsAsk(c)
           \/ wire'[d] = Append(wire[d], c)
           \/ wire'[d] = Append(wire[d], Observe) /\ ~IsAsk(c)
    PROVE  Entering(d)'
<1>1. PICK C : C = Call(G, B[d])
      OBVIOUS
<1>2. todo[d] \in Seq(C) /\ wire[d] \in Seq(C) /\ Observe \in C
      BY <1>1, ObserveIsCall DEF DatabaseInv
<1>3. c \in C
      BY <1>2, HeadTailProperties
<1>4. IsTame(Observe) /\ ~IsAsk(Observe)
      BY DEF IsTame, IsAsk, Observe
<1>5. PICK v : v = record[DisplayName]
      OBVIOUS
<1>6. CASE ToSend(d)
  <2>1. CASE AsksName(c, v) /\ Tame(Tail(todo[d]))
    <3>1. wire'[d] = Append(wire[d], c)
          BY <2>1 DEF AsksName, IsName
    <3>2. NameAsked(Append(wire[d], c), v)
          BY <1>2, <1>3, <1>6, <2>1, NameAskedMore DEF ToSend
    <3>3. Sent(d)'
          BY <1>5, <1>6, <2>1, <3>1, <3>2 DEF ToSend, Sent
    <3>4. QED
          BY <3>3 DEF Entering
  <2>2. CASE ~IsAsk(c) /\ NameAsked(Tail(todo[d]), v)
    <3>1. Unasked(Append(wire[d], c)) /\ Unasked(Append(wire[d], Observe)) /\ Unasked(wire[d])
          BY <1>2, <1>3, <1>4, <1>6, <2>2, OthersMore DEF ToSend
    <3>2. ToSend(d)'
          BY <1>5, <1>6, <2>2, <3>1 DEF ToSend
    <3>3. QED
          BY <3>2 DEF Entering
  <2>3. QED
        BY <1>2, <1>5, <1>6, <2>1, <2>2, NameAskedRest DEF ToSend
<1>7. CASE Sent(d)
  <2>1. IsTame(c) /\ Tame(Tail(todo[d]))
        BY <1>2, <1>7, OthersRest DEF Sent
  <2>2. NameAsked(wire[d], v)
        BY <1>5, <1>7 DEF Sent
  <2>3. NameAsked(Append(wire[d], c), v) /\ NameAsked(Append(wire[d], Observe), v)
        BY <1>2, <1>3, <1>4, <2>1, <2>2, NameAskedMore
  <2>4. Sent(d)'
        BY <1>5, <1>7, <2>1, <2>2, <2>3 DEF Sent
  <2>5. QED
        BY <2>4 DEF Entering
<1>8. CASE Answered(d)
  <2>1. IsTame(c) /\ Tame(Tail(todo[d]))
        BY <1>2, <1>8, OthersRest DEF Answered
  <2>2. Tame(Append(wire[d], c)) /\ Tame(Append(wire[d], Observe)) /\ Tame(wire[d])
        BY <1>2, <1>3, <1>4, <1>8, <2>1, OthersMore DEF Answered
  <2>3. Answered(d)'
        BY <1>8, <2>1, <2>2 DEF Answered
  <2>4. QED
        BY <2>3 DEF Entering
<1>9. QED
      BY <1>6, <1>7, <1>8 DEF Entering

\* The app hears something else.
LEMMA HearsEntering ==
    ASSUME NEW G, NEW B, DatabaseInv(G, B), NEW d \in Device, Entering(d), inbox[d] # <<>>,
           ~IsAsk(Head(inbox[d])), inbox'[d] = Tail(inbox[d]),
           UNCHANGED <<record, todo, wire>>
    PROVE  Entering(d)'
<1>1. inbox[d] \in Seq(Message(G, B[d]))
      BY DEF DatabaseInv
<1>2. Unasked(inbox[d]) => Unasked(inbox'[d])
      BY <1>1, OthersRest
<1>3. CASE NameAsked(inbox[d], record[DisplayName])
  <2>1. NameAsked(inbox'[d], record[DisplayName])
        BY <1>1, <1>3, NameAskedRest DEF AsksName, IsName
  <2>2. QED
        BY <1>2, <1>3, <2>1 DEF Entering, ToSend, Sent, Answered
<1>4. CASE ToSend(d) \/ Sent(d)
      BY <1>2, <1>4 DEF Entering, ToSend, Sent
<1>5. QED
      BY <1>3, <1>4 DEF Entering, Answered

\* The server takes a request.
LEMMA ServedEntering ==
    ASSUME NEW G, NEW B, DatabaseInv(G, B), NEW d \in Device, Entering(d), up[d],
           ServerStep(d)
    PROVE  Entering(d)'
<1>1. PICK C, h : C = Call(G, B[d]) /\ h = Head(wire[d])
      OBVIOUS
<1>2. /\ wire[d] \in Seq(C) /\ wire[d] # <<>> /\ h \in C
      /\ wire'[d] = Tail(wire[d]) /\ todo' = todo
      BY <1>1, HeadTailProperties
         DEF ServerStep, ServeWrite, ServeGet, ServeListen, Reachable, DatabaseInv
<1>3. PICK M : M = Message(G, B[d]) \cup {Event(record),
                        Reply(h.then, [l \in h.leaves |-> record[l]])}
      OBVIOUS
<1>4. inbox[d] \in Seq(M)
  <2>1. inbox[d] \in Seq(Message(G, B[d]))
        BY DEF DatabaseInv
  <2>2. QED
        BY <1>3, <2>1, SeqWidens
<1>5. PICK m, r : m = Event(record) /\ r = Reply(h.then, [l \in h.leaves |-> record[l]])
      OBVIOUS
<1>6. m \in M /\ r \in M /\ ~IsAsk(m) /\ IsTame(m)
      BY <1>3, <1>5 DEF Event, IsAsk, IsTame
<1>7. h.kind # "reply" /\ None(todo[d], "reply") /\ None(wire'[d], "reply")
  <2>1. h.kind # "reply"
        BY <1>1, <1>2 DEF Call, GetData, SetValue, Observe
  <2>2. None(todo[d], "reply") /\ None(wire[d], "reply")
        BY CallsAreNoReplies
  <2>3. None(wire'[d], "reply")
    <3>1. \A x \in Elems(wire'[d]) : x.kind # "reply"
          BY <1>2, <2>2, FirstAndRest DEF None, Elems
    <3>2. QED
          BY <3>1 DEF None, Elems
  <2>4. QED
        BY <2>1, <2>2, <2>3
\* What is no question, and what is one.
<1>8. CASE ~IsAsk(h)
  <2>1. ServeWrite(d) \/ ServeListen(d)
        BY <1>1, <1>8 DEF ServerStep, ServeGet, IsAsk
  <2>2. Unasked(inbox[d]) => Unasked(inbox'[d])
    <3>1. CASE ServeWrite(d)
      <4>1. PICK w : inbox'[d] = inbox[d] \o Notices(d, d, w)
            BY <3>1 DEF ServeWrite, DatabaseInv
      <4>2. ~IsAsk(Event(w)) /\ ~IsAsk(Ack)
            BY DEF IsAsk, Event, Ack
      <4>3. Unasked(Notices(d, d, w)) /\ \E S : Notices(d, d, w) \in Seq(S)
            BY <4>2, NoticesAskNothing DEF Unasked
      <4>4. QED
            BY <1>4, <4>1, <4>3, OthersJoined
    <3>2. CASE ServeListen(d)
      <4>1. inbox'[d] = Append(inbox[d], m)
            BY <1>5, <3>2 DEF ServeListen, DatabaseInv
      <4>2. QED
            BY <1>4, <1>6, <4>1, OthersMore
    <3>3. QED
          BY <2>1, <3>1, <3>2
  <2>3. CASE ToSend(d)
    <3>1. Unasked(wire'[d]) /\ Unasked(inbox'[d])
          BY <1>2, <2>2, <2>3, OthersRest DEF ToSend
    <3>2. NameAsked(todo'[d], record'[DisplayName])
          BY <1>2, <1>7, <2>3, NameAskedAnyway DEF ToSend
    <3>3. QED
          BY <3>1, <3>2 DEF Entering, ToSend
  <2>4. CASE Sent(d)
    <3>1. NameAsked(wire'[d], record[DisplayName])
          BY <1>1, <1>2, <1>8, <2>4, NameAskedRest DEF Sent, AsksName, IsName
    <3>2. NameAsked(wire'[d], record'[DisplayName])
          BY <1>7, <3>1, NameAskedAnyway
    <3>3. QED
          BY <1>2, <2>2, <2>4, <3>2 DEF Entering, Sent
  <2>5. CASE Answered(d)
    <3>1. IsTame(h) /\ Tame(wire'[d])
          BY <1>1, <1>2, <2>5, OthersRest DEF Answered
    <3>2. PICK v : v = record[DisplayName] /\ NameAsked(inbox[d], v)
          BY <2>5 DEF Answered
    <3>3. CASE ServeListen(d)
      <4>1. inbox'[d] = Append(inbox[d], m) /\ record' = record
            BY <1>5, <3>3 DEF ServeListen, DatabaseInv
      <4>2. NameAsked(inbox'[d], v)
            BY <1>4, <1>6, <3>2, <4>1, NameAskedMore
      <4>3. QED
            BY <1>2, <2>5, <3>1, <3>2, <4>1, <4>2 DEF Entering, Answered
    <3>4. CASE ServeWrite(d)
      <4>1. DOMAIN h.write = {Notifications} /\ record' = Overlay(record, h.write)
            BY <1>1, <3>1, <3>4 DEF ServeWrite, IsTame
      <4>2. record'[DisplayName] = v
        <5>1. DisplayName \in Leaf \ {Notifications}
              BY FieldIsLeaf
        <5>2. DOMAIN record = Leaf
              BY RecordIsARow
        <5>3. QED
              BY <3>2, <4>1, <5>1, <5>2 DEF Overlay
      <4>3. inbox'[d] = inbox[d] \o Notices(d, d, h.write)
            BY <1>1, <3>4 DEF ServeWrite, DatabaseInv
      <4>4. Tame(Notices(d, d, h.write)) /\ \E S : Notices(d, d, h.write) \in Seq(S)
        <5>1. IsTame(Event(h.write)) /\ IsTame(Ack)
              BY DEF IsTame, IsAsk, Event, Ack
        <5>2. QED
              BY <5>1, NoticesAskNothing DEF Tame
      <4>5. NameAsked(inbox'[d], v)
            BY <1>4, <3>2, <4>3, <4>4, NameAskedJoined
      <4>6. QED
            BY <1>2, <2>5, <3>1, <4>2, <4>5 DEF Entering, Answered
    <3>5. QED
          BY <2>1, <3>3, <3>4
  <2>6. QED
        BY <2>3, <2>4, <2>5 DEF Entering
<1>9. CASE IsAsk(h)
  <2>1. ServeGet(d) /\ h.kind = "get"
        BY <1>1, <1>7, <1>9 DEF ServerStep, ServeWrite, ServeListen, IsAsk
  <2>2. inbox'[d] = Append(inbox[d], r) /\ record' = record
        BY <1>1, <1>5, <2>1 DEF ServeGet, DatabaseInv
  <2>3. r.kind = "reply" /\ r.then = h.then /\ r.snap = [l \in h.leaves |-> record[l]]
        BY <1>5 DEF Reply
  <2>4. ~ToSend(d)
        BY <1>1, <1>2, <1>9, OthersRest DEF ToSend
  <2>5. CASE Sent(d)
    <3>1. AsksName(h, record[DisplayName]) /\ Tame(wire'[d])
          BY <1>1, <1>2, <1>9, <2>5, NameAskedRest DEF Sent
    <3>2. r.snap = [l \in {DisplayName} |-> record[l]] /\ IsName(r)
          BY <2>1, <2>3, <3>1 DEF AsksName, IsName, IsAsk
    <3>3. Exists(r.snap) <=> record[DisplayName] # Absent
          BY <3>2 DEF Exists
    <3>4. AsksName(r, record[DisplayName])
          BY <2>3, <3>2, <3>3 DEF AsksName
    <3>5. NameAsked(inbox'[d], record[DisplayName])
          BY <1>4, <1>6, <2>2, <2>5, <3>4, NameAskedMore DEF Sent
    <3>6. QED
          BY <1>2, <2>2, <2>5, <3>1, <3>5 DEF Entering, Sent, Answered
  <2>6. CASE Answered(d)
    <3>1. IsTame(h) /\ Tame(wire'[d])
          BY <1>1, <1>2, <2>6, OthersRest DEF Answered
    <3>2. IsTame(r)
          BY <1>9, <2>3, <3>1 DEF IsTame
    <3>3. NameAsked(inbox'[d], record[DisplayName])
          BY <1>4, <1>6, <2>2, <2>6, <3>2, NameAskedMore DEF Answered
    <3>4. QED
          BY <1>2, <2>2, <2>6, <3>1, <3>3 DEF Entering, Answered
  <2>7. QED
        BY <2>4, <2>5, <2>6 DEF Entering
<1>10. QED
       BY <1>8, <1>9

\* The worker queue with a connection.
LEMMA ClientEntering ==
    ASSUME NEW G, NEW B, DatabaseInv(G, B), NEW d \in Device, Entering(d), Linked(d), up[d],
           ClientStep(d)
    PROVE  Entering(d)'
<1>1. ASSUME NEW c \in First(todo[d])
      PROVE  todo[d] # <<>> /\ c = Head(todo[d])
      BY <1>1 DEF First
<1>2. CASE ExecuteWrite(d)
  <2>1. PICK c \in First(todo[d]) : c.kind = "put" /\ wire' = [wire EXCEPT ![d] = Append(@, c)]
        BY <1>2 DEF ExecuteWrite
  <2>2. /\ wire'[d] = Append(wire[d], c) /\ todo'[d] = Tail(todo[d])
        /\ UNCHANGED <<record, inbox>>
        BY <1>2, <2>1 DEF ExecuteWrite, DatabaseInv
  <2>3. QED
        BY <1>1, <2>1, <2>2, SendsEntering
<1>3. CASE ExecuteGet(d)
  <2>1. PICK c \in First(todo[d]) : wire' = [wire EXCEPT ![d] = Append(@, c)]
        BY <1>3 DEF ExecuteGet
  <2>2. /\ wire'[d] = Append(wire[d], c) /\ todo'[d] = Tail(todo[d])
        /\ UNCHANGED <<record, inbox>>
        BY <1>3, <2>1 DEF ExecuteGet, DatabaseInv
  <2>3. QED
        BY <1>1, <2>1, <2>2, SendsEntering
<1>4. CASE ExecuteListen(d)
  <2>1. PICK c \in First(todo[d]) : c.kind = "listen"
        BY <1>4 DEF ExecuteListen
  <2>2. /\ todo'[d] = Tail(todo[d]) /\ ~IsAsk(c) /\ UNCHANGED <<record, inbox>>
        /\ wire'[d] = wire[d] \/ wire'[d] = Append(wire[d], Observe)
        BY <1>4, <2>1 DEF ExecuteListen, DatabaseInv, IsAsk
  <2>3. QED
        BY <1>1, <2>1, <2>2, SendsEntering
<1>5. CASE ReceiveAck(d)
  <2>1. /\ inbox[d] # <<>> /\ ~IsAsk(Head(inbox[d])) /\ inbox'[d] = Tail(inbox[d])
        /\ UNCHANGED <<record, todo, wire>>
        BY <1>5 DEF ReceiveAck, First, IsAsk, DatabaseInv
  <2>2. QED
        BY <2>1, HearsEntering
<1>6. ~HoldGet(d) /\ ~TimeOut(d)
      BY DEF Linked, HoldGet, TimeOut
<1>7. QED
      BY <1>2, <1>3, <1>4, <1>5, <1>6 DEF ClientStep

LEMMA EventEntering ==
    ASSUME NEW G, NEW B, DatabaseInv(G, B), NEW d \in Device, Entering(d), ReceiveEvent(d)
    PROVE  Entering(d)'
<1>1. /\ inbox[d] # <<>> /\ ~IsAsk(Head(inbox[d])) /\ inbox'[d] = Tail(inbox[d])
      /\ UNCHANGED <<record, todo, wire>>
      BY DEF ReceiveEvent, First, IsAsk, DatabaseInv
<1>2. QED
      BY <1>1, HearsEntering

-----------------------------------------------------------------------------
(* What the client of the only phone knows of a leaf is so, or will be by  *)
(* its own writes.                                                         *)

\* A message that tells a value of leaf l; the first data message of a queue.
News(x, l)  == x.kind = "event" /\ l \in DOMAIN x.write
Opens(s, i) == \A j \in DOMAIN s : j < i => s[j].kind # "event"
Told(s)     == \E i \in DOMAIN s : s[i].kind = "event"

\* The news at place i is of a write that is still pending: its acknowledgement
\* comes right after it.
Own(s, i, p, l) ==
    /\ Cardinality(Upto(s, "ack", i)) + 1 \in DOMAIN p
    /\ l \in DOMAIN p[Cardinality(Upto(s, "ack", i)) + 1]

\* The answer to the listen covers the leaf, all other news is the client's own.
Expected(s, i, p, c, l) ==
    /\ c = Absent /\ Opens(s, i) => l \in DOMAIN s[i].write
    /\ ~(c = Absent /\ Opens(s, i)) => (News(s[i], l) => Own(s, i, p, l))

\* What the last news says, or the cache when there is none, is the server's value v.
LastNews(s, i, l) ==
    News(s[i], l) /\ \A j \in DOMAIN s : j > i => ~News(s[j], l)

Fresh(s, p, c, l, v) ==
    /\ \A i \in DOMAIN s : s[i].kind = "event" => Expected(s, i, p, c, l)
    /\ \A i \in DOMAIN s : LastNews(s, i, l) => s[i].write[l] = v
    /\ c # Absent /\ (\A i \in DOMAIN s : ~News(s[i], l)) => c[l] = v

\* A queue with one more message, and what stays of it.
LEMMA MoreToHear ==
    ASSUME NEW S, NEW s \in Seq(S), NEW x \in S, NEW t \in Seq(S), Longer(s, x, t)
    PROVE  /\ Len(s) \in Nat /\ DOMAIN s = 1..Len(s) /\ DOMAIN t = 1..(Len(s) + 1)
           /\ t[Len(s) + 1] = x /\ \A i \in 1..Len(s) : t[i] = s[i]
           /\ \A i \in 1..Len(s) : Upto(t, "ack", i) = Upto(s, "ack", i)
           /\ \A i \in 1..Len(s) : Opens(t, i) <=> Opens(s, i)
           /\ Opens(t, Len(s) + 1) <=> ~Told(s)
           /\ x.kind # "ack" => Upto(t, "ack", Len(s) + 1) = Calls(s, "ack")
<1>1. PICK n \in Nat : n = Len(s) /\ DOMAIN s = 1..n
      BY LenProperties
<1>2. DOMAIN t = 1..(n + 1) /\ t[n + 1] = x /\ \A i \in 1..n : t[i] = s[i]
      BY <1>1, LenProperties DEF Longer
<1>3. \A i \in 1..n : i \in 1..(n + 1) /\ i < n + 1
      OBVIOUS
<1>4. \A i \in 1..(n + 1) : i \in 1..n \/ i = n + 1
      OBVIOUS
<1>5. ASSUME NEW i \in 1..n
      PROVE  Upto(t, "ack", i) = Upto(s, "ack", i) /\ (Opens(t, i) <=> Opens(s, i))
  <2>1. \A j \in 1..(n + 1) : j <= i => j \in 1..n
        OBVIOUS
  <2>2. \A j \in 1..(n + 1) : j < i => j \in 1..n
        OBVIOUS
  <2>3. Upto(t, "ack", i) \subseteq Upto(s, "ack", i)
        BY <1>1, <1>2, <2>1 DEF Upto, Calls
  <2>4. Upto(s, "ack", i) \subseteq Upto(t, "ack", i)
        BY <1>1, <1>2, <1>3 DEF Upto, Calls
  <2>5. Opens(t, i) <=> Opens(s, i)
        BY <1>1, <1>2, <1>3, <2>2 DEF Opens
  <2>6. QED
        BY <2>3, <2>4, <2>5
<1>6. Opens(t, n + 1) <=> ~Told(s)
  <2>1. \A j \in 1..(n + 1) : j < n + 1 => j \in 1..n
        OBVIOUS
  <2>2. QED
        BY <1>1, <1>2, <1>3, <2>1 DEF Opens, Told
<1>7. ASSUME x.kind # "ack"
      PROVE  Upto(t, "ack", n + 1) = Calls(s, "ack")
  <2>1. Upto(t, "ack", n + 1) \subseteq Calls(s, "ack")
        BY <1>1, <1>2, <1>4, <1>7 DEF Upto, Calls
  <2>2. \A i \in 1..n : i <= n + 1
        OBVIOUS
  <2>3. Calls(s, "ack") \subseteq Upto(t, "ack", n + 1)
        BY <1>1, <1>2, <1>3, <2>2 DEF Upto, Calls
  <2>4. QED
        BY <2>1, <2>3
<1>8. QED
      BY <1>1, <1>2, <1>5, <1>6, <1>7

\* Another message comes.
LEMMA OtherFresh ==
    ASSUME NEW S, NEW s \in Seq(S), NEW x \in S, NEW t \in Seq(S), Longer(s, x, t),
           x.kind # "event", NEW p, NEW c, NEW l, NEW v, Fresh(s, p, c, l, v)
    PROVE  Fresh(t, p, c, l, v) /\ (Told(t) <=> Told(s))
<1>1. PICK n \in Nat : n = Len(s) /\ DOMAIN s = 1..n /\ DOMAIN t = 1..(n + 1)
      BY MoreToHear
<1>2. /\ t[n + 1] = x /\ \A i \in 1..n : t[i] = s[i] /\ i \in 1..(n + 1)
      /\ \A i \in 1..n : Upto(t, "ack", i) = Upto(s, "ack", i)
      /\ \A i \in 1..n : Opens(t, i) <=> Opens(s, i)
  <2>1. \A i \in 1..n : i \in 1..(n + 1)
        OBVIOUS
  <2>2. QED
        BY <1>1, <2>1, MoreToHear
<1>3. \A i \in 1..(n + 1) : i \in 1..n \/ i = n + 1
      OBVIOUS
<1>4. \A i \in 1..(n + 1) : t[i].kind = "event" => i \in 1..n
      BY <1>2, <1>3
<1>5. ASSUME NEW i \in 1..(n + 1), t[i].kind = "event"
      PROVE  Expected(t, i, p, c, l)
  <2>1. i \in 1..n /\ s[i].kind = "event"
        BY <1>2, <1>4, <1>5
  <2>2. Expected(s, i, p, c, l)
        BY <1>1, <2>1 DEF Fresh
  <2>3. QED
        BY <1>2, <2>1, <2>2 DEF Expected, News, Own
<1>6. ASSUME NEW i \in 1..(n + 1), LastNews(t, i, l)
      PROVE  t[i].write[l] = v
  <2>1. i \in 1..n
        BY <1>4, <1>6 DEF LastNews, News
  <2>2. LastNews(s, i, l)
        BY <1>1, <1>2, <1>6, <2>1 DEF LastNews, News
  <2>3. QED
        BY <1>1, <1>2, <2>1, <2>2 DEF Fresh
<1>7. ASSUME c # Absent, \A i \in 1..(n + 1) : ~News(t[i], l)
      PROVE  c[l] = v
  <2>1. \A i \in 1..n : ~News(s[i], l)
        BY <1>2, <1>7
  <2>2. QED
        BY <1>1, <1>7, <2>1 DEF Fresh
<1>8. Told(t) <=> Told(s)
      BY <1>1, <1>2, <1>4 DEF Told
<1>9. QED
      BY <1>1, <1>5, <1>6, <1>7, <1>8 DEF Fresh

\* News comes: the answer to the listen, or of the client's own write.
LEMMA NewsFresh ==
    ASSUME NEW S, NEW s \in Seq(S), NEW x \in S, NEW t \in Seq(S), Longer(s, x, t),
           x.kind = "event", NEW p, NEW c, NEW l, NEW v, Fresh(s, p, c, l, v),
           NEW z, z = IF l \in DOMAIN x.write THEN x.write[l] ELSE v,
           c = Absent /\ ~Told(s) => l \in DOMAIN x.write,
           ~(c = Absent /\ ~Told(s)) /\ l \in DOMAIN x.write =>
               Acks(s) + 1 \in DOMAIN p /\ l \in DOMAIN p[Acks(s) + 1]
    PROVE  Fresh(t, p, c, l, z) /\ Told(t)
<1>1. PICK n \in Nat : n = Len(s) /\ DOMAIN s = 1..n /\ DOMAIN t = 1..(n + 1)
      BY MoreToHear
<1>2. /\ t[n + 1] = x /\ \A i \in 1..n : t[i] = s[i]
      /\ \A i \in 1..n : Upto(t, "ack", i) = Upto(s, "ack", i)
      /\ \A i \in 1..n : Opens(t, i) <=> Opens(s, i)
      /\ Opens(t, n + 1) <=> ~Told(s)
      /\ Upto(t, "ack", n + 1) = Calls(s, "ack")
      BY <1>1, MoreToHear
<1>3. /\ \A i \in 1..(n + 1) : i \in 1..n \/ i = n + 1
      /\ \A i \in 1..n : i \in 1..(n + 1) /\ n + 1 > i
      /\ n + 1 \in 1..(n + 1) /\ \A j \in 1..(n + 1) : ~(j > n + 1)
      OBVIOUS
<1>4. Expected(t, n + 1, p, c, l)
      BY <1>2 DEF Expected, News, Own, Acks
<1>5. ASSUME NEW i \in 1..n, t[i].kind = "event"
      PROVE  Expected(t, i, p, c, l)
  <2>1. s[i].kind = "event" /\ i \in DOMAIN s
        BY <1>1, <1>2, <1>5
  <2>2. Expected(s, i, p, c, l)
        BY <2>1 DEF Fresh
  <2>3. QED
        BY <1>2, <2>1, <2>2 DEF Expected, News, Own
<1>6. CASE l \in DOMAIN x.write
  <2>1. News(t[n + 1], l) /\ z = t[n + 1].write[l]
        BY <1>2, <1>6 DEF News
  <2>2. \A i \in 1..(n + 1) : LastNews(t, i, l) => i = n + 1
        BY <1>1, <1>3, <2>1 DEF LastNews
  <2>3. QED
        BY <1>1, <1>3, <1>4, <1>5, <2>1, <2>2, <1>2 DEF Fresh, Told
<1>7. CASE l \notin DOMAIN x.write
  <2>1. ~News(t[n + 1], l) /\ z = v
        BY <1>2, <1>7 DEF News
  <2>2. ASSUME NEW i \in 1..(n + 1), LastNews(t, i, l)
        PROVE  t[i].write[l] = v
    <3>1. i \in 1..n
          BY <1>3, <2>1, <2>2 DEF LastNews
    <3>2. LastNews(s, i, l)
          BY <1>1, <1>2, <1>3, <2>2, <3>1 DEF LastNews
    <3>3. QED
          BY <1>1, <1>2, <3>1, <3>2 DEF Fresh
  <2>3. ASSUME c # Absent, \A i \in 1..(n + 1) : ~News(t[i], l)
        PROVE  c[l] = v
    <3>1. \A i \in 1..n : ~News(s[i], l)
          BY <1>2, <1>3, <2>3
    <3>2. QED
          BY <1>1, <2>3, <3>1 DEF Fresh
  <2>4. QED
        BY <1>1, <1>2, <1>3, <1>4, <1>5, <2>1, <2>2, <2>3 DEF Fresh, Told
<1>8. QED
      BY <1>6, <1>7

\* A message is processed, and what stays of the queue.
LEMMA LessToHear ==
    ASSUME NEW S, NEW s \in Seq(S), NEW t \in Seq(S), Shorter(s, t)
    PROVE  /\ Len(t) \in Nat /\ DOMAIN t = 1..Len(t) /\ DOMAIN s = 1..(Len(t) + 1)
           /\ \A i \in 1..Len(t) : t[i] = s[i + 1] /\ i + 1 \in 1..(Len(t) + 1)
           /\ \A i \in 1..Len(t) :
                 /\ Cardinality(Upto(s, "ack", i + 1)) \in Nat
                 /\ Cardinality(Upto(t, "ack", i)) =
                       Cardinality(Upto(s, "ack", i + 1)) - One(s, "ack")
                 /\ Opens(s, i + 1) <=> s[1].kind # "event" /\ Opens(t, i)
           /\ Told(s) <=> s[1].kind = "event" \/ Told(t)
<1>1. PICK n \in Nat : n = Len(t) /\ DOMAIN t = 1..n /\ DOMAIN s = 1..(n + 1)
  <2>1. /\ Len(s) \in Nat /\ DOMAIN s = 1..Len(s)
        /\ Len(t) \in Nat /\ DOMAIN t = 1..Len(t)
        BY LenProperties
  <2>2. Len(t) + 1 = Len(s)
        BY <2>1 DEF Shorter
  <2>3. QED
        BY <2>1, <2>2
<1>2. \A i \in 1..n : t[i] = s[i + 1] /\ i + 1 \in 1..(n + 1)
      BY <1>1 DEF Shorter
<1>3. \A i \in 1..n : /\ Cardinality(Upto(s, "ack", i + 1)) \in Nat
                      /\ Cardinality(Upto(t, "ack", i)) =
                            Cardinality(Upto(s, "ack", i + 1)) - One(s, "ack")
  <2>1. \A i \in 1..n : i \in 0..Len(t)
        BY <1>1
  <2>2. QED
        BY <2>1, UptoOfTail, CallsAreCounted
<1>4. \A j \in 1..(n + 1) : j = 1 \/ (j - 1 \in 1..n /\ (j - 1) + 1 = j)
      OBVIOUS
<1>5. 1 \in 1..(n + 1)
      OBVIOUS
<1>6. ASSUME NEW i \in 1..n
      PROVE  Opens(s, i + 1) <=> s[1].kind # "event" /\ Opens(t, i)
  <2>1. 1 < i + 1 /\ \A j \in 1..n : (j < i <=> j + 1 < i + 1)
        OBVIOUS
  <2>2. ASSUME Opens(s, i + 1)
        PROVE  s[1].kind # "event" /\ Opens(t, i)
        BY <1>1, <1>2, <1>5, <2>1, <2>2 DEF Opens
  <2>3. ASSUME s[1].kind # "event", Opens(t, i)
        PROVE  Opens(s, i + 1)
    <3>1. ASSUME NEW j \in 1..(n + 1), j < i + 1
          PROVE  s[j].kind # "event"
      <4>1. CASE j = 1
            BY <2>3, <4>1
      <4>2. CASE j # 1
        <5>1. j - 1 \in 1..n /\ (j - 1) + 1 = j /\ j - 1 < i
              BY <3>1, <4>2
        <5>2. s[j] = t[j - 1]
              BY <1>2, <5>1
        <5>3. QED
              BY <1>1, <2>3, <5>1, <5>2 DEF Opens
      <4>3. QED
            BY <4>1, <4>2
    <3>2. QED
          BY <1>1, <3>1 DEF Opens
  <2>4. QED
        BY <2>2, <2>3
<1>7. Told(s) <=> s[1].kind = "event" \/ Told(t)
  <2>1. ASSUME NEW j \in 1..(n + 1), s[j].kind = "event", s[1].kind # "event"
        PROVE  Told(t)
    <3>1. j - 1 \in 1..n /\ (j - 1) + 1 = j
          BY <1>4, <2>1
    <3>2. t[j - 1].kind = "event"
          BY <1>2, <2>1, <3>1
    <3>3. QED
          BY <1>1, <3>1, <3>2 DEF Told
  <2>2. ASSUME NEW j \in 1..n, t[j].kind = "event"
        PROVE  Told(s)
    <3>1. j + 1 \in 1..(n + 1) /\ s[j + 1].kind = "event"
          BY <1>2, <2>2
    <3>2. QED
          BY <1>1, <3>1 DEF Told
  <2>3. QED
        BY <1>1, <1>5, <2>1, <2>2 DEF Told
<1>8. QED
      BY <1>1, <1>2, <1>3, <1>6, <1>7

\* What is left to be heard is expected.
LEMMA RestExpected ==
    ASSUME NEW S, NEW s \in Seq(S), NEW t \in Seq(S), Shorter(s, t),
           NEW P, NEW p \in Seq(P), NEW c, NEW l, NEW v, Fresh(s, p, c, l, v),
           NEW q \in Seq(P), NEW e,
           \/ s[1].kind = "ack" /\ Shorter(p, q) /\ e = c
           \/ s[1].kind # "ack" /\ s[1].kind # "event" /\ q = p /\ e = c
           \/ s[1].kind = "event" /\ q = p /\ e # Absent,
           NEW i \in DOMAIN t, t[i].kind = "event"
    PROVE  Expected(t, i, q, e, l)
<1>1. PICK n \in Nat : n = Len(t) /\ DOMAIN t = 1..n /\ DOMAIN s = 1..(n + 1)
      BY LessToHear
<1>2. PICK a, b : /\ a \in Nat /\ a = Cardinality(Upto(s, "ack", i + 1))
                /\ b = Cardinality(Upto(t, "ack", i))
      BY <1>1, LessToHear
<1>3. /\ i \in 1..n /\ t[i] = s[i + 1] /\ i + 1 \in 1..(n + 1)
      /\ b = a - One(s, "ack")
      /\ Opens(s, i + 1) <=> s[1].kind # "event" /\ Opens(t, i)
      BY <1>1, <1>2, LessToHear
<1>4. Expected(s, i + 1, p, c, l)
      BY <1>1, <1>3 DEF Fresh
<1>5. CASE s[1].kind # "ack"
  <2>1. b = a /\ q = p
        BY <1>2, <1>3, <1>5 DEF One
  <2>2. Own(s, i + 1, p, l) => Own(t, i, q, l)
        BY <1>2, <2>1 DEF Own
  <2>3. s[1].kind = "event" => ~Opens(s, i + 1)
        BY <1>3
  <2>4. s[1].kind = "event" => e # Absent
        BY <1>5
  <2>5. s[1].kind # "event" => e = c
        BY <1>5
  <2>6. QED
        BY <1>3, <1>4, <2>2, <2>3, <2>4, <2>5 DEF Expected
<1>6. CASE s[1].kind = "ack"
  <2>1. b = a - 1 /\ Shorter(p, q) /\ e = c
        BY <1>3, <1>6 DEF One
  <2>2. b \in Nat
    <3>1. IsFiniteSet(Upto(t, "ack", i)) /\ Cardinality(Upto(t, "ack", i)) \in Nat
          BY CallsAreCounted
    <3>2. QED
          BY <1>2, <3>1
  <2>3. ASSUME Own(s, i + 1, p, l)
        PROVE  Own(t, i, q, l)
    <3>1. a + 1 \in DOMAIN p /\ l \in DOMAIN p[a + 1]
          BY <1>2, <2>3 DEF Own
    <3>2. DOMAIN p = 1..Len(p) /\ Len(p) \in Nat
          BY LenProperties
    <3>3. Len(q) = Len(p) - 1 /\ \A j \in 1..Len(q) : q[j] = p[j + 1]
          BY <2>1 DEF Shorter
    <3>4. b + 1 \in 1..Len(q) /\ (b + 1) + 1 = a + 1
          BY <1>2, <2>1, <2>2, <3>1, <3>2, <3>3
    <3>5. q[b + 1] = p[a + 1]
          BY <3>3, <3>4
    <3>6. DOMAIN q = 1..Len(q)
          BY LenProperties
    <3>7. QED
          BY <1>2, <3>1, <3>4, <3>5, <3>6 DEF Own
  <2>4. QED
        BY <1>3, <1>4, <1>6, <2>1, <2>3 DEF Expected
<1>7. QED
      BY <1>5, <1>6

LEMMA RestFresh ==
    ASSUME NEW S, NEW s \in Seq(S), NEW t \in Seq(S), Shorter(s, t),
           NEW P, NEW p \in Seq(P), NEW c, NEW l, NEW v, Fresh(s, p, c, l, v),
           NEW q \in Seq(P), NEW e, NEW b,
           \/ s[1].kind = "ack" /\ Shorter(p, q) /\ e = c
           \/ s[1].kind # "ack" /\ s[1].kind # "event" /\ q = p /\ e = c
           \/ s[1].kind = "event" /\ q = p /\ e # Absent,
           s[1].kind = "event" =>
               e[l] = IF l \in DOMAIN s[1].write THEN s[1].write[l] ELSE b,
           c # Absent => b = c[l]
    PROVE  Fresh(t, q, e, l, v)
<1>1. PICK n \in Nat : n = Len(t) /\ DOMAIN t = 1..n /\ DOMAIN s = 1..(n + 1)
      BY LessToHear
<1>2. \A i \in 1..n : t[i] = s[i + 1] /\ i + 1 \in 1..(n + 1)
      BY <1>1, LessToHear
<1>3. \A i \in 1..n : t[i].kind = "event" => Expected(t, i, q, e, l)
      BY <1>1, RestExpected
<1>4. \A j \in 1..(n + 1) : j = 1 \/ (j - 1 \in 1..n /\ (j - 1) + 1 = j)
      OBVIOUS
<1>5. ASSUME NEW i \in 1..n, LastNews(t, i, l)
      PROVE  t[i].write[l] = v
  <2>1. i + 1 \in 1..(n + 1) /\ t[i] = s[i + 1] /\ News(s[i + 1], l)
        BY <1>2, <1>5 DEF LastNews
  <2>2. ASSUME NEW j \in 1..(n + 1), j > i + 1
        PROVE  ~News(s[j], l)
    <3>1. j # 1
          BY <2>2
    <3>2. j - 1 \in 1..n /\ (j - 1) + 1 = j /\ j - 1 > i
          BY <1>4, <2>2, <3>1
    <3>3. s[j] = t[j - 1]
          BY <1>2, <3>2
    <3>4. QED
          BY <1>1, <1>5, <3>2, <3>3 DEF LastNews
  <2>3. LastNews(s, i + 1, l)
        BY <1>1, <2>1, <2>2 DEF LastNews
  <2>4. QED
        BY <1>1, <2>1, <2>3 DEF Fresh
<1>6. ASSUME e # Absent, \A i \in 1..n : ~News(t[i], l)
      PROVE  e[l] = v
  <2>1. \A j \in 1..(n + 1) : j # 1 => ~News(s[j], l)
    <3>1. \A j \in 1..(n + 1) : j # 1 => s[j] = t[j - 1]
          BY <1>2, <1>4
    <3>2. QED
          BY <1>4, <1>6, <3>1
  <2>2. 1 \in 1..(n + 1) /\ \A j \in 1..(n + 1) : j > 1 => j # 1
        OBVIOUS
  <2>3. CASE News(s[1], l)
    <3>1. LastNews(s, 1, l)
          BY <1>1, <2>1, <2>2, <2>3 DEF LastNews
    <3>2. s[1].write[l] = v
          BY <1>1, <2>2, <3>1 DEF Fresh
    <3>3. QED
          BY <2>3, <3>2 DEF News
  <2>4. CASE ~News(s[1], l)
    <3>1. \A j \in 1..(n + 1) : ~News(s[j], l)
          BY <2>1, <2>4
    <3>2. c # Absent => c[l] = v
          BY <1>1, <3>1 DEF Fresh
    <3>3. CASE s[1].kind # "event"
          BY <1>6, <3>2, <3>3
    <3>4. CASE s[1].kind = "event"
      <4>1. l \notin DOMAIN s[1].write
            BY <2>4, <3>4 DEF News
      <4>2. \A j \in DOMAIN s : ~(j < 1)
            BY <1>1
      <4>3. Opens(s, 1)
            BY <4>2 DEF Opens
      <4>4. Expected(s, 1, p, c, l)
            BY <1>1, <2>2, <3>4 DEF Fresh
      <4>5. c # Absent
            BY <4>1, <4>3, <4>4 DEF Expected
      <4>6. QED
            BY <3>2, <3>4, <4>1, <4>5
    <3>5. QED
          BY <3>3, <3>4
  <2>5. QED
        BY <2>3, <2>4
<1>7. QED
      BY <1>1, <1>3, <1>5, <1>6 DEF Fresh

\* A write is remembered.
LEMMA PutFresh ==
    ASSUME NEW s, NEW P, NEW p \in Seq(P), NEW x, NEW q \in Seq(P), Longer(p, x, q),
           NEW c, NEW l, NEW v, Fresh(s, p, c, l, v)
    PROVE  Fresh(s, q, c, l, v)
<1>1. PICK n \in Nat : n = Len(p) /\ DOMAIN p = 1..n
      BY LenProperties
<1>2. DOMAIN q = 1..(n + 1) /\ \A i \in 1..n : q[i] = p[i] /\ i \in 1..(n + 1)
  <2>1. \A i \in 1..n : i \in 1..(n + 1)
        OBVIOUS
  <2>2. QED
        BY <1>1, <2>1, LenProperties DEF Longer
<1>3. \A i : Own(s, i, p, l) => Own(s, i, q, l)
      BY <1>1, <1>2 DEF Own
<1>4. \A i \in DOMAIN s : Expected(s, i, p, c, l) => Expected(s, i, q, c, l)
      BY <1>3 DEF Expected
<1>5. QED
      BY <1>4 DEF Fresh

-----------------------------------------------------------------------------

\* There is one listen at most, and no data message before it is answered.
OneListen(w)  == \A i, j \in Calls(w, "listen") : i = j
NoListen(w)   == Calls(w, "listen") = {}

Listener(d) ==
    /\ watching[d] <=> cache[d] # Absent \/ Told(inbox[d])
    /\ watching[d] => listens[d]
    /\ ~up[d] => cache[d] = Absent /\ ~listens[d]
    /\ up[d] => OneListen(wire[d]) /\ (~NoListen(wire[d]) => listens[d] /\ ~watching[d])

Informed(d, l) ==
    /\ Fresh(inbox[d], pending[d], cache[d], l, record[l])
    /\ Listener(d)

LEMMA ListenSent ==
    ASSUME NEW S, NEW w \in Seq(S), NEW x \in S
    PROVE  /\ x.kind # "listen" => Calls(Append(w, x), "listen") = Calls(w, "listen")
           /\ x.kind = "listen" /\ NoListen(w) =>
                 OneListen(Append(w, x)) /\ ~NoListen(Append(w, x))
<1>1. PICK t \in Seq(S) : t = Append(w, x) /\ Longer(w, x, t)
      BY AppendIsLonger
<1>2. ASSUME x.kind # "listen"
      PROVE  Calls(t, "listen") = Calls(w, "listen")
  <2>1. PICK k : k = "listen"
        OBVIOUS
  <2>2. Longer(w, x, t) /\ x.kind # k
        BY <1>1, <1>2, <2>1
  <2>3. Calls(t, k) = Calls(w, k)
        BY <2>2, NoMoreCalls
  <2>4. QED
        BY <2>1, <2>3
<1>3. ASSUME x.kind = "listen"
      PROVE  Calls(t, "listen") = Calls(w, "listen") \cup {Len(w) + 1}
  <2>1. OneMoreAtEnd(w, t, x.kind)
        BY <1>1, OneMoreCall
  <2>2. OneMoreAtEnd(w, t, "listen")
        BY <1>3, <2>1
  <2>3. QED
        BY <2>2 DEF OneMoreAtEnd
<1>4. QED
      BY <1>1, <1>2, <1>3 DEF NoListen, OneListen

LEMMA ListenServed ==
    ASSUME NEW S, NEW w \in Seq(S), w # <<>>
    PROVE  /\ OneListen(w) => OneListen(Tail(w))
           /\ NoListen(w) => NoListen(Tail(w))
           /\ OneListen(w) /\ Head(w).kind = "listen" => NoListen(Tail(w))
           /\ Head(w).kind = "listen" => ~NoListen(w)
<1>1. PICK t \in Seq(S) : t = Tail(w) /\ Shorter(w, t) /\ Head(w) = w[1]
      BY TailIsShorter
<1>2. \A i \in Calls(t, "listen") : i + 1 \in Calls(w, "listen") /\ i \in Nat /\ i >= 1
  <2>1. \A i \in Calls(t, "listen") : i + 1 \in Calls(w, "listen")
        BY <1>1, CallsOfTail
  <2>2. Calls(t, "listen") \subseteq 1..Len(t) /\ Len(t) \in Nat
        BY CallsAreCounted, LenProperties
  <2>3. QED
        BY <2>1, <2>2
<1>3. w[1].kind = "listen" => 1 \in Calls(w, "listen")
  <2>1. 1 \in DOMAIN w
        BY LenProperties, EmptySeq
  <2>2. QED
        BY <2>1 DEF Calls
<1>4. OneListen(w) => OneListen(t)
      BY <1>2 DEF OneListen
<1>5. NoListen(w) => NoListen(t)
      BY <1>2 DEF NoListen
<1>6. ASSUME OneListen(w), w[1].kind = "listen"
      PROVE  NoListen(t)
  <2>1. \A i \in Calls(t, "listen") : i + 1 = 1
        BY <1>2, <1>3, <1>6 DEF OneListen
  <2>2. QED
        BY <1>2, <2>1 DEF NoListen
<1>7. QED
      BY <1>1, <1>3, <1>4, <1>5, <1>6 DEF NoListen

\* Nothing that the client knows changes.
LEMMA StaysInformed ==
    ASSUME NEW d, NEW l, Informed(d, l), UNCHANGED <<cache, watching, listens, up>>,
           pending'[d] = pending[d], inbox'[d] = inbox[d], record'[l] = record[l],
           Calls(wire'[d], "listen") = Calls(wire[d], "listen") \/ ~up[d]
    PROVE  Informed(d, l)'
BY DEF Informed, Listener, OneListen, NoListen

\* A block takes its answer; another message than news and acknowledgements is heard.
LEMMA ReplyInformed ==
    ASSUME NEW G, NEW B, DatabaseInv(G, B), NEW d \in Device, NEW l, Informed(d, l),
           inbox[d] # <<>>, Head(inbox[d]).kind = "reply", inbox'[d] = Tail(inbox[d]),
           UNCHANGED <<record, pending, wire, cache, linkVars>>
    PROVE  Informed(d, l)'
<1>1. PICK M, P : M = Message(G, B[d]) /\ P = Write(G)
      OBVIOUS
<1>2. PICK s, p : s = inbox[d] /\ p = pending[d]
      OBVIOUS
<1>3. s \in Seq(M) /\ p \in Seq(P) /\ s # <<>>
      BY <1>1, <1>2 DEF DatabaseInv
<1>4. PICK t \in Seq(M) : t = Tail(s) /\ Shorter(s, t) /\ Head(s) = s[1]
      BY <1>3, TailIsShorter
<1>5. s[1].kind = "reply" /\ Fresh(s, p, cache[d], l, record[l])
      BY <1>2, <1>4 DEF Informed
<1>6. Fresh(t, p, cache[d], l, record[l])
  <2>1. s[1].kind # "ack" /\ s[1].kind # "event" /\ p = p /\ cache[d] = cache[d]
        BY <1>5
  <2>2. QED
        BY <1>3, <1>4, <1>5, <2>1, RestFresh
<1>7. Told(s) <=> Told(t)
      BY <1>3, <1>4, <1>5, LessToHear
<1>8. QED
      BY <1>2, <1>4, <1>6, <1>7 DEF Informed, Listener, linkVars

LEMMA AckInformed ==
    ASSUME NEW G, NEW B, DatabaseInv(G, B), QueueInv, NEW d \in Device, NEW l, Informed(d, l),
           ReceiveAck(d)
    PROVE  Informed(d, l)'
<1>1. PICK M, P : M = Message(G, B[d]) /\ P = Write(G)
      OBVIOUS
<1>2. PICK s, p : s = inbox[d] /\ p = pending[d]
      OBVIOUS
<1>3. s \in Seq(M) /\ p \in Seq(P) /\ s # <<>> /\ Head(s).kind = "ack"
      BY <1>1, <1>2 DEF DatabaseInv, ReceiveAck, First
<1>4. PICK t \in Seq(M) : t = Tail(s) /\ Shorter(s, t) /\ Head(s) = s[1]
      BY <1>3, TailIsShorter
<1>5. s[1].kind = "ack" /\ Fresh(s, p, cache[d], l, record[l])
      BY <1>2, <1>3, <1>4 DEF Informed
<1>6. Len(p) > 0
  <2>1. up[d]
        BY <1>2, <1>3, OnlyWhenUp DEF First
  <2>2. UnderWay(wire[d], p, Acks(s))
        BY <1>2, <2>1 DEF QueueInv, QueueOf
  <2>3. wire[d] \in Seq(Call(G, B[d]))
        BY DEF DatabaseInv
  <2>4. Cardinality(Calls(wire[d], "put")) \in Nat /\ Len(p) \in Nat /\ Acks(s) \in Nat
        BY <1>3, <2>3, CallsAreCounted, LenProperties DEF Acks
  <2>5. Acks(s) > 0
    <3>1. 1 \in DOMAIN s
          BY <1>3, LenProperties, EmptySeq
    <3>2. 1 \in Calls(s, "ack")
          BY <1>5, <3>1 DEF Calls
    <3>3. Cardinality(Upto(s, "ack", 1)) \in 1..Cardinality(Calls(s, "ack"))
          BY <1>3, <3>2, CallsAreCounted
    <3>4. QED
          BY <2>4, <3>3 DEF Acks
  <2>6. QED
        BY <2>2, <2>4, <2>5 DEF UnderWay
<1>7. PICK q \in Seq(P) : q = SubSeq(p, 2, Len(p)) /\ Shorter(p, q)
      BY <1>3, <1>6, RestIsShorter
<1>8. Fresh(t, q, cache[d], l, record[l])
  <2>1. s[1].kind = "ack" /\ Shorter(p, q) /\ cache[d] = cache[d]
        BY <1>5, <1>7
  <2>2. s[1].kind # "event"
        BY <1>5
  <2>3. QED
        BY <1>3, <1>4, <1>5, <2>1, <2>2, RestFresh
<1>9. Told(s) <=> Told(t)
      BY <1>3, <1>4, <1>5, LessToHear
<1>10. /\ inbox'[d] = t /\ pending'[d] = q /\ UNCHANGED <<record, wire, cache, linkVars>>
       BY <1>2, <1>4, <1>7 DEF ReceiveAck, DatabaseInv
<1>11. QED
       BY <1>2, <1>8, <1>9, <1>10 DEF Informed, Listener, linkVars

LEMMA EventInformed ==
    ASSUME NEW G, NEW B, Allows(G), DatabaseInv(G, B), NEW d \in Device, NEW l \in Leaf,
           Informed(d, l), ReceiveEvent(d)
    PROVE  Informed(d, l)'
<1>1. PICK M, P : M = Message(G, B[d]) /\ P = Write(G)
      OBVIOUS
<1>2. PICK s, p : s = inbox[d] /\ p = pending[d]
      OBVIOUS
<1>3. s \in Seq(M) /\ p \in Seq(P)
      BY <1>1, <1>2 DEF DatabaseInv
<1>4. /\ s # <<>> /\ Head(s).kind = "event"
      /\ cache' = [cache EXCEPT ![d] = Overlay(Row(d), Head(s).write)]
      BY <1>2 DEF ReceiveEvent, First
<1>5. PICK t \in Seq(M) : t = Tail(s) /\ Shorter(s, t) /\ Head(s) = s[1] /\ s[1] \in M
      BY <1>3, <1>4, TailIsShorter
<1>6. s[1].write \in Write(G)
      BY <1>1, <1>4, <1>5, MessageKinds
<1>7. PICK e, b : e = Overlay(Row(d), s[1].write) /\ b = Row(d)[l]
      OBVIOUS
<1>8. e # Absent /\ e[l] = IF l \in DOMAIN s[1].write THEN s[1].write[l] ELSE b
  <2>1. Row(d) \in Patch(G, Leaf)
        BY RowIsPatch
  <2>2. e \in Patch(G, Leaf)
        BY <1>6, <1>7, <2>1, OverlayIsPatch
  <2>3. e # Absent
        BY <2>2, ClientAssumption DEF Patch
  <2>4. DOMAIN Row(d) = Leaf
        BY <2>1 DEF Patch
  <2>5. QED
        BY <1>7, <2>3, <2>4 DEF Overlay
<1>9. cache[d] # Absent => b = cache[d][l]
      BY <1>7 DEF Row
<1>10. Fresh(t, p, e, l, record[l])
  <2>1. Fresh(s, p, cache[d], l, record[l])
        BY <1>2 DEF Informed
  <2>2. s[1].kind = "event" /\ p = p /\ e # Absent
        BY <1>4, <1>5, <1>8
  <2>3. QED
        BY <1>3, <1>5, <1>8, <1>9, <2>1, <2>2, RestFresh
<1>11. /\ inbox'[d] = t /\ cache'[d] = e
       /\ UNCHANGED <<record, pending, wire, linkVars>>
       BY <1>2, <1>4, <1>5, <1>7 DEF ReceiveEvent, DatabaseInv
<1>12. watching[d]
  <2>1. Told(s)
    <3>1. 1 \in DOMAIN s /\ s[1].kind = "event"
          BY <1>3, <1>4, <1>5, LenProperties, EmptySeq
    <3>2. QED
          BY <3>1 DEF Told
  <2>2. QED
        BY <1>2, <2>1 DEF Informed, Listener
<1>13. up[d]
       BY <1>12 DEF Informed, Listener
<1>14. QED
       BY <1>2, <1>8, <1>10, <1>11, <1>12, <1>13 DEF Informed, Listener, linkVars

LEMMA ClientInformed ==
    ASSUME NEW G, NEW B, DatabaseInv(G, B), QueueInv, LinkType, NEW d \in Device, NEW l,
           Informed(d, l), Linked(d), up[d], ClientStep(d)
    PROVE  Informed(d, l)'
<1>1. wire[d] \in Seq(Call(G, B[d])) /\ Observe \in Call(G, B[d])
      BY ObserveIsCall DEF DatabaseInv
<1>2. ASSUME NEW c \in First(todo[d])
      PROVE  c \in Call(G, B[d])
      BY <1>2, FirstCall
<1>3. CASE ExecuteWrite(d)
  <2>1. PICK c \in First(todo[d]) :
            /\ c.kind = "put"
            /\ pending' = [pending EXCEPT ![d] = Append(@, c.write)]
            /\ wire' = [wire EXCEPT ![d] = Append(@, c)]
        BY <1>3 DEF ExecuteWrite
  <2>2. c \in Call(G, B[d]) /\ c.write \in Write(G)
        BY <1>2, <2>1, CallKinds
  <2>3. Calls(wire'[d], "listen") = Calls(wire[d], "listen")
    <3>1. wire'[d] = Append(wire[d], c) /\ c.kind # "listen"
          BY <2>1 DEF DatabaseInv
    <3>2. QED
          BY <1>1, <2>2, <3>1, ListenSent
  <2>4. pending[d] \in Seq(Write(G)) /\ pending'[d] = Append(pending[d], c.write)
        BY <2>1 DEF DatabaseInv
  <2>5. PICK q \in Seq(Write(G)) : q = Append(pending[d], c.write) /\ Longer(pending[d], c.write, q)
        BY <2>2, <2>4, AppendIsLonger
  <2>6. Fresh(inbox[d], pending[d], cache[d], l, record[l])
        BY DEF Informed
  <2>7. Fresh(inbox[d], q, cache[d], l, record[l])
    <3>1. PICK P, p, x : P = Write(G) /\ p = pending[d] /\ x = c.write
          OBVIOUS
    <3>2. p \in Seq(P) /\ q \in Seq(P) /\ Longer(p, x, q)
          BY <2>4, <2>5, <3>1
    <3>3. Fresh(inbox[d], p, cache[d], l, record[l])
          BY <2>6, <3>1
    <3>4. QED
          BY <3>2, <3>3, PutFresh
  <2>8. UNCHANGED <<record, inbox, cache, linkVars>>
        BY <1>3 DEF ExecuteWrite
  <2>9. QED
        BY <2>3, <2>4, <2>5, <2>7, <2>8 DEF Informed, Listener, OneListen, NoListen, linkVars
<1>4. CASE ExecuteGet(d)
  <2>1. PICK c \in First(todo[d]) : c.kind = "get" /\ wire' = [wire EXCEPT ![d] = Append(@, c)]
        BY <1>4 DEF ExecuteGet
  <2>2. wire'[d] = Append(wire[d], c) /\ c.kind # "listen" /\ c \in Call(G, B[d])
        BY <1>2, <2>1 DEF DatabaseInv
  <2>3. Calls(wire'[d], "listen") = Calls(wire[d], "listen")
        BY <1>1, <2>2, ListenSent
  <2>4. QED
        BY <1>4, <2>3, StaysInformed DEF ExecuteGet, linkVars
<1>5. CASE ExecuteListen(d)
  <2>1. /\ listens'[d] = TRUE /\ UNCHANGED <<record, pending, inbox, cache, watching, up>>
        /\ wire'[d] = IF online[d] /\ ~listens[d] THEN Append(wire[d], Observe) ELSE wire[d]
        BY <1>5 DEF ExecuteListen, LinkType, DatabaseInv
  <2>2. online[d]
        BY DEF Linked
  <2>3. CASE listens[d]
    <3>1. wire'[d] = wire[d]
          BY <2>1, <2>3
    <3>2. QED
          BY <2>1, <2>3, <3>1 DEF Informed, Listener
  <2>4. CASE ~listens[d]
    <3>1. wire'[d] = Append(wire[d], Observe) /\ Observe.kind = "listen"
          BY <2>1, <2>2, <2>4 DEF Observe
    <3>2. NoListen(wire[d]) /\ ~watching[d]
          BY <2>4 DEF Informed, Listener
    <3>3. OneListen(wire'[d]) /\ ~NoListen(wire'[d])
          BY <1>1, <3>1, <3>2, ListenSent
    <3>4. QED
          BY <2>1, <3>2, <3>3 DEF Informed, Listener
  <2>5. QED
        BY <2>3, <2>4
<1>6. CASE ReceiveAck(d)
      BY <1>6, AckInformed
<1>7. ~HoldGet(d) /\ ~TimeOut(d)
      BY DEF Linked, HoldGet, TimeOut
<1>8. QED
      BY <1>3, <1>4, <1>5, <1>6, <1>7 DEF ClientStep

\* The server takes a write: the news of it, and its acknowledgement.
LEMMA WriteInformed ==
    ASSUME NEW G, NEW B, DatabaseInv(G, B), QueueInv, NEW d \in Device, NEW l \in Leaf,
           Informed(d, l), up[d], ServeWrite(d)
    PROVE  Informed(d, l)'
<1>1. PICK M, P, C : M = Message(G, B[d]) /\ P = Write(G) /\ C = Call(G, B[d])
      OBVIOUS
<1>2. PICK s, p, v, w : s = inbox[d] /\ p = pending[d] /\ v = wire[d] /\ w = Head(v).write
      OBVIOUS
<1>3. /\ s \in Seq(M) /\ p \in Seq(P) /\ v \in Seq(C) /\ v # <<>>
      /\ Head(v) = v[1] /\ v[1] \in C /\ Head(v).kind = "put"
  <2>1. s \in Seq(M) /\ p \in Seq(P) /\ v \in Seq(C)
        BY <1>1, <1>2 DEF DatabaseInv
  <2>2. v # <<>> /\ Head(v).kind = "put"
        BY <1>2 DEF ServeWrite, Reachable
  <2>3. QED
        BY <2>1, <2>2, TailIsShorter
<1>4. w \in Write(G) /\ w = v[1].write
      BY <1>1, <1>2, <1>3, CallKinds
\* It is the first write that is not acknowledged.
<1>5. Acks(s) + 1 \in DOMAIN p /\ p[Acks(s) + 1] = w
  <2>1. UnderWay(v, p, Acks(s))
        BY <1>2 DEF QueueInv, QueueOf
  <2>2. 1 \in Calls(v, "put")
    <3>1. 1 \in DOMAIN v
          BY <1>3, LenProperties, EmptySeq
    <3>2. QED
          BY <1>3, <3>1 DEF Calls
  <2>3. Upto(v, "put", 1) = {1}
    <3>1. Calls(v, "put") \subseteq 1..Len(v) /\ Len(v) \in Nat
          BY <1>3, CallsAreCounted, LenProperties
    <3>2. \A i \in Calls(v, "put") : i <= 1 => i = 1
          BY <3>1
    <3>3. QED
          BY <2>2, <3>2 DEF Upto
  <2>4. Cardinality(Upto(v, "put", 1)) = 1
        BY <2>3, FS_Singleton
  <2>5. 1 \in 1..Cardinality(Calls(v, "put"))
        BY <1>3, <2>2, <2>4, CallsAreCounted
  <2>6. /\ Len(p) \in Nat /\ DOMAIN p = 1..Len(p)
        /\ Acks(s) \in Nat /\ Cardinality(Calls(v, "put")) \in Nat
        BY <1>3, CallsAreCounted, LenProperties DEF Acks
  <2>7. Cardinality(Calls(v, "put")) = Len(p) - Acks(s)
        BY <2>1 DEF UnderWay
  <2>8. v[1].write = p[Acks(s) + 1]
        BY <2>1, <2>2, <2>4 DEF UnderWay
  <2>9. QED
        BY <1>4, <2>5, <2>6, <2>7, <2>8
<1>6. PICK x \in M : x = Event(w) /\ x.kind = "event" /\ x.write = w
  <2>1. Event(w) \in M
        BY <1>1, <1>4 DEF Message
  <2>2. Event(w).kind = "event" /\ Event(w).write = w
        BY DEF Event
  <2>3. QED
        BY <2>1, <2>2
<1>7. PICK y \in M : y = Ack /\ y.kind = "ack"
  <2>1. Ack \in M
        BY <1>1 DEF Message
  <2>2. Ack.kind = "ack"
        BY DEF Ack
  <2>3. QED
        BY <2>1, <2>2
<1>8. PICK z : z = IF l \in DOMAIN w THEN w[l] ELSE record[l]
      OBVIOUS
<1>9. Fresh(s, p, cache[d], l, record[l]) /\ (watching[d] <=> cache[d] # Absent \/ Told(s))
      BY <1>2 DEF Informed, Listener
<1>10. PICK t \in Seq(M) :
          /\ t = IF watching[d] THEN Append(s, x) ELSE s
          /\ Fresh(t, p, cache[d], l, z)
          /\ watching[d] <=> cache[d] # Absent \/ Told(t)
  <2>1. CASE watching[d]
    <3>1. PICK t \in Seq(M) : t = Append(s, x) /\ Longer(s, x, t)
          BY <1>3, AppendIsLonger
    <3>2. z = IF l \in DOMAIN x.write THEN x.write[l] ELSE record[l]
          BY <1>6, <1>8
    <3>3. ~(cache[d] = Absent /\ ~Told(s))
          BY <1>9, <2>1
    <3>4. l \in DOMAIN x.write =>
              Acks(s) + 1 \in DOMAIN p /\ l \in DOMAIN p[Acks(s) + 1]
          BY <1>5, <1>6
    <3>5. Fresh(t, p, cache[d], l, z) /\ Told(t)
      <4>1. PICK c, v0 : c = cache[d] /\ v0 = record[l]
            OBVIOUS
      <4>2. /\ Fresh(s, p, c, l, v0)
            /\ z = IF l \in DOMAIN x.write THEN x.write[l] ELSE v0
            /\ c = Absent /\ ~Told(s) => l \in DOMAIN x.write
            /\ ~(c = Absent /\ ~Told(s)) /\ l \in DOMAIN x.write =>
                   Acks(s) + 1 \in DOMAIN p /\ l \in DOMAIN p[Acks(s) + 1]
            BY <1>9, <3>2, <3>3, <3>4, <4>1
      <4>3. Fresh(t, p, c, l, z) /\ Told(t)
        <5>1. s \in Seq(M) /\ x \in M /\ t \in Seq(M) /\ Longer(s, x, t) /\ x.kind = "event"
              BY <1>3, <1>6, <3>1
        <5>2. QED
              BY <4>2, <5>1, NewsFresh
      <4>4. QED
            BY <4>1, <4>3
    <3>6. QED
          BY <2>1, <3>1, <3>5
  <2>2. CASE ~watching[d]
    <3>1. cache[d] = Absent /\ ~Told(s)
          BY <1>9, <2>2
    <3>2. Fresh(s, p, cache[d], l, z)
      <4>1. \A i \in DOMAIN s : s[i].kind # "event"
            BY <3>1 DEF Told
      <4>2. QED
            BY <3>1, <4>1 DEF Fresh, LastNews, News
    <3>3. QED
          BY <1>3, <1>9, <2>2, <3>2
  <2>3. QED
        BY <2>1, <2>2
<1>11. PICK u \in Seq(M) : u = Append(t, y) /\ Longer(t, y, u)
       BY <1>10, AppendIsLonger
<1>12. Fresh(u, p, cache[d], l, z) /\ (Told(u) <=> Told(t))
       BY <1>7, <1>10, <1>11, OtherFresh
<1>13. inbox'[d] = u
  <2>1. inbox'[d] = s \o Notices(d, d, w)
        BY <1>2 DEF ServeWrite
  <2>2. Notices(d, d, w) = (IF watching[d] THEN <<x>> ELSE <<>>) \o <<y>>
        BY <1>6, <1>7 DEF Notices
  <2>3. <<x>> \in Seq(M) /\ <<y>> \in Seq(M)
        BY <1>6, <1>7
  <2>4. u = t \o <<y>> /\ Append(s, x) = s \o <<x>>
        BY <1>3, <1>6, <1>7, <1>10, <1>11, AppendIsConcat
  <2>5. (s \o <<x>>) \o <<y>> = s \o (<<x>> \o <<y>>)
        BY <1>3, <2>3, ConcatAssociative
  <2>6. <<>> \o <<y>> = <<y>>
        BY <2>3, ConcatEmptySeq
  <2>7. QED
        BY <1>10, <2>1, <2>2, <2>4, <2>5, <2>6
<1>14. record'[l] = z
  <2>1. DOMAIN record = Leaf
        BY DEF DatabaseInv, Patch
  <2>2. record' = Overlay(record, w)
        BY <1>2 DEF ServeWrite
  <2>3. QED
        BY <1>8, <2>1, <2>2 DEF Overlay
<1>15. /\ wire'[d] = Tail(v) /\ UNCHANGED <<pending, cache, listens, watching, up>>
       BY <1>2 DEF ServeWrite, linkVars, DatabaseInv
<1>16. /\ OneListen(v) => OneListen(wire'[d])
       /\ NoListen(v) => NoListen(wire'[d])
       BY <1>3, <1>15, ListenServed
<1>17. QED
       BY <1>2, <1>10, <1>12, <1>13, <1>14, <1>15, <1>16 DEF Informed, Listener

LEMMA GetInformed ==
    ASSUME NEW G, NEW B, Asks(B), DatabaseInv(G, B), NEW d \in Device, NEW l,
           Informed(d, l), up[d], ServeGet(d)
    PROVE  Informed(d, l)'
<1>1. PICK M, s : M = Message(G, B[d]) /\ s = inbox[d]
      OBVIOUS
<1>2. PICK r, x : r = Head(wire[d]) /\ x = Reply(r.then, [k \in r.leaves |-> record[k]])
      OBVIOUS
<1>3. PICK N : N = M \cup {x}
      OBVIOUS
<1>4. s \in Seq(N) /\ x \in N /\ x.kind = "reply"
  <2>1. s \in Seq(M)
        BY <1>1 DEF DatabaseInv
  <2>2. QED
        BY <1>2, <1>3, <2>1, SeqWidens DEF Reply
<1>5. PICK t \in Seq(N) : t = Append(s, x) /\ Longer(s, x, t)
      BY <1>4, AppendIsLonger
<1>6. Fresh(t, pending[d], cache[d], l, record[l]) /\ (Told(t) <=> Told(s))
  <2>1. Fresh(s, pending[d], cache[d], l, record[l]) /\ x.kind # "event"
        BY <1>1, <1>4 DEF Informed
  <2>2. QED
        BY <1>4, <1>5, <2>1, OtherFresh
<1>7. /\ inbox'[d] = t /\ wire'[d] = Tail(wire[d])
      /\ UNCHANGED <<record, pending, cache, linkVars>>
      BY <1>1, <1>2, <1>5 DEF ServeGet, DatabaseInv
<1>8. /\ OneListen(wire[d]) => OneListen(wire'[d])
      /\ NoListen(wire[d]) => NoListen(wire'[d])
  <2>1. wire[d] \in Seq(Call(G, B[d])) /\ wire[d] # <<>>
        BY DEF DatabaseInv, ServeGet, Reachable
  <2>2. QED
        BY <1>7, <2>1, ListenServed
<1>9. QED
      BY <1>1, <1>6, <1>7, <1>8 DEF Informed, Listener, linkVars

\* The answer to the listen is the record as it is.
LEMMA ListenInformed ==
    ASSUME NEW G, NEW B, DatabaseInv(G, B), QueueInv, NEW d \in Device, NEW l \in Leaf,
           Informed(d, l), up[d], ServeListen(d)
    PROVE  Informed(d, l)'
<1>1. PICK M, s, x : M = Message(G, B[d]) /\ s = inbox[d] /\ x = Event(record)
      OBVIOUS
<1>2. s \in Seq(M) /\ x \in M /\ x.kind = "event" /\ x.write = record /\ l \in DOMAIN record
  <2>1. record \in Write(G) /\ DOMAIN record = Leaf
        BY PatchIsWrite DEF DatabaseInv, Patch
  <2>2. QED
        BY <1>1, <2>1 DEF DatabaseInv, Message, Event
<1>3. PICK t \in Seq(M) : t = Append(s, x) /\ Longer(s, x, t)
      BY <1>2, AppendIsLonger
<1>4. wire[d] \in Seq(Call(G, B[d])) /\ wire[d] # <<>> /\ Head(wire[d]).kind = "listen"
      BY DEF DatabaseInv, ServeListen, Reachable
<1>5. ~NoListen(wire[d]) /\ (OneListen(wire[d]) => NoListen(Tail(wire[d])))
      BY <1>4, ListenServed
<1>6. OneListen(wire[d]) /\ listens[d] /\ ~watching[d]
      BY <1>5 DEF Informed, Listener
<1>7. cache[d] = Absent /\ ~Told(s) /\ Fresh(s, pending[d], cache[d], l, record[l])
      BY <1>1, <1>6 DEF Informed, Listener
<1>8. Fresh(t, pending[d], cache[d], l, record[l]) /\ Told(t)
  <2>1. record[l] = IF l \in DOMAIN x.write THEN x.write[l] ELSE record[l]
        BY <1>2
  <2>2. cache[d] = Absent /\ ~Told(s) => l \in DOMAIN x.write
        BY <1>2
  <2>3. ~(cache[d] = Absent /\ ~Told(s)) /\ l \in DOMAIN x.write =>
            Acks(s) + 1 \in DOMAIN pending[d] /\ l \in DOMAIN pending[d][Acks(s) + 1]
        BY <1>7
  <2>4. PICK p, c, v : p = pending[d] /\ c = cache[d] /\ v = record[l]
        OBVIOUS
  <2>5. /\ Fresh(s, p, c, l, v)
        /\ v = IF l \in DOMAIN x.write THEN x.write[l] ELSE v
        /\ c = Absent /\ ~Told(s) => l \in DOMAIN x.write
        /\ ~(c = Absent /\ ~Told(s)) /\ l \in DOMAIN x.write =>
               Acks(s) + 1 \in DOMAIN p /\ l \in DOMAIN p[Acks(s) + 1]
        BY <1>7, <2>1, <2>2, <2>3, <2>4
  <2>6. Fresh(t, p, c, l, v) /\ Told(t)
        BY <1>2, <1>3, <2>5, NewsFresh
  <2>7. QED
        BY <2>4, <2>6
<1>9. /\ inbox'[d] = t /\ wire'[d] = Tail(wire[d]) /\ watching'[d] = TRUE
      /\ UNCHANGED <<record, pending, cache, listens, up>>
      BY <1>1, <1>3 DEF ServeListen, DatabaseInv, QueueInv
<1>10. NoListen(wire'[d]) /\ OneListen(wire'[d])
       BY <1>5, <1>6, <1>9 DEF NoListen, OneListen
<1>11. QED
       BY <1>6, <1>8, <1>9, <1>10 DEF Informed, Listener

\* What the server does for a process that has ended is not heard.
LEMMA UnheardInformed ==
    ASSUME NEW G, NEW B, DatabaseInv(G, B), QueueInv, NEW d \in Device, NEW l,
           Informed(d, l), ~up[d], ServerStep(d)
    PROVE  Informed(d, l)'
<1>1. inbox[d] = <<>> /\ pending[d] = <<>> /\ cache[d] = Absent /\ ~watching[d] /\ ~listens[d]
      BY DEF QueueInv, QueueOf, Informed, Listener
<1>2. UNCHANGED <<pending, cache, listens, up>>
      BY DEF ServerStep, ServeWrite, ServeGet, ServeListen, linkVars
<1>3. ~watching'[d]
      BY <1>1 DEF ServerStep, ServeWrite, ServeGet, ServeListen, linkVars, QueueInv
<1>4. inbox'[d] = <<>>
  <2>1. CASE ServeWrite(d)
    <3>1. PICK w : inbox'[d] = inbox[d] \o Notices(d, d, w)
          BY <2>1 DEF ServeWrite
    <3>2. Notices(d, d, w) = <<>> \o <<>>
          BY <1>1 DEF Notices
    <3>3. <<>> \o <<>> = <<>>
          BY EmptySeq, ConcatEmptySeq
    <3>4. QED
          BY <1>1, <3>1, <3>2, <3>3
  <2>2. CASE ServeGet(d) \/ ServeListen(d)
        BY <1>1, <2>2 DEF ServeGet, ServeListen
  <2>3. QED
        BY <2>1, <2>2 DEF ServerStep
<1>5. DOMAIN inbox'[d] = {}
      BY <1>4
<1>6. Fresh(inbox'[d], pending'[d], cache'[d], l, record'[l]) /\ ~Told(inbox'[d])
      BY <1>1, <1>2, <1>5 DEF Fresh, Told
<1>7. QED
      BY <1>1, <1>2, <1>3, <1>6 DEF Informed, Listener

LEMMA ServerInformed ==
    ASSUME NEW G, NEW B, Asks(B), DatabaseInv(G, B), QueueInv, NEW d \in Device,
           NEW l \in Leaf, Informed(d, l), ServerStep(d)
    PROVE  Informed(d, l)'
<1>1. CASE up[d]
      BY <1>1, WriteInformed, GetInformed, ListenInformed DEF ServerStep
<1>2. CASE ~up[d]
      BY <1>2, UnheardInformed
<1>3. QED
      BY <1>1, <1>2

-----------------------------------------------------------------------------

\* An answer is one on the spot or one of the server.
OnTheSpot(d, a) ==
    /\ todo[d] # <<>> /\ Head(todo[d]).kind = "get" /\ ReadsLocally(d, Head(todo[d]).leaves)
    /\ a.then = Head(todo[d]).then
    /\ a.snap = [l \in Head(todo[d]).leaves |-> LocalView(d)[l]]
    /\ a.todo = Tail(todo[d]) /\ a.inbox = inbox[d]
OfServer(d, a) ==
    /\ inbox[d] # <<>> /\ Head(inbox[d]).kind = "reply"
    /\ a.then = Head(inbox[d]).then /\ a.snap = Head(inbox[d]).snap
    /\ a.todo = todo[d] /\ a.inbox = Tail(inbox[d])

LEMMA TwoAnswers ==
    ASSUME NEW d, NEW a \in Answers(d)
    PROVE  OnTheSpot(d, a) \/ OfServer(d, a)
<1>1. ASSUME NEW t \in {c \in First(todo[d]) : c.kind = "get" /\ ReadsLocally(d, c.leaves)},
             a = [then  |-> t.then,
                  snap  |-> [l \in t.leaves |-> LocalView(d)[l]],
                  todo  |-> Tail(todo[d]),
                  inbox |-> inbox[d]]
      PROVE  OnTheSpot(d, a)
  <2>1. todo[d] # <<>> /\ t = Head(todo[d])
        BY <1>1 DEF First
  <2>2. QED
        BY <1>1, <2>1 DEF OnTheSpot
<1>2. ASSUME NEW m \in {c \in First(inbox[d]) : c.kind = "reply"},
             a = [then  |-> m.then,
                  snap  |-> m.snap,
                  todo  |-> todo[d],
                  inbox |-> Tail(inbox[d])]
      PROVE  OfServer(d, a)
  <2>1. inbox[d] # <<>> /\ m = Head(inbox[d])
        BY <1>2 DEF First
  <2>2. QED
        BY <1>2, <2>1 DEF OfServer
<1>3. QED
      BY <1>1, <1>2 DEF Answers

LEMMA DispatchInformed ==
    ASSUME NEW d \in Device, NEW calls, NEW l, Informed(d, l), Dispatch(d, calls)
    PROVE  Informed(d, l)'
BY StaysInformed DEF Dispatch, linkVars

LEMMA ReturnInformed ==
    ASSUME NEW G, NEW B, DatabaseInv(G, B), NEW d \in Device, NEW l, Informed(d, l),
           NEW a \in Answers(d), NEW calls, Return(d, a, calls)
    PROVE  Informed(d, l)'
<1>1. inbox'[d] = a.inbox /\ UNCHANGED <<record, pending, wire, cache, linkVars>>
      BY DEF Return, DatabaseInv
<1>2. CASE OnTheSpot(d, a)
      BY <1>1, <1>2, StaysInformed DEF linkVars, OnTheSpot
<1>3. CASE OfServer(d, a)
      BY <1>1, <1>3, ReplyInformed DEF OfServer
<1>4. QED
      BY <1>2, <1>3, TwoAnswers

LEMMA AppEndsInformed ==
    ASSUME NEW G, NEW B, DatabaseInv(G, B), QueueInv, LinkType, NEW d \in Device, NEW l,
           AppEnds(d)
    PROVE  Informed(d, l)'
<1>1. /\ inbox'[d] = <<>> /\ cache'[d] = Absent /\ ~listens'[d] /\ ~watching'[d] /\ ~up'[d]
      BY DEF AppEnds, ProcessEnds, DatabaseInv, QueueInv, LinkType
<1>2. DOMAIN inbox'[d] = {}
      BY <1>1
<1>3. QED
      BY <1>1, <1>2 DEF Informed, Listener, Fresh, Told

LEMMA LaunchInformed ==
    ASSUME NEW d \in Device, NEW l, QueueInv, Informed(d, l), Launch(d)
    PROVE  Informed(d, l)'
<1>1. ~up[d] /\ wire[d] = <<>> /\ UNCHANGED <<record, pending, wire, inbox, cache, listens, watching>>
      BY DEF Launch, ProcessStarts
<1>2. cache[d] = Absent /\ ~watching[d] /\ ~listens[d]
      BY <1>1 DEF Informed, Listener
<1>3. Calls(wire[d], "listen") = {}
      BY <1>1 DEF Calls
<1>4. QED
      BY <1>1, <1>2, <1>3 DEF Informed, Listener, OneListen, NoListen

\* What no pending write covers is on no wire.
LEMMA NotSent ==
    ASSUME NEW G, NEW B, DatabaseInv(G, B), QueueInv, NEW d \in Device, up[d], NEW l \in Leaf,
           \A i \in DOMAIN pending[d] : l \notin DOMAIN pending[d][i]
    PROVE  Base(d)[l] = record[l]
<1>1. PICK w, p, n : w = wire[d] /\ p = pending[d] /\ n = Acks(inbox[d])
      OBVIOUS
<1>2. w \in Seq(Call(G, B[d])) /\ p \in Seq(Write(G)) /\ n \in Nat
      BY <1>1, AcksAreNat DEF DatabaseInv
<1>3. UnderWay(w, p, n)
      BY <1>1 DEF QueueInv, QueueOf
<1>4. ASSUME NEW i \in DOMAIN w
      PROVE  ~Writes(w[i], l)
  <2>1. CASE w[i].kind = "put"
    <3>1. i \in Calls(w, "put")
          BY <2>1 DEF Calls
    <3>2. PICK k : k = Cardinality(Upto(w, "put", i))
          OBVIOUS
    <3>3. k \in 1..Cardinality(Calls(w, "put"))
          BY <1>2, <3>1, <3>2, CallsAreCounted
    <3>4. w[i].write = p[n + k] /\ Cardinality(Calls(w, "put")) = Len(p) - n
          BY <1>3, <3>1, <3>2 DEF UnderWay
    <3>5. Len(p) \in Nat /\ DOMAIN p = 1..Len(p)
          BY <1>2, LenProperties
    <3>6. n + k \in DOMAIN p
          BY <1>2, <3>3, <3>4, <3>5
    <3>7. QED
          BY <1>1, <3>4, <3>6 DEF Writes
  <2>2. CASE w[i].kind # "put"
        BY <2>2 DEF Writes
  <2>3. QED
        BY <2>1, <2>2
<1>5. \A x \in Elems(w) : ~Writes(x, l)
      BY <1>4 DEF Elems
<1>6. Stand(w, Len(w), record)[l] = record[l]
      BY <1>2, <1>5, UntouchedStands
<1>7. QED
      BY <1>1, <1>6 DEF Base

\* The newest of the writes that cover a leaf.
LEMMA ThereIsANewest ==
    ASSUME NEW P, NEW p \in Seq(P), NEW l, \E i \in DOMAIN p : l \in DOMAIN p[i]
    PROVE  \E i \in DOMAIN p : Newest(p, i, l)
<1>1. PICK n \in Nat : n = Len(p) /\ DOMAIN p = 1..n
      BY LenProperties
<1>2. PICK s : s = [i \in 1..n |-> SetValue(p[i])]
      OBVIOUS
<1>3. \A i \in 1..n : Writes(s[i], l) <=> l \in DOMAIN p[i]
      BY <1>2 DEF Writes, SetValue
<1>4. \E i \in 1..n : Writes(s[i], l)
      BY <1>1, <1>3
<1>5. PICK i \in 1..n : LastOf(s, n, l, i)
      BY <1>4, ThereIsALast
<1>6. \A j \in 1..n : j > i => j \in (i + 1)..n
      OBVIOUS
<1>7. Newest(p, i, l)
      BY <1>1, <1>3, <1>5, <1>6 DEF LastOf, Newest
<1>8. QED
      BY <1>1, <1>7

\* An answer on the spot is what the record will say when all that is sent is applied.
LEMMA LocalIsTrue ==
    ASSUME NEW G, NEW B, DatabaseInv(G, B), QueueInv, NEW d \in Device, up[d], Agrees(d),
           NEW l \in Leaf, Informed(d, l), ReadsLocally(d, {l})
    PROVE  LocalView(d)[l] = Base(d)[l]
<1>1. PICK p : p = pending[d]
      OBVIOUS
<1>2. p \in Seq(Write(G))
      BY <1>1 DEF DatabaseInv
<1>3. CASE \E i \in DOMAIN p : l \in DOMAIN p[i]
  <2>1. PICK i \in DOMAIN p : i = CHOOSE j \in DOMAIN p : Newest(p, j, l)
        BY <1>2, <1>3, ThereIsANewest
  <2>2. Newest(p, i, l)
        BY <1>2, <1>3, <2>1, ThereIsANewest
  <2>3. p[i][l] = Base(d)[l]
        BY <1>1, <2>2 DEF Agrees
  <2>4. LocalView(d)[l] = p[i][l]
        BY <1>1, <2>1, <2>2 DEF LocalView, View
  <2>5. QED
        BY <2>3, <2>4
<1>4. CASE \A i \in DOMAIN p : l \notin DOMAIN p[i]
  <2>1. LocalView(d)[l] = Row(d)[l]
        BY <1>1, <1>4 DEF LocalView, View, Newest
  <2>2. Exists(Row(d))
        BY <1>1, <1>4 DEF ReadsLocally
  <2>3. cache[d] # Absent /\ Row(d) = cache[d]
        BY <2>2 DEF Row, Exists, Nothing
  <2>4. \A i \in DOMAIN inbox[d] : ~News(inbox[d][i], l)
    <3>1. ASSUME NEW i \in DOMAIN inbox[d], News(inbox[d][i], l)
          PROVE  FALSE
      <4>1. Expected(inbox[d], i, p, cache[d], l)
            BY <1>1, <3>1 DEF Informed, Fresh, News
      <4>2. Own(inbox[d], i, p, l)
            BY <2>3, <3>1, <4>1 DEF Expected
      <4>3. QED
            BY <1>4, <4>2 DEF Own
    <3>2. QED
          BY <3>1
  <2>5. cache[d][l] = record[l]
        BY <2>3, <2>4 DEF Informed, Fresh
  <2>6. Base(d)[l] = record[l]
        BY <1>1, <1>4, NotSent
  <2>7. QED
        BY <2>1, <2>3, <2>5, <2>6
<1>5. QED
      BY <1>3, <1>4

-----------------------------------------------------------------------------
(* What the app's own steps dispatch.                                      *)

\* A write that leaves the user's wishes alone and removes no total; calls with no
\* other write and no question for the name.
MildPut(w) ==
    /\ \A l \in Wishable : l \notin DOMAIN w
    /\ \A l \in {CurrentLeaves, AllTimeLeaves} : l \in DOMAIN w => w[l] # Absent
MildCall(x) == ~IsName(x) /\ (x.kind = "put" => MildPut(x.write))
Mild(calls) == (\E S : calls \in Seq(S)) /\ \A x \in Elems(calls) : MildCall(x)

LEMMA MildWrites ==
    /\ \A w : MildPut(w) => MildCall(SetValue(w))
    /\ \A leaves, t : t.op # "displayName" => MildCall(GetData(leaves, t))
    /\ MildCall(Observe)
BY DEF MildCall, IsName, IsAsk, SetValue, GetData, Observe

LEMMA MildIsFelt ==
    ASSUME NEW calls, Mild(calls)
    PROVE  \A x \in Elems(calls) :
              Gives(x) /\ ~IsName(x) /\ \A l \in Wishable : ~Writes(x, l)
BY DEF Mild, MildCall, MildPut, Gives, Field, Wishable, Writes

LEMMA MildLiterals ==
    /\ Mild(<<>>)
    /\ \A x : MildCall(x) => Mild(<<x>>)
    /\ \A x, y : MildCall(x) /\ MildCall(y) => Mild(<<x, y>>)
<1>1. Mild(<<>>)
  <2>1. <<>> \in Seq({}) /\ Elems(<<>>) = {}
        BY DEF Elems
  <2>2. QED
        BY <2>1 DEF Mild
<1>2. ASSUME NEW x, MildCall(x)
      PROVE  Mild(<<x>>)
  <2>1. <<x>> \in Seq({x}) /\ Elems(<<x>>) = {x}
        BY DEF Elems
  <2>2. QED
        BY <1>2, <2>1 DEF Mild
<1>3. ASSUME NEW x, NEW y, MildCall(x), MildCall(y)
      PROVE  Mild(<<x, y>>)
  <2>1. <<x, y>> \in Seq({x, y}) /\ Elems(<<x, y>>) \subseteq {x, y}
        BY DEF Elems
  <2>2. QED
        BY <1>3, <2>1 DEF Mild
<1>4. QED
      BY <1>1, <1>2, <1>3

LEMMA MildConcat ==
    ASSUME NEW s, NEW g, Mild(s), Mild(g)
    PROVE  Mild(s \o g)
<1>1. PICK S : s \in Seq(S)
      BY DEF Mild
<1>2. PICK T : g \in Seq(T)
      BY DEF Mild
<1>3. s \in Seq(S \cup T) /\ g \in Seq(S \cup T)
      BY <1>1, <1>2, SeqWidens
<1>4. s \o g \in Seq(S \cup T)
      BY <1>3
<1>5. Elems(s \o g) = Elems(s) \cup Elems(g)
      BY <1>1, <1>2, ElemsOfConcat
<1>6. QED
      BY <1>4, <1>5 DEF Mild

LEMMA MildMapped ==
    ASSUME NEW n \in Nat, NEW s, s = [i \in 1..n |-> s[i]], \A i \in 1..n : MildCall(s[i])
    PROVE  Mild(s)
<1> DEFINE S == {s[i] : i \in 1..n}
<1>1. DOMAIN s = 1..n /\ \A i \in 1..n : s[i] \in S
      OBVIOUS
<1> HIDE DEF S
<1>2. s \in Seq(S)
      BY <1>1, SeqDef
<1>3. \A x \in Elems(s) : MildCall(x)
      BY <1>1 DEF Elems
<1>4. QED
      BY <1>2, <1>3 DEF Mild

\* The leaves that the screens write.
LEMMA MildLeaves ==
    /\ \A l, v : l \notin Profile => MildPut(SetLeaf(l, v))
    /\ \A l \in {LastVisitedDate, Notifications} : \A v : MildPut(SetLeaf(l, v))
    /\ \A l \in {CurrentLeaves, AllTimeLeaves} : \A v : v # Absent => MildPut(SetLeaf(l, v))
    /\ \A w : DOMAIN w \cap Profile = {} => MildPut(w)
<1>1. Wishable \subseteq Profile /\ CurrentLeaves \in Profile /\ AllTimeLeaves \in Profile
      BY DEF Profile, Wishable
<1>2. /\ LastVisitedDate \notin Wishable \cup {CurrentLeaves, AllTimeLeaves}
      /\ Notifications \notin Wishable \cup {CurrentLeaves, AllTimeLeaves}
      /\ CurrentLeaves \notin Wishable /\ AllTimeLeaves \notin Wishable
      BY DEF Wishable, CurrentLeaves, AllTimeLeaves, LastVisitedDate, DisplayName,
             OnLeaderboard, Avatar, Notifications
<1>3. \A l, v : DOMAIN SetLeaf(l, v) = {l} /\ SetLeaf(l, v)[l] = v
      BY DEF SetLeaf
<1>4. \A w : DOMAIN w \cap Profile = {} => MildPut(w)
      BY <1>1 DEF MildPut
<1>5. ASSUME NEW l, NEW v, l \notin Profile
      PROVE  MildPut(SetLeaf(l, v))
  <2>1. PICK w : w = SetLeaf(l, v) /\ DOMAIN w = {l}
        BY <1>3
  <2>2. DOMAIN w \cap Profile = {}
        BY <1>5, <2>1
  <2>3. QED
        BY <1>4, <2>1, <2>2
<1>6. ASSUME NEW l \in {LastVisitedDate, Notifications}, NEW v
      PROVE  MildPut(SetLeaf(l, v))
  <2>1. PICK w : w = SetLeaf(l, v) /\ DOMAIN w = {l}
        BY <1>3
  <2>2. MildPut(w)
        BY <1>2, <2>1 DEF MildPut
  <2>3. QED
        BY <2>1, <2>2
<1>7. ASSUME NEW l \in {CurrentLeaves, AllTimeLeaves}, NEW v, v # Absent
      PROVE  MildPut(SetLeaf(l, v))
  <2>1. PICK w : w = SetLeaf(l, v) /\ DOMAIN w = {l} /\ w[l] = v
        BY <1>3
  <2>2. MildPut(w)
        BY <1>2, <1>7, <2>1 DEF MildPut
  <2>3. QED
        BY <2>1, <2>2
<1>8. QED
      BY <1>4, <1>5, <1>6, <1>7

LEMMA MildPutCalls ==
    /\ \A l, v : l \notin Profile => Mild(<<SetValue(SetLeaf(l, v))>>)
    /\ \A l \in {LastVisitedDate, Notifications} : \A v : Mild(<<SetValue(SetLeaf(l, v))>>)
    /\ \A l \in {CurrentLeaves, AllTimeLeaves}, v \in Int : Mild(<<SetValue(SetLeaf(l, v))>>)
<1>1. \A w : MildPut(w) => Mild(<<SetValue(w)>>)
      BY MildWrites, MildLiterals
<1>2. \A v \in Int : v # Absent
      BY SchemaAssumption
<1>3. ASSUME NEW l, NEW v, l \notin Profile
      PROVE  Mild(<<SetValue(SetLeaf(l, v))>>)
  <2>1. MildPut(SetLeaf(l, v))
        BY <1>3, MildLeaves
  <2>2. QED
        BY <1>1, <2>1
<1>4. ASSUME NEW l \in {LastVisitedDate, Notifications}, NEW v
      PROVE  Mild(<<SetValue(SetLeaf(l, v))>>)
  <2>1. MildPut(SetLeaf(l, v))
        BY MildLeaves
  <2>2. QED
        BY <1>1, <2>1
<1>5. ASSUME NEW l \in {CurrentLeaves, AllTimeLeaves}, NEW v \in Int
      PROVE  Mild(<<SetValue(SetLeaf(l, v))>>)
  <2>1. MildPut(SetLeaf(l, v))
        BY <1>2, MildLeaves
  <2>2. QED
        BY <1>1, <2>1
<1>6. QED
      BY <1>3, <1>4, <1>5

LEMMA ScreensAreMild ==
    ASSUME NEW d
    PROVE  Mild(ObserveUsers(d)) /\ Mild(PopulateDashboard(d)) /\ Mild(PopulateSettings)
           /\ Mild(PermissionWrite)
<1>1. Mild(ObserveUsers(d))
      BY MildLiterals, MildWrites DEF ObserveUsers
<1>2. Mild(<<GetData(Leaf, [op |-> "dashboard"])>>) /\ Mild(PopulateSettings)
      BY MildLiterals, MildWrites DEF PopulateSettings
<1>3. Mild(PermissionWrite)
      BY MildPutCalls DEF PermissionWrite
<1>4. QED
      BY <1>1, <1>2, <1>3, MildConcat DEF PopulateDashboard

LEMMA ClaimIsMild ==
    ASSUME NEW d, NEW last, NEW day
    PROVE  Mild(ClaimCalls(d, last, day))
<1>1. Mild(SetDate(day))
      BY MildPutCalls DEF SetDate
<1>2. Mild(Calculate(d))
      BY MildLiterals, MildWrites DEF Calculate
<1>3. QED
      BY <1>1, <1>2, MildConcat DEF ClaimCalls

LEMMA LandIsMild ==
    ASSUME NEW k, NEW c
    PROVE  Mild(PlaceCalls(k, c)) /\ Mild(RemoveCalls(k, c))
BY MildLiterals, MildWrites DEF PlaceCalls, RemoveCalls

LEMMA RewriteIsMild ==
    ASSUME NEW snap, NEW k, NEW c, NEW rest \in Ascending(Staying(ListOf(snap, k), c))
    PROVE  Mild(Rewrite(k, ListOf(snap, k), rest))
<1> DEFINE list == ListOf(snap, k)
           removed == <<SetValue([l \in ActiveList(k) |-> Absent])>>
           puts == [i \in DOMAIN rest |->
                       SetValue(SetLeaf(ActiveItem(k, i - 1), list[rest[i]]))]
<1>1. ListLength(snap, k) \in Nat
  <2>1. IsFiniteSet(0..MaxIndex)
        BY SchemaAssumption, FS_Interval
  <2>2. IsFiniteSet({i \in 0..MaxIndex : snap[ActiveItem(k, i)] # Absent})
        BY <2>1, FS_Subset
  <2>3. QED
        BY <2>2, FS_CardinalityType DEF ListLength
<1>2. IsFiniteSet(Staying(list, c))
  <2>1. IsFiniteSet(1..ListLength(snap, k))
        BY <1>1, FS_Interval
  <2>2. Staying(list, c) \subseteq 1..ListLength(snap, k)
        BY DEF Staying, ListOf
  <2>3. QED
        BY <2>1, <2>2, FS_Subset
<1> HIDE DEF list
<1>3. PICK n \in Nat : DOMAIN rest = 1..n
      BY <1>2, OrderIsMapped DEF list
<1>4. Mild(puts)
  <2>1. /\ puts = [i \in 1..n |-> puts[i]]
        /\ \A i \in 1..n : puts[i] = SetValue(SetLeaf(ActiveItem(k, i - 1), list[rest[i]]))
        BY <1>3
  <2> HIDE DEF puts
  <2>2. ASSUME NEW i \in 1..n
        PROVE  MildCall(puts[i])
    <3>1. PICK l, v : puts[i] = SetValue(SetLeaf(l, v)) /\ l = ActiveItem(k, i - 1)
          BY <2>1
    <3>2. l \notin Profile
          BY <3>1, LeavesApart
    <3>3. QED
          BY <3>1, <3>2, MildLeaves, MildWrites
  <2>3. QED
        BY <2>1, <2>2, MildMapped
<1>5. Mild(removed) /\ Mild(<<>>)
  <2>1. PICK w : w = [l \in ActiveList(k) |-> Absent]
        OBVIOUS
  <2>2. DOMAIN w \cap Profile = {}
    <3>1. DOMAIN w = ActiveList(k)
          BY <2>1
    <3>2. \A l \in ActiveList(k) : l \notin Profile
          BY LeavesApart DEF ActiveList
    <3>3. QED
          BY <3>1, <3>2
  <2>3. MildCall(SetValue(w))
        BY <2>2, MildLeaves, MildWrites
  <2>4. QED
        BY <2>1, <2>3, MildLiterals
<1> HIDE DEF puts, removed
<1>6. Mild(removed \o puts) /\ Mild(removed \o <<>>)
      BY <1>4, <1>5, MildConcat
<1>7. QED
      BY <1>6 DEF Rewrite, puts, removed, list

LEMMA RedemptionIsMild ==
    ASSUME NEW d \in Device, NEW form, RedeemButtonPressed(d, form)
    PROVE  \E calls : Mild(calls) /\ Dispatch(d, calls)
<1> DEFINE get == IF Worth(form) = 0 THEN <<>>
                  ELSE <<GetData(Leaf, [op |-> "redeem", leaves |-> Worth(form)])>>
<1>1. PICK order \in Ascending(Recycled(form)) :
         Dispatch(d,
           [i \in DOMAIN order |->
                SetValue(SetLeaf(History(d, Op(d), order[i]), form[order[i]]))]
           \o get)
      BY DEF RedeemButtonPressed
<1> DEFINE puts == [i \in DOMAIN order |->
                      SetValue(SetLeaf(History(d, Op(d), order[i]), form[order[i]]))]
<1>2. IsFiniteSet(Recycled(form))
      BY SchemaAssumption, FS_Subset DEF Recycled
<1>3. PICK n \in Nat : DOMAIN order = 1..n
      BY <1>2, OrderIsMapped
<1>4. Mild(puts)
  <2>1. /\ puts = [i \in 1..n |-> puts[i]]
        /\ \A i \in 1..n :
              puts[i] = SetValue(SetLeaf(History(d, Op(d), order[i]), form[order[i]]))
        BY <1>3
  <2> HIDE DEF puts
  <2>2. ASSUME NEW i \in 1..n
        PROVE  MildCall(puts[i])
    <3>1. PICK l, v : puts[i] = SetValue(SetLeaf(l, v)) /\ l = History(d, Op(d), order[i])
          BY <2>1
    <3>2. l \notin Profile
          BY <3>1, LeavesApart
    <3>3. QED
          BY <3>1, <3>2, MildLeaves, MildWrites
  <2>3. QED
        BY <2>1, <2>2, MildMapped
<1>5. Mild(get)
      BY MildLiterals, MildWrites
<1>6. Dispatch(d, puts \o get)
      BY <1>1
<1> HIDE DEF puts, get
<1>7. Mild(puts \o get)
      BY <1>4, <1>5, MildConcat
<1>8. QED
      BY <1>6, <1>7

-----------------------------------------------------------------------------
(* The app's own steps, by what they do to the queues.                     *)

NoOtherWish == UNCHANGED <<stage, wishes>>

\* A user who waits starts something; a block runs.
Acts(d) == MayAct(d) /\ NoOtherWish /\ \E calls : Mild(calls) /\ Dispatch(d, calls)
Runs(d) ==
    /\ NoOtherWish
    /\ \E a \in Answers(d) : \E calls :
          /\ Mild(calls) /\ Return(d, a, calls)
          /\ a.then.op # "displayName"
          /\ a.then.op = "dashboard" => calls = <<>>

\* Signing in, and something the user wishes.
SignsIn(d) ==
    /\ UNCHANGED wishes
    /\ \E screen, calls :
          /\ screen \notin {"login", "leaving"} /\ calls \in {<<>>, PopulateDashboard(d)}
          /\ SignIn(d, screen, calls)
Saves(d) ==
    /\ Overlap \/ Patient(d)
    /\ ~Left(d) /\ ~Left(d)'
    /\ \E l \in Wishable, v \in Int : \E calls :
          /\ Mild(calls) /\ Wish(l, v)
          /\ Dispatch(d, <<SetValue(SetLeaf(l, v))>> \o calls)

Unmoved(d) == NoOtherWish /\ (UNCHANGED dbVars \/ ReceiveEvent(d))

Leaves(d) == SignOutButtonPressed(d) \/ DeleteButtonPressed(d)

\* The system answers the settings.
Permits(d) == NoOtherWish /\ SignedIn(d) /\ Dispatch(d, PermissionWrite)

LEMMA OneBlockRuns ==
    ASSUME NEW d, NEW op, op # "displayName", NoOtherWish, NEW a \in AnswersTo(d, op), NEW calls,
           Mild(calls), op = "dashboard" => calls = <<>>, Return(d, a, calls)
    PROVE  Runs(d)
BY DEF Runs, AnswersTo

LEMMA StoreIsMild ==
    ASSUME NEW d \in Device, GameInv, UNCHANGED accountVars, StoreStep(d)
    PROVE  Acts(d) \/ Runs(d) \/ Unmoved(d) \/ Crash(d)
<1>0. UNCHANGED wishes
      BY DEF accountVars
<1>1. ASSUME NEW c \in Cell, BuyOnClick(d, c)
      PROVE  Acts(d)
  <2>1. PICK calls : /\ calls = <<LeavesCall(Op(d), c), ItemCall(Op(d), c, Inventory(shelf[d][c]))>>
                     /\ Dispatch(d, calls)
        BY <1>1 DEF BuyOnClick
  <2>2. Mild(calls)
        BY <2>1, MildLiterals, MildWrites DEF LeavesCall, ItemCall
  <2>3. MayAct(d) /\ NoOtherWish
        BY <1>0, <1>1 DEF BuyOnClick, MayStart, sessionVars, NoOtherWish
  <2>4. QED
        BY <2>1, <2>2, <2>3 DEF Acts
<1>2. ASSUME NEW c \in Cell, NEW k \in Key, CellForRow(d, c, k)
      PROVE  Unmoved(d)
      BY <1>0, <1>2 DEF CellForRow, Unmoved, NoOtherWish, sessionVars
<1>3. CASE GotBuyLeaves(d)
  <2>0. PICK a \in AnswersTo(d, "buyLeaves") : \E k \in MayShow(d, a.then.cell) :
            LET leaves == a.snap[CurrentLeaves]
            IN  Return(d, a, IF Affords(leaves, Price(d, a.then.cell))
                             THEN <<SetValue(SetLeaf(CurrentLeaves, leaves - Cost[k]))>>
                             ELSE <<>>)
        BY <1>3 DEF GotBuyLeaves
  <2>1. PICK k \in MayShow(d, a.then.cell) :
            Return(d, a, IF Affords(a.snap[CurrentLeaves], Price(d, a.then.cell))
                         THEN <<SetValue(SetLeaf(CurrentLeaves, a.snap[CurrentLeaves] - Cost[k]))>>
                         ELSE <<>>)
        BY <2>0
  <2>2. PICK leaves : leaves = a.snap[CurrentLeaves]
        OBVIOUS
  <2>3. PICK price : price = Price(d, a.then.cell)
        OBVIOUS
  <2>4. Affords(leaves, price) => leaves - Cost[k] \in Int
    <3>1. a.then \in Tag /\ a.then.op = "buyLeaves"
          BY BlockFacts DEF GameInv
    <3>2. a.snap \in Patch(Known(FALSE, ledger), Asked(a.then))
          BY BlockFacts DEF GameInv
    <3>3. a.then.cell \in Cell /\ Asked(a.then) = {CurrentLeaves}
          BY <3>1, TagFields
    <3>4. leaves \in Purse \cup {Absent}
          BY <2>2, <3>2, <3>3, KnownLeaves DEF Patch
    <3>5. Cost[k] \in Nat
      <4>1. WalletInv
            BY DEF GameInv, Inv
      <4>2. QED
            BY <3>3, <4>1, ShownIsItem
    <3>6. QED
          BY <3>4, <3>5, PurseIsInt DEF Affords
  <2>5. PICK calls : /\ calls = IF Affords(leaves, price)
                                THEN <<SetValue(SetLeaf(CurrentLeaves, leaves - Cost[k]))>>
                                ELSE <<>>
                     /\ Return(d, a, calls)
        BY <2>1, <2>2, <2>3
  <2>6. Mild(calls)
        BY <2>4, <2>5, MildPutCalls, MildLiterals
  <2>7. NoOtherWish
        BY <1>0, <1>3 DEF GotBuyLeaves, NoOtherWish, sessionVars
  <2>8. QED
        BY <2>5, <2>6, <2>7, OneBlockRuns
<1>4. CASE Deliver(d)
  <2>1. PICK a \in AnswersTo(d, "buyItem") : \E k, n :
            Return(d, a, <<SetValue(SetLeaf(Inventory(k), n))>>)
        BY <1>4 DEF Deliver
  <2>2. PICK k, n : Return(d, a, <<SetValue(SetLeaf(Inventory(k), n))>>)
        BY <2>1
  <2>3. Mild(<<SetValue(SetLeaf(Inventory(k), n))>>)
        BY MildPutCalls, LeavesApart
  <2>4. NoOtherWish
        BY <1>0, <1>4 DEF Deliver, NoOtherWish
  <2>5. QED
        BY <2>2, <2>3, <2>4, OneBlockRuns
<1>5. CASE Refuse(d)
  <2>1. PICK a \in AnswersTo(d, "buyItem") : Return(d, a, <<>>)
        BY <1>5 DEF Refuse
  <2>2. NoOtherWish
        BY <1>0, <1>5 DEF Refuse, NoOtherWish, sessionVars
  <2>3. QED
        BY <2>1, <2>2, MildLiterals, OneBlockRuns
<1>6. CASE CrashOnNilLeaves(d)
      BY <1>6 DEF CrashOnNilLeaves
<1>7. QED
      BY <1>1, <1>2, <1>3, <1>4, <1>5, <1>6 DEF StoreStep

LEMMA RewardIsMild ==
    ASSUME NEW d \in Device, GameInv, UNCHANGED accountVars, RewardStep(d)
    PROVE  Acts(d) \/ Runs(d)
<1>0. NoOtherWish
      BY DEF accountVars, NoOtherWish, sessionVars, RewardStep, ClaimOnClick, GotClaimDate,
             GotRewardCurrent, GotRewardAllTime
<1>1. CASE ClaimOnClick(d)
  <2>1. PICK calls :
            /\ Dispatch(d, calls)
            /\ calls = <<GetData({LastVisitedDate}, [op |-> "claimDate", day |-> today])>>
        BY <1>1 DEF ClaimOnClick
  <2>2. Mild(calls)
        BY <2>1, MildLiterals, MildWrites
  <2>3. QED
        BY <1>0, <1>1, <2>1, <2>2 DEF Acts, ClaimOnClick, MayStart
<1>2. CASE GotClaimDate(d)
  <2>1. PICK a \in AnswersTo(d, "claimDate") :
            Return(d, a, ClaimCalls(d, a.snap[LastVisitedDate], a.then.day))
        BY <1>2 DEF GotClaimDate
  <2>2. QED
        BY <1>0, <2>1, OneBlockRuns, ClaimIsMild
<1>3. ASSUME NEW op \in {"rewardCurrent", "rewardAllTime"}, NEW l,
             l = IF op = "rewardCurrent" THEN CurrentLeaves ELSE AllTimeLeaves,
             NEW a \in AnswersTo(d, op),
             Return(d, a, IF a.snap[l] = Absent THEN <<>>
                          ELSE <<SetValue(SetLeaf(l, PlusTotal(a.snap[l], a.then.total)))>>)
      PROVE  Runs(d)
  <2>1. PICK leaves, total : leaves = a.snap[l] /\ total = a.then.total
        OBVIOUS
  <2>2. leaves # Absent => PlusTotal(leaves, total) \in Int
    <3>1. a.then \in Tag /\ a.then.op = op
          BY BlockFacts DEF GameInv
    <3>2. a.snap \in Patch(Known(FALSE, ledger), Asked(a.then))
          BY BlockFacts DEF GameInv
    <3>3. total \in Nat /\ Asked(a.then) = {l}
          BY <1>3, <2>1, <3>1, TagFields
    <3>4. leaves \in Known(FALSE, ledger)[l]
          BY <2>1, <3>2, <3>3 DEF Patch
    <3>5. leaves \in Int \cup {Absent}
          BY <1>3, <3>4, KnownLeaves, MoneyIsInt, PurseIsInt
    <3>6. QED
          BY <3>3, <3>5 DEF PlusTotal
  <2>3. PICK calls : /\ calls = IF leaves = Absent THEN <<>>
                                ELSE <<SetValue(SetLeaf(l, PlusTotal(leaves, total)))>>
                     /\ Return(d, a, calls)
        BY <1>3, <2>1
  <2>4. Mild(calls)
        BY <1>3, <2>2, <2>3, MildPutCalls, MildLiterals
  <2>5. QED
        BY <1>0, <2>3, <2>4, OneBlockRuns
<1>4. CASE GotRewardCurrent(d)
      BY <1>3, <1>4 DEF GotRewardCurrent
<1>5. CASE GotRewardAllTime(d)
      BY <1>3, <1>5 DEF GotRewardAllTime
<1>6. QED
      BY <1>1, <1>2, <1>4, <1>5 DEF RewardStep

LEMMA RedeemIsMild ==
    ASSUME NEW d \in Device, GameInv, UNCHANGED accountVars, RedeemStep(d)
    PROVE  Acts(d) \/ Runs(d) \/ Crash(d)
<1>1. ASSUME NEW form, RedeemButtonPressed(d, form)
      PROVE  Acts(d)
  <2>1. MayAct(d) /\ NoOtherWish
        BY <1>1 DEF RedeemButtonPressed, MayStart, accountVars, NoOtherWish, sessionVars
  <2>2. QED
        BY <1>1, <2>1, RedemptionIsMild DEF Acts
<1>2. CASE GotUser(d)
  <2> DEFINE sums(a) == [l \in {CurrentLeaves, AllTimeLeaves} |->
                            (IF l = CurrentLeaves THEN a.snap[CurrentLeaves]
                             ELSE a.snap[AllTimeLeaves]) + a.then.leaves]
  <2>1. PICK a \in AnswersTo(d, "redeem") :
            /\ Exists(a.snap) => a.snap[CurrentLeaves] # Absent /\ a.snap[AllTimeLeaves] # Absent
            /\ Return(d, a, IF Exists(a.snap) THEN <<SetValue(sums(a))>> ELSE <<>>)
        BY <1>2 DEF GotUser
  <2>2. Exists(a.snap) => MildPut(sums(a))
    <3>1. a.then \in Tag /\ a.then.op = "redeem"
          BY BlockFacts DEF GameInv
    <3>2. a.snap \in Patch(Known(FALSE, ledger), Asked(a.then))
          BY BlockFacts DEF GameInv
    <3>3. a.then.leaves \in Money /\ Asked(a.then) = Leaf
          BY <3>1, TagFields
    <3>4. \A l \in Leaf : a.snap[l] \in Known(FALSE, ledger)[l]
          BY <3>2, <3>3 DEF Patch
    <3>5. PICK x, y, z : /\ x = a.snap[CurrentLeaves] /\ y = a.snap[AllTimeLeaves]
                         /\ z = a.then.leaves
          OBVIOUS
    <3>6. x \in Int \cup {Absent} /\ y \in Int \cup {Absent}
          BY <3>4, <3>5, KnownLeaves, LeavesAreLeaves, MoneyIsInt, PurseIsInt
    <3>7. x # Absent /\ y # Absent => x + z \in Int /\ y + z \in Int
      <4>1. z \in Int
            BY <3>3, <3>5, MoneyIsInt
      <4>2. (x # Absent => x \in Int) /\ (y # Absent => y \in Int)
            BY <3>6
      <4>3. QED
            BY <4>1, <4>2
    <3>8. PICK w : w = sums(a)
          OBVIOUS
    <3>9. DOMAIN w = {CurrentLeaves, AllTimeLeaves}
          /\ w[CurrentLeaves] = x + z /\ w[AllTimeLeaves] = y + z
          BY <3>5, <3>8, LeavesApart
    <3>10. \A l \in Wishable : l \notin {CurrentLeaves, AllTimeLeaves}
           BY LeavesApart DEF Wishable
    <3>11. ASSUME Exists(a.snap)
           PROVE  MildPut(w)
      <4>1. x + z \in Int /\ y + z \in Int
            BY <2>1, <3>5, <3>7, <3>11
      <4>2. w[CurrentLeaves] # Absent /\ w[AllTimeLeaves] # Absent
            BY <3>9, <4>1, SchemaAssumption
      <4>3. QED
            BY <3>9, <3>10, <4>2 DEF MildPut
    <3>12. QED
           BY <3>8, <3>11
  <2>3. PICK w : w = sums(a)
        OBVIOUS
  <2> HIDE DEF sums
  <2>4. PICK calls : /\ calls = IF Exists(a.snap) THEN <<SetValue(w)>> ELSE <<>>
                     /\ Return(d, a, calls)
        BY <2>1, <2>3
  <2>5. Mild(calls)
        BY <2>2, <2>3, <2>4, MildWrites, MildLiterals
  <2>6. NoOtherWish
        BY <1>2 DEF GotUser, accountVars, NoOtherWish, sessionVars
  <2>7. QED
        BY <2>4, <2>5, <2>6, OneBlockRuns
<1>3. CASE CrashOnPartialUser(d)
      BY <1>3 DEF CrashOnPartialUser
<1>4. QED
      BY <1>1, <1>2, <1>3 DEF RedeemStep

LEMMA LandStepIsMild ==
    ASSUME NEW d \in Device, UNCHANGED accountVars, LandStep(d)
    PROVE  Acts(d) \/ Runs(d) \/ Unmoved(d) \/ Crash(d)
<1>0. UNCHANGED wishes
      BY DEF accountVars
<1>1. ASSUME NEW i \in 1..Len(inventoryItems[d]), OnPlaceItem(d, i)
      PROVE  Unmoved(d)
      BY <1>0, <1>1 DEF OnPlaceItem, Unmoved, NoOtherWish, sessionVars
<1>2. CASE OnBackButtonPressed(d)
      BY <1>0, <1>2 DEF OnBackButtonPressed, Unmoved, NoOtherWish, sessionVars
<1>3. ASSUME NEW c \in Coordinate, OnPlacementCompleted(d, c)
      PROVE  Acts(d)
      BY <1>0, <1>3, LandIsMild DEF OnPlacementCompleted, Acts, NoOtherWish
<1>4. ASSUME NEW c \in Coordinate, OnRemove(d, c)
      PROVE  Acts(d)
      BY <1>0, <1>4, LandIsMild DEF OnRemove, Acts, NoOtherWish, MayStart
<1>5. CASE GotPlaceActive(d)
  <2>1. PICK a \in AnswersTo(d, "placeActive") : \E k, n, c :
            Return(d, a, <<SetValue(SetLeaf(ActiveItem(k, n), c))>>)
        BY <1>5 DEF GotPlaceActive
  <2>0. PICK k, n, c : Return(d, a, <<SetValue(SetLeaf(ActiveItem(k, n), c))>>)
        BY <2>1
  <2>2. Mild(<<SetValue(SetLeaf(ActiveItem(k, n), c))>>)
        BY MildPutCalls, LeavesApart
  <2>3. NoOtherWish
        BY <1>0, <1>5 DEF GotPlaceActive, NoOtherWish
  <2>4. QED
        BY <2>0, <2>2, <2>3, OneBlockRuns
<1>6. CASE GotPlaceInventory(d)
  <2>1. PICK a \in AnswersTo(d, "placeInventory") : \E k, v :
            Return(d, a, <<>>) \/ Return(d, a, <<SetValue(SetLeaf(Inventory(k), v))>>)
        BY <1>6 DEF GotPlaceInventory
  <2>0. PICK k, v : Return(d, a, <<>>) \/ Return(d, a, <<SetValue(SetLeaf(Inventory(k), v))>>)
        BY <2>1
  <2>2. Mild(<<SetValue(SetLeaf(Inventory(k), v))>>)
        BY MildPutCalls, LeavesApart
  <2>3. NoOtherWish
        BY <1>0, <1>6 DEF GotPlaceInventory, NoOtherWish, sessionVars
  <2>4. QED
        BY <2>0, <2>2, <2>3, OneBlockRuns, MildLiterals
<1>7. CASE GotRemoveActive(d)
  <2>1. PICK a \in AnswersTo(d, "removeActive") :
            LET k == a.then.key
                list == ListOf(a.snap, k)
            IN  \/ Return(d, a, <<>>)
                \/ \E rest \in Ascending(Staying(list, a.then.at)) :
                      Return(d, a, Rewrite(k, list, rest))
        BY <1>7 DEF GotRemoveActive
  <2>2. NoOtherWish
        BY <1>0, <1>7 DEF GotRemoveActive, NoOtherWish, sessionVars
  <2>3. QED
        BY <2>1, <2>2, OneBlockRuns, MildLiterals, RewriteIsMild
<1>8. CASE GotRemoveInventory(d)
  <2>1. PICK a \in AnswersTo(d, "removeInventory") : \E k, v :
            Return(d, a, <<SetValue(SetLeaf(Inventory(k), v))>>)
        BY <1>8 DEF GotRemoveInventory
  <2>0. PICK k, v : Return(d, a, <<SetValue(SetLeaf(Inventory(k), v))>>)
        BY <2>1
  <2>2. Mild(<<SetValue(SetLeaf(Inventory(k), v))>>)
        BY MildPutCalls, LeavesApart
  <2>3. NoOtherWish
        BY <1>0, <1>8 DEF GotRemoveInventory, NoOtherWish, sessionVars
  <2>4. QED
        BY <2>0, <2>2, <2>3, OneBlockRuns
<1>9. CASE CrashOnLand(d)
      BY <1>9 DEF CrashOnLand
<1>10. QED
       BY <1>1, <1>2, <1>3, <1>4, <1>5, <1>6, <1>7, <1>8, <1>9 DEF LandStep

LEMMA SessionIsMild ==
    ASSUME NEW d \in Device, UNCHANGED accountVars, SessionAnswer(d)
    PROVE  \/ Runs(d) \/ Unmoved(d) \/ Crash(d)
           \/ GotDisplayName(d) /\ NoOtherWish
<1>0. UNCHANGED wishes
      BY DEF accountVars
<1>1. CASE GotDisplayName(d)
      BY <1>0, <1>1 DEF GotDisplayName, NoOtherWish, sessionVars
<1>2. CASE GotInventory(d)
  <2>1. PICK a \in AnswersTo(d, "inventory") : Return(d, a, <<>>)
        BY <1>2 DEF GotInventory
  <2>2. NoOtherWish
        BY <1>0, <1>2 DEF GotInventory, NoOtherWish
  <2>3. QED
        BY <2>1, <2>2, OneBlockRuns, MildLiterals
<1>3. CASE GotActiveItems(d)
  <2>1. PICK a \in AnswersTo(d, "activeItems") : Return(d, a, <<>>)
        BY <1>3 DEF GotActiveItems
  <2>2. NoOtherWish
        BY <1>0, <1>3 DEF GotActiveItems, NoOtherWish
  <2>3. QED
        BY <2>1, <2>2, OneBlockRuns, MildLiterals
<1>4. CASE LeaderboardChanged(d)
      BY <1>0, <1>4 DEF LeaderboardChanged, Unmoved, NoOtherWish, sessionVars
<1>5. CASE CrashOnActiveItems(d) \/ CrashOnPartialRow(d)
      BY <1>5 DEF CrashOnActiveItems, CrashOnPartialRow
<1>6. QED
      BY <1>1, <1>2, <1>3, <1>4, <1>5 DEF SessionAnswer

LEMMA AccountIsMild ==
    ASSUME NEW d \in Device, QueueInv, AccountStep(d)
    PROVE  \/ Acts(d) \/ Runs(d) \/ Unmoved(d) \/ Crash(d) \/ SignsIn(d) \/ Saves(d)
           \/ Leaves(d) \/ Permits(d) \/ LoginViewDidLoad(d)
<1>0. DOMAIN stage = Device /\ \A c \in Choice : c \in Int
      BY AccountAssumption DEF QueueInv
<1>1. ASSUME NEW l \in Wishable, NEW v \in Int, NEW calls, Mild(calls),
             Save(d, SetLeaf(l, v), calls), Wish(l, v)
      PROVE  Saves(d)
  <2>1. /\ Dispatch(d, <<SetValue(SetLeaf(l, v))>> \o calls)
        /\ stage[d] = "tabs" /\ stage' = stage /\ (Overlap \/ Patient(d))
        BY <1>1 DEF Save, MayStart, MayAct, sessionVars
  <2>2. QED
        BY <1>1, <2>1 DEF Saves, Left
<1>2. ASSUME NEW calls, Mild(calls), Issue(d, calls)
      PROVE  Acts(d)
      BY <1>2 DEF Issue, Acts, MayStart, NoOtherWish, sessionVars, accountVars
<1>3. CASE FirstSignIn(d) \/ SignInAgain(d)
      BY <1>3 DEF FirstSignIn, SignInAgain, SignsIn, accountVars
<1>4. ASSUME NEW c \in Choice, ChooseAvatar(d, c)
      PROVE  Saves(d)
  <2>1. Dispatch(d, <<SetValue(SetLeaf(Avatar, c))>> \o PopulateDashboard(d)) /\ Wish(Avatar, c)
        BY <1>4 DEF ChooseAvatar, AvatarWrite
  <2>2. ~Left(d) /\ ~Left(d)' /\ (Overlap \/ Patient(d))
        BY <1>0, <1>4 DEF ChooseAvatar, Left
  <2>3. Avatar \in Wishable
        BY DEF Wishable
  <2>4. QED
        BY <1>0, <2>1, <2>2, <2>3, ScreensAreMild DEF Saves
<1>5. ASSUME NEW c \in Choice, ChangeAvatar(d, c) \/ UpdateButtonPressed(d, c)
      PROVE  Saves(d)
      BY <1>0, <1>1, <1>5, ScreensAreMild, MildLiterals
         DEF ChangeAvatar, UpdateButtonPressed, AvatarWrite, NameWrite, Wishable
<1>6. ASSUME NEW joins \in BOOLEAN, LeaderSettingsSwitched(d, joins)
      PROVE  Saves(d)
  <2>1. PICK v \in Int : v = IF joins THEN 1 ELSE 0
        OBVIOUS
  <2>2. Save(d, SetLeaf(OnLeaderboard, v), <<>>) /\ Wish(OnLeaderboard, v)
        BY <1>6, <2>1 DEF LeaderSettingsSwitched, RankWrite
  <2>3. OnLeaderboard \in Wishable
        BY DEF Wishable
  <2>4. QED
        BY <1>1, <2>2, <2>3, MildLiterals
<1>7. CASE OpenDashboard(d) \/ OpenSettings(d) \/ AppNotifySwitched(d)
      BY <1>2, <1>7, ScreensAreMild DEF OpenDashboard, OpenSettings, AppNotifySwitched
<1>8. CASE GotDashboard(d)
  <2>1. PICK a \in AnswersTo(d, "dashboard") : Return(d, a, <<>>)
        BY <1>8 DEF GotDashboard
  <2>2. NoOtherWish
        BY <1>8 DEF GotDashboard, NoOtherWish, sessionVars, accountVars
  <2>3. QED
        BY <2>1, <2>2, OneBlockRuns, MildLiterals
<1>9. CASE GotSettings(d)
  <2>1. PICK a \in AnswersTo(d, "settings") : Return(d, a, <<>>)
        BY <1>9 DEF GotSettings
  <2>2. NoOtherWish
        BY <1>9 DEF GotSettings, NoOtherWish, sessionVars, accountVars
  <2>3. QED
        BY <2>1, <2>2, OneBlockRuns, MildLiterals
<1>10. CASE PermissionKnown(d)
       BY <1>10 DEF PermissionKnown, Permits, Unmoved, NoOtherWish, sessionVars, accountVars
<1>11. CASE CrashOnScreen(d) \/ CrashOnPermission(d)
       BY <1>11 DEF CrashOnScreen, CrashOnPermission
<1>12. CASE SignOutButtonPressed(d) \/ DeleteButtonPressed(d)
       BY <1>12 DEF Leaves
<1>13. QED
       BY <1>3, <1>4, <1>5, <1>6, <1>7, <1>8, <1>9, <1>10, <1>11, <1>12
          DEF AccountStep, ScreenStep

\* All of them.
LEMMA AppIsMild ==
    ASSUME NEW d \in Device, GameInv, QueueInv, AppStep(d), UNCHANGED accountVars \/ AccountStep(d)
    PROVE  \/ Acts(d) \/ Runs(d) \/ Unmoved(d) \/ Crash(d) \/ SignsIn(d) \/ Saves(d)
           \/ Leaves(d) \/ Permits(d) \/ LoginViewDidLoad(d)
           \/ GotDisplayName(d) /\ NoOtherWish
<1>1. CASE AccountStep(d)
      BY <1>1, AccountIsMild
<1>2. CASE UNCHANGED accountVars
      BY <1>2, AccountIsMild, StoreIsMild, RewardIsMild, RedeemIsMild, LandStepIsMild, SessionIsMild
         DEF AppStep
<1>3. QED
      BY <1>1, <1>2

-----------------------------------------------------------------------------
(* The one phone while its connection stands: its queues make no gap in    *)
(* the record, and what the user wishes is what the record will be.        *)

Nameless(d) == \A x \in Underway(d) : ~IsName(x)

Sound(d) ==
    /\ Linked(d) /\ Informed(d, DisplayName)
    /\ Steady(wire[d], record) /\ Steady(todo[d], Base(d))

\* Before the sign-in, until the name is known, and after.
Away(d)   == Left(d) /\ Silent(d)
Coming(d) == ~Left(d) /\ Entering(d)
Inside(d) == ~Left(d) /\ Nameless(d) /\ There(Final(d))

Wished(d) == \A l \in Wishable : wishes[l] # Absent => Final(d)[l] = wishes[l]

Orderly(d) ==
    /\ Sound(d)
    /\ ~up[d] \/ Away(d) \/ Coming(d) \/ Inside(d)
    /\ ~ProcessHasEnded => Wished(d)

LEMMA ComingIsHeard ==
    ASSUME NEW d, Entering(d)
    PROVE  ~Silent(d) /\ ~Nameless(d)
<1>1. \E x \in Underway(d) : IsName(x)
      BY NamedIsUnderway DEF Entering, ToSend, Sent, Answered, Underway
<1>2. QED
      BY <1>1 DEF Silent, Nameless, IsName

LEMMA StaysNameless ==
    ASSUME NEW d, Nameless(d), AsksNothing(d)
    PROVE  Nameless(d)'
BY DEF Nameless, AsksNothing, Passed, IsName

\* Calls without a write.
LEMMA NoPutsSteady ==
    ASSUME NEW S, NEW s \in Seq(S), None(s, "put"), NEW b, b = [l \in Leaf |-> b[l]], Whole(b)
    PROVE  Steady(s, b) /\ Stand(s, Len(s), b) = b
<1>1. Len(s) \in Nat /\ DOMAIN s = 1..Len(s)
      BY LenProperties
<1>2. ASSUME NEW i \in 0..Len(s)
      PROVE  Whole(Stand(s, i, b))
  <2>1. \A j \in 1..i : ~Writes(s[j], DisplayName) /\ \A l \in Leaf : ~Writes(s[j], l)
        BY <1>1 DEF None, Writes
  <2>2. i \in Nat
        BY <1>1
  <2>3. \A l \in Leaf : Stand(s, i, b)[l] = b[l]
        BY <2>1, <2>2, UnwrittenStands
  <2>4. QED
        BY <2>3, AlikeWhole
<1>3. QED
      BY <1>2, NoPutsStand DEF Steady

LEMMA FinalIsWhole ==
    ASSUME NEW G, NEW B, DatabaseInv(G, B), NEW d \in Device, Sound(d)
    PROVE  Whole(record) /\ Whole(Base(d)) /\ Whole(Final(d))
<1>1. Len(wire[d]) \in Nat /\ Len(todo[d]) \in Nat
      BY LenProperties DEF DatabaseInv
<1>2. 0 \in 0..Len(wire[d]) /\ Len(todo[d]) \in 0..Len(todo[d]) /\ 0 \in 0..Len(todo[d])
      BY <1>1
<1>3. Stand(wire[d], 0, record) = record /\ Stand(todo[d], 0, Base(d)) = Base(d)
      BY RecordIsARow, BaseIsARow, NothingWritten
<1>4. QED
      BY <1>2, <1>3 DEF Sound, Steady, Final

\* Calls are put at the end of what is left to execute.
LEMMA SoundPuts ==
    ASSUME NEW d \in Device, Sound(d), NEW S, NEW t \in Seq(S), Steady(t, Base(d)),
           Stand(t, Len(t), Base(d)) = Final(d),
           NEW T, NEW calls \in Seq(T), Steady(calls, Final(d)),
           todo'[d] = t \o calls, wire'[d] = wire[d], held'[d] = held[d],
           UNCHANGED <<record, up, online>>, Informed(d, DisplayName)'
    PROVE  Sound(d)' /\ Final(d)' = Stand(calls, Len(calls), Final(d))
<1>1. Base(d)' = Base(d)
      BY BaseStays
<1>2. PICK b : b = Base(d)
      OBVIOUS
<1>3. Steady(t \o calls, b) /\ Stand(t \o calls, Len(t \o calls), b) = Stand(calls, Len(calls), Final(d))
      BY <1>2, SteadyJoined
<1>4. QED
      BY <1>1, <1>2, <1>3 DEF Sound, Linked, Final

LEMMA DispatchSound ==
    ASSUME NEW G, NEW B, DatabaseInv(G, B), NEW d \in Device, Sound(d),
           NEW T, NEW calls \in Seq(T), Steady(calls, Final(d)), Dispatch(d, calls)
    PROVE  Sound(d)' /\ Final(d)' = Stand(calls, Len(calls), Final(d))
<1>1. /\ todo'[d] = todo[d] \o calls /\ wire'[d] = wire[d] /\ held'[d] = held[d]
      /\ UNCHANGED <<record, up, online>>
      BY DEF Dispatch, DatabaseInv, linkVars
<1>2. Informed(d, DisplayName)'
      BY DispatchInformed DEF Sound
<1>3. todo[d] \in Seq(Call(G, B[d])) /\ Steady(todo[d], Base(d))
      BY DEF DatabaseInv, Sound
<1>4. QED
      BY <1>1, <1>2, <1>3, SoundPuts DEF Final

\* What is left when an answer is taken.
LEMMA AnswerTaken ==
    ASSUME NEW G, NEW B, DatabaseInv(G, B), NEW d \in Device, Sound(d), NEW a \in Answers(d)
    PROVE  /\ a.todo \in Seq(Call(G, B[d])) /\ a.inbox \in Seq(Message(G, B[d]))
           /\ Steady(a.todo, Base(d)) /\ Stand(a.todo, Len(a.todo), Base(d)) = Final(d)
           /\ Elems(a.todo) \subseteq Elems(todo[d]) /\ Elems(a.inbox) \subseteq Elems(inbox[d])
<1>1. /\ todo[d] \in Seq(Call(G, B[d])) /\ inbox[d] \in Seq(Message(G, B[d]))
      /\ Steady(todo[d], Base(d))
      BY DEF DatabaseInv, Sound
<1>2. CASE OnTheSpot(d, a)
  <2>1. PICK s \in Seq(Call(G, B[d])) : s = todo[d] /\ s # <<>> /\ Head(s).kind = "get"
        BY <1>1, <1>2 DEF OnTheSpot
  <2>2. After(Head(s), Base(d)) = Base(d)
        BY <2>1 DEF After
  <2>3. Steady(Tail(s), Base(d)) /\ Stand(Tail(s), Len(Tail(s)), Base(d)) = Final(d)
    <3>1. PICK b : b = Base(d) /\ b = [l \in Leaf |-> b[l]]
          BY BaseIsARow
    <3>2. Steady(s, b) /\ After(Head(s), b) = b
          BY <1>1, <2>1, <2>2, <3>1
    <3>3. Steady(Tail(s), b) /\ Stand(Tail(s), Len(Tail(s)), b) = Stand(s, Len(s), b)
          BY <2>1, <3>1, <3>2, SteadyRest, RestStands
    <3>4. QED
          BY <2>1, <3>1, <3>3 DEF Final
  <2>4. Tail(s) \in Seq(Call(G, B[d])) /\ Elems(Tail(s)) \subseteq Elems(s)
    <3>1. PICK S : S = Call(G, B[d])
          OBVIOUS
    <3>2. s \in Seq(S) /\ s # <<>>
          BY <2>1, <3>1
    <3>3. Tail(s) \in Seq(S)
          BY <3>2
    <3>4. Elems(Tail(s)) \subseteq Elems(s)
          BY <3>2, FirstAndRest
    <3>5. QED
          BY <3>1, <3>3, <3>4
  <2>5. a.todo = Tail(s) /\ a.inbox = inbox[d]
        BY <1>2, <2>1 DEF OnTheSpot
  <2>6. QED
        BY <1>1, <2>1, <2>3, <2>4, <2>5
<1>3. CASE OfServer(d, a)
  <2>1. PICK s \in Seq(Message(G, B[d])) : s = inbox[d] /\ s # <<>>
        BY <1>1, <1>3 DEF OfServer
  <2>2. Tail(s) \in Seq(Message(G, B[d])) /\ Elems(Tail(s)) \subseteq Elems(s)
    <3>1. PICK S : S = Message(G, B[d])
          OBVIOUS
    <3>2. s \in Seq(S) /\ s # <<>>
          BY <2>1, <3>1
    <3>3. Tail(s) \in Seq(S)
          BY <3>2
    <3>4. Elems(Tail(s)) \subseteq Elems(s)
          BY <3>2, FirstAndRest
    <3>5. QED
          BY <3>1, <3>3, <3>4
  <2>3. a.todo = todo[d] /\ a.inbox = Tail(s)
        BY <1>3, <2>1 DEF OfServer
  <2>4. QED
        BY <1>1, <2>1, <2>2, <2>3 DEF Final
<1>4. QED
      BY <1>2, <1>3, TwoAnswers

LEMMA ReturnSound ==
    ASSUME NEW G, NEW B, DatabaseInv(G, B), NEW d \in Device, Sound(d), NEW a \in Answers(d),
           NEW T, NEW calls \in Seq(T), Steady(calls, Final(d)), Return(d, a, calls)
    PROVE  Sound(d)' /\ Final(d)' = Stand(calls, Len(calls), Final(d))
<1>1. /\ todo'[d] = a.todo \o calls /\ wire'[d] = wire[d] /\ held'[d] = held[d]
      /\ UNCHANGED <<record, up, online>>
      BY DEF Return, DatabaseInv, linkVars
<1>2. Informed(d, DisplayName)'
      BY ReturnInformed DEF Sound
<1>3. /\ a.todo \in Seq(Call(G, B[d])) /\ Steady(a.todo, Base(d))
      /\ Stand(a.todo, Len(a.todo), Base(d)) = Final(d)
      BY AnswerTaken
<1>4. QED
      BY <1>1, <1>2, <1>3, SoundPuts

\* A user who waits is inside, and so is one whose queues are asked for no name.
LEMMA PatientInside ==
    ASSUME NEW G, NEW B, DatabaseInv(G, B), QueueInv, NEW d \in Device, Orderly(d),
           ~Overlap, Overlap \/ Patient(d), ~Left(d)
    PROVE  up[d] /\ Silent(d) /\ Inside(d)
<1>1. up[d]
      BY DEF QueueInv, QueueOf, Left
<1>2. Silent(d)
      BY IdleIsSilent DEF Patient
<1>3. ~Entering(d)
      BY <1>2, ComingIsHeard
<1>4. QED
      BY <1>1, <1>2, <1>3 DEF Orderly, Away, Coming

\* Mild calls leave the wishes and the fields as they are.
LEMMA MildStands ==
    ASSUME NEW calls, Mild(calls), NEW b, There(b)
    PROVE  /\ Steady(calls, b) /\ There(Stand(calls, Len(calls), b))
           /\ \A l \in Wishable : Stand(calls, Len(calls), b)[l] = b[l]
<1>1. PICK S : calls \in Seq(S)
      BY DEF Mild
<1>2. Wishable \subseteq Leaf
      BY LeavesAreLeaves DEF Wishable
<1>3. Steady(calls, b) /\ There(Stand(calls, Len(calls), b))
      BY <1>1, MildIsFelt, SteadyGiven
<1>4. ASSUME NEW l \in Wishable
      PROVE  Stand(calls, Len(calls), b)[l] = b[l]
      BY <1>1, <1>2, MildIsFelt, UntouchedStands
<1>5. QED
      BY <1>3, <1>4

LEMMA PutsNameless ==
    ASSUME NEW d \in Device, Nameless(d), NEW S, NEW t \in Seq(S), Elems(t) \subseteq Elems(todo[d]),
           NEW T, NEW calls \in Seq(T), \A x \in Elems(calls) : ~IsName(x),
           todo'[d] = t \o calls, wire'[d] = wire[d], held'[d] = held[d],
           Elems(inbox'[d]) \subseteq Elems(inbox[d])
    PROVE  Nameless(d)'
<1>1. Elems(t \o calls) = Elems(t) \cup Elems(calls)
      BY ElemsOfConcat
<1>2. Elems(todo'[d]) \subseteq Elems(todo[d]) \cup Elems(calls)
      BY <1>1
<1>3. QED
      BY <1>2 DEF Nameless, Underway

LEMMA DispatchNameless ==
    ASSUME NEW G, NEW B, DatabaseInv(G, B), NEW d \in Device, Nameless(d),
           NEW T, NEW calls \in Seq(T), \A x \in Elems(calls) : ~IsName(x), Dispatch(d, calls)
    PROVE  Nameless(d)'
<1>1. /\ todo'[d] = todo[d] \o calls /\ wire'[d] = wire[d] /\ held'[d] = held[d]
      /\ inbox'[d] = inbox[d]
      BY DEF Dispatch, DatabaseInv
<1>2. todo[d] \in Seq(Call(G, B[d]))
      BY DEF DatabaseInv
<1>3. QED
      BY <1>1, <1>2, PutsNameless

LEMMA ReturnNameless ==
    ASSUME NEW G, NEW B, DatabaseInv(G, B), NEW d \in Device, Sound(d), Nameless(d),
           NEW a \in Answers(d), NEW T, NEW calls \in Seq(T),
           \A x \in Elems(calls) : ~IsName(x), Return(d, a, calls)
    PROVE  Nameless(d)'
<1>1. /\ todo'[d] = a.todo \o calls /\ wire'[d] = wire[d] /\ held'[d] = held[d]
      /\ inbox'[d] = a.inbox
      BY DEF Return, DatabaseInv
<1>2. /\ a.todo \in Seq(Call(G, B[d])) /\ Elems(a.todo) \subseteq Elems(todo[d])
      /\ Elems(a.inbox) \subseteq Elems(inbox[d])
      BY AnswerTaken
<1>3. QED
      BY <1>1, <1>2, PutsNameless

LEMMA DispatchSpares ==
    ASSUME NEW d, NEW calls, Dispatch(d, calls) \/ \E a : Return(d, a, calls)
    PROVE  (ProcessHasEnded' <=> ProcessHasEnded) /\ UNCHANGED up
BY DEF Dispatch, Return, linkVars, ProcessHasEnded

LEMMA ActsOrderly ==
    ASSUME NEW G, NEW B, DatabaseInv(G, B), QueueInv, NEW d \in Device, ~Overlap, Orderly(d),
           Acts(d)
    PROVE  Orderly(d)'
<1>1. PICK calls : Mild(calls) /\ Dispatch(d, calls)
      BY DEF Acts
<1>2. PICK T : calls \in Seq(T)
      BY <1>1 DEF Mild
<1>3. Inside(d) /\ Sound(d)
      BY PatientInside DEF Acts, MayAct, Left, Orderly
<1>4. /\ Steady(calls, Final(d)) /\ There(Stand(calls, Len(calls), Final(d)))
      /\ \A l \in Wishable : Stand(calls, Len(calls), Final(d))[l] = Final(d)[l]
      BY <1>1, <1>3, MildStands DEF Inside
<1>5. Sound(d)' /\ Final(d)' = Stand(calls, Len(calls), Final(d))
      BY <1>1, <1>2, <1>3, <1>4, DispatchSound
<1>6. Nameless(d)'
      BY <1>1, <1>2, <1>3, MildIsFelt, DispatchNameless DEF Inside
<1>7. stage' = stage /\ wishes' = wishes
      BY DEF Acts, NoOtherWish
<1>8. Inside(d)'
      BY <1>3, <1>4, <1>5, <1>6, <1>7 DEF Inside, Left
<1>9. ~ProcessHasEnded' => Wished(d)'
  <2>1. ProcessHasEnded' <=> ProcessHasEnded
        BY <1>1, DispatchSpares
  <2>2. QED
        BY <1>4, <1>5, <1>7, <2>1 DEF Orderly, Wished
<1>10. QED
       BY <1>5, <1>8, <1>9 DEF Orderly

\* A wish: one leaf is written, and mild calls follow.
LEMMA SavesOrderly ==
    ASSUME NEW G, NEW B, DatabaseInv(G, B), QueueInv, NEW d \in Device, ~Overlap, Orderly(d),
           DOMAIN wishes = Wishable, Saves(d)
    PROVE  Orderly(d)'
<1>1. PICK k \in Wishable, v \in Int : \E g :
          Mild(g) /\ Wish(k, v) /\ Dispatch(d, <<SetValue(SetLeaf(k, v))>> \o g)
      BY DEF Saves
<1>2. PICK g : Mild(g) /\ Wish(k, v) /\ Dispatch(d, <<SetValue(SetLeaf(k, v))>> \o g)
      BY <1>1
<1>3. PICK S : g \in Seq(S)
      BY <1>2 DEF Mild
<1>4. PICK x : x = SetValue(SetLeaf(k, v))
      OBVIOUS
<1>5. PICK b : b = Final(d)
      OBVIOUS
<1>6. Inside(d) /\ Sound(d) /\ There(b)
      BY <1>5, PatientInside DEF Saves, Orderly, Inside
<1>7. b = [l \in Leaf |-> b[l]]
      BY <1>5, BaseIsARow
<1>8. /\ x.kind = "put" /\ DOMAIN x.write = {k} /\ x.write[k] = v /\ v # Absent
      /\ ~IsName(x)
      BY <1>4, SchemaAssumption DEF SetValue, SetLeaf, IsName, IsAsk
<1>9. PICK c : c = After(x, b)
      OBVIOUS
<1>10. /\ DOMAIN c = Leaf /\ c[k] = v /\ There(c)
       /\ \A l \in Wishable : l # k => c[l] = b[l]
  <2>1. DOMAIN b = Leaf
        BY <1>7
  <2>2. c = Overlay(b, x.write)
        BY <1>8, <1>9 DEF After
  <2>3. DOMAIN c = Leaf /\ \A l \in Leaf : c[l] = IF l = k THEN v ELSE b[l]
        BY <1>8, <2>1, <2>2 DEF Overlay
  <2>4. Wishable \subseteq Leaf /\ Field \subseteq Leaf
        BY LeavesAreLeaves, FieldIsLeaf DEF Wishable
  <2>5. QED
        BY <1>6, <1>8, <2>3, <2>4 DEF There
<1>11. Steady(<<x>>, b) /\ Stand(<<x>>, Len(<<x>>), b) = c
  <2>1. Whole(b) /\ Whole(After(x, b))
        BY <1>6, <1>9, <1>10 DEF Whole
  <2>2. QED
        BY <1>7, <1>9, <2>1, SteadyOne
<1>12. /\ Steady(g, c) /\ There(Stand(g, Len(g), c))
       /\ \A l \in Wishable : Stand(g, Len(g), c)[l] = c[l]
       BY <1>2, <1>10, MildStands
<1>13. PICK f : f = <<x>>
       OBVIOUS
<1>14. f \in Seq({x}) /\ Elems(f) = {x}
       BY <1>13 DEF Elems
<1>15. /\ Steady(f \o g, b)
       /\ Stand(f \o g, Len(f \o g), b) = Stand(g, Len(g), c)
  <2>1. Steady(f, b) /\ Stand(f, Len(f), b) = c
        BY <1>11, <1>13
  <2>2. f \in Seq({x}) /\ g \in Seq(S) /\ Steady(g, Stand(f, Len(f), b))
        BY <1>3, <1>12, <1>14, <2>1
  <2>3. QED
        BY <2>1, <2>2, SteadyJoined
<1>16. PICK calls : calls = f \o g
       OBVIOUS
<1>17. calls \in Seq({x} \cup S)
  <2>1. f \in Seq({x} \cup S) /\ g \in Seq({x} \cup S)
        BY <1>3, <1>14, SeqWidens
  <2>2. QED
        BY <1>16, <2>1
<1>18. Dispatch(d, calls)
       BY <1>2, <1>4, <1>13, <1>16
<1>19. Sound(d)' /\ Final(d)' = Stand(g, Len(g), c)
       BY <1>5, <1>6, <1>15, <1>16, <1>17, <1>18, DispatchSound
<1>20. Nameless(d)'
  <2>1. Elems(calls) = {x} \cup Elems(g)
        BY <1>3, <1>14, <1>16, ElemsOfConcat
  <2>2. \A y \in Elems(calls) : ~IsName(y)
        BY <1>2, <1>8, <2>1, MildIsFelt
  <2>3. QED
        BY <1>6, <1>17, <1>18, <2>2, DispatchNameless DEF Inside
<1>21. Inside(d)'
       BY <1>12, <1>19, <1>20 DEF Inside, Saves
<1>22. ~ProcessHasEnded' => Wished(d)'
  <2>1. ProcessHasEnded' <=> ProcessHasEnded
        BY <1>18, DispatchSpares
  <2>2. wishes' = [wishes EXCEPT ![k] = v]
        BY <1>2 DEF Wish
  <2>3. ASSUME ~ProcessHasEnded, NEW l \in Wishable, wishes'[l] # Absent
        PROVE  Final(d)'[l] = wishes'[l]
    <3>1. Final(d)'[l] = c[l]
          BY <1>12, <1>19
    <3>2. CASE l = k
          BY <1>10, <2>2, <3>1, <3>2
    <3>3. CASE l # k
      <4>1. wishes'[l] = wishes[l] /\ c[l] = b[l]
            BY <1>10, <2>2, <3>3
      <4>2. QED
            BY <1>5, <2>3, <3>1, <4>1 DEF Orderly, Wished
    <3>4. QED
          BY <3>2, <3>3
  <2>4. QED
        BY <2>1, <2>3 DEF Wished
<1>23. QED
       BY <1>19, <1>21, <1>22 DEF Orderly

\* Before the name is known only the Dashboard's question can be answered, on the spot.
LEMMA ComingAnswers ==
    ASSUME NEW G, NEW B, DatabaseInv(G, B), NEW d \in Device, Entering(d), NEW a \in Answers(d),
           a.then.op # "displayName"
    PROVE  /\ OnTheSpot(d, a) /\ a.then.op = "dashboard" /\ ~ToSend(d)
<1>1. todo[d] \in Seq(Call(G, B[d])) /\ inbox[d] \in Seq(Message(G, B[d]))
      BY DEF DatabaseInv
<1>2. CASE OnTheSpot(d, a)
  <2>1. PICK s \in Seq(Call(G, B[d])) : s = todo[d] /\ s # <<>>
        BY <1>1, <1>2 DEF OnTheSpot
  <2>2. IsAsk(Head(s)) /\ ~IsName(Head(s)) /\ Head(s).then = a.then
        BY <1>2, <2>1 DEF OnTheSpot, IsAsk, IsName
  <2>3. ~ToSend(d)
    <3>1. ASSUME NameAsked(s, record[DisplayName])
          PROVE  FALSE
      <4>1. PICK v : v = record[DisplayName]
            OBVIOUS
      <4>2. AsksName(Head(s), v) \/ ~IsAsk(Head(s))
            BY <2>1, <3>1, <4>1, NameAskedRest
      <4>3. QED
            BY <2>2, <4>2 DEF AsksName
    <3>2. QED
          BY <2>1, <3>1 DEF ToSend
  <2>4. Tame(s)
        BY <2>1, <2>3 DEF Entering, Sent, Answered
  <2>5. IsTame(Head(s))
        BY <2>1, <2>4, OthersRest
  <2>6. QED
        BY <1>2, <2>2, <2>3, <2>5 DEF IsTame
<1>3. CASE OfServer(d, a)
  <2>1. PICK s \in Seq(Message(G, B[d])) : s = inbox[d] /\ s # <<>>
        BY <1>1, <1>3 DEF OfServer
  <2>2. IsAsk(Head(s)) /\ ~IsName(Head(s))
        BY <1>3, <2>1 DEF OfServer, IsAsk, IsName
  <2>3. ~Unasked(s)
        BY <2>1, <2>2, OthersRest
  <2>4. NameAsked(s, record[DisplayName])
        BY <2>1, <2>3 DEF Entering, ToSend, Sent, Answered
  <2>5. PICK v : v = record[DisplayName]
        OBVIOUS
  <2>6. AsksName(Head(s), v) \/ ~IsAsk(Head(s))
        BY <2>1, <2>4, <2>5, NameAskedRest
  <2>7. QED
        BY <2>2, <2>6 DEF AsksName
<1>4. QED
      BY <1>2, <1>3, TwoAnswers

\* It changes nothing but the queue.
LEMMA DashboardComing ==
    ASSUME NEW G, NEW B, DatabaseInv(G, B), NEW d \in Device, Entering(d), NEW a \in Answers(d),
           a.then.op # "displayName", Return(d, a, <<>>)
    PROVE  Entering(d)'
<1>1. OnTheSpot(d, a) /\ ~ToSend(d)
      BY ComingAnswers
<1>2. todo[d] \in Seq(Call(G, B[d])) /\ todo[d] # <<>>
      BY <1>1 DEF DatabaseInv, OnTheSpot
<1>3. PICK S : S = Call(G, B[d])
      OBVIOUS
<1>4. PICK s \in Seq(S) : s = todo[d] /\ s # <<>>
      BY <1>2, <1>3
<1>5. PICK t \in Seq(S) : t = Tail(s)
      BY <1>4, TailIsShorter
<1>6. t \o <<>> = t
      BY <1>5
<1>7. /\ todo'[d] = t /\ UNCHANGED <<record, wire>>
      /\ inbox'[d] = inbox[d]
      BY <1>1, <1>4, <1>5, <1>6 DEF Return, DatabaseInv, OnTheSpot
<1>8. Tame(todo[d]) /\ (Sent(d) \/ Answered(d))
      BY <1>1 DEF Entering, Sent, Answered
<1>9. Tame(t)
      BY <1>4, <1>5, <1>8, OthersRest
<1>10. QED
       BY <1>7, <1>8, <1>9 DEF Entering, Sent, Answered

\* A process that has ended hears no answers.
LEMMA DeadAnswers ==
    ASSUME QueueInv, NEW d \in Device, ~up[d]
    PROVE  Answers(d) = {}
<1>1. todo[d] = <<>> /\ inbox[d] = <<>>
      BY DEF QueueInv, QueueOf
<1>2. QED
      BY <1>1 DEF Answers, First

LEMMA RunsOrderly ==
    ASSUME NEW G, NEW B, DatabaseInv(G, B), QueueInv, NEW d \in Device, Orderly(d), Runs(d)
    PROVE  Orderly(d)'
<1>1. PICK a \in Answers(d) : \E calls :
          /\ Mild(calls) /\ Return(d, a, calls)
          /\ a.then.op # "displayName"
          /\ a.then.op = "dashboard" => calls = <<>>
      BY DEF Runs
<1>2. PICK calls : /\ Mild(calls) /\ Return(d, a, calls)
                   /\ a.then.op # "displayName"
                   /\ a.then.op = "dashboard" => calls = <<>>
      BY <1>1
<1>3. PICK T : calls \in Seq(T)
      BY <1>2 DEF Mild
<1>4. Sound(d) /\ (Coming(d) \/ Inside(d))
      BY DeadAnswers, SilentAnswers DEF Orderly, Away
<1>5. ProcessHasEnded' <=> ProcessHasEnded
      BY <1>2, DispatchSpares
<1>6. stage' = stage /\ wishes' = wishes
      BY DEF Runs, NoOtherWish
<1>7. CASE Inside(d)
  <2>1. /\ Steady(calls, Final(d)) /\ There(Stand(calls, Len(calls), Final(d)))
        /\ \A l \in Wishable : Stand(calls, Len(calls), Final(d))[l] = Final(d)[l]
        BY <1>2, <1>7, MildStands DEF Inside
  <2>2. Sound(d)' /\ Final(d)' = Stand(calls, Len(calls), Final(d))
        BY <1>2, <1>3, <1>4, <2>1, ReturnSound
  <2>3. Nameless(d)'
        BY <1>2, <1>3, <1>4, <1>7, MildIsFelt, ReturnNameless DEF Inside
  <2>4. Inside(d)'
        BY <1>6, <1>7, <2>1, <2>2, <2>3 DEF Inside, Left
  <2>5. ~ProcessHasEnded' => Wished(d)'
        BY <1>5, <1>6, <2>1, <2>2 DEF Orderly, Wished
  <2>6. QED
        BY <2>2, <2>4, <2>5 DEF Orderly
<1>8. CASE Coming(d)
  <2>1. Entering(d)
        BY <1>8 DEF Coming
  <2>2. calls = <<>>
        BY <1>2, <2>1, ComingAnswers
  <2>3. PICK b : b = Final(d) /\ b = [l \in Leaf |-> b[l]] /\ Whole(b)
        BY <1>4, FinalIsWhole, BaseIsARow
  <2>4. None(calls, "put")
        BY <2>2 DEF None
  <2>5. Steady(calls, b) /\ Stand(calls, Len(calls), b) = b
        BY <1>3, <2>3, <2>4, NoPutsSteady
  <2>6. Sound(d)' /\ Final(d)' = Final(d)
        BY <1>2, <1>3, <1>4, <2>3, <2>5, ReturnSound
  <2>7. Entering(d)'
        BY <1>2, <2>1, <2>2, DashboardComing
  <2>8. Coming(d)'
        BY <1>6, <1>8, <2>7 DEF Coming, Left
  <2>9. ~ProcessHasEnded' => Wished(d)'
        BY <1>5, <1>6, <2>6 DEF Orderly, Wished
  <2>10. QED
         BY <2>6, <2>8, <2>9 DEF Orderly
<1>9. QED
      BY <1>4, <1>7, <1>8

\* The question for the name is put last, and only the Dashboard's after it.
LEMMA SignInIsTame ==
    ASSUME NEW d, NEW v, NEW calls \in {<<>>, PopulateDashboard(d)}
    PROVE  \E S : \E g \in Seq(S) :
              /\ g = <<GetData({DisplayName}, NameAnswer)>> \o calls
              /\ NameAsked(g, v) /\ None(g, "put")
<1>1. PICK q : q = GetData({DisplayName}, NameAnswer)
      OBVIOUS
<1>2. PICK f : f = <<q>>
      OBVIOUS
<1>3. f \in Seq({q}) /\ Elems(f) = {q} /\ f[1] = q /\ DOMAIN f = {1}
      BY <1>2 DEF Elems
<1>4. /\ q.kind = "get" /\ q.leaves = {DisplayName} /\ q.then.op = "displayName"
      BY <1>1 DEF GetData, NameAnswer
<1>5. NameAsked(f, v)
  <2>1. AsksName(q, v)
        BY <1>4 DEF AsksName, IsName, IsAsk
  <2>2. AskedAt(f, 1, v)
        BY <1>3, <2>1 DEF AskedAt
  <2>3. QED
        BY <1>3, <2>2 DEF NameAsked
<1>6. PICK o : o = ObserveUsers(d)
      OBVIOUS
<1>7. o \in Seq({Observe}) /\ Elems(o) \subseteq {Observe}
  <2>1. <<>> \in Seq({Observe}) /\ Elems(<<>>) = {}
        BY DEF Elems
  <2>2. PICK x : x = Observe
        OBVIOUS
  <2>3. <<x>> \in Seq({x}) /\ Elems(<<x>>) = {x}
        BY DEF Elems
  <2>4. o = <<>> \/ o = <<x>>
        BY <1>6, <2>2 DEF ObserveUsers
  <2>5. QED
        BY <2>1, <2>2, <2>3, <2>4
<1>8. PICK p : p = GetData(Leaf, [op |-> "dashboard"])
      OBVIOUS
<1>9. PICK e : e = <<p>>
      OBVIOUS
<1>10. e \in Seq({p}) /\ Elems(e) = {p}
       BY <1>9 DEF Elems
<1>11. IsTame(p) /\ IsTame(Observe)
       BY <1>8 DEF GetData, Observe, IsTame, IsAsk
<1>12. \E R : calls \in Seq(R) /\ Elems(calls) \subseteq {p, Observe}
  <2>1. CASE calls = <<>>
    <3>1. <<>> \in Seq({}) /\ Elems(<<>>) = {}
          BY DEF Elems
    <3>2. QED
          BY <2>1, <3>1
  <2>2. CASE calls = PopulateDashboard(d)
    <3>1. calls = e \o o
          BY <1>6, <1>8, <1>9, <2>2 DEF PopulateDashboard
    <3>2. e \in Seq({p, Observe}) /\ o \in Seq({p, Observe})
          BY <1>7, <1>10, SeqWidens
    <3>3. calls \in Seq({p, Observe})
          BY <3>1, <3>2
    <3>4. Elems(e \o o) = Elems(e) \cup Elems(o)
          BY <3>2, ElemsOfConcat
    <3>5. QED
          BY <1>7, <1>10, <3>1, <3>3, <3>4
  <2>3. QED
        BY <2>1, <2>2
<1>13. PICK R : calls \in Seq(R) /\ Tame(calls) /\ \A x \in Elems(calls) : x.kind # "put"
  <2>1. p.kind # "put" /\ Observe.kind # "put"
        BY <1>8 DEF GetData, Observe
  <2>2. QED
        BY <1>11, <1>12, <2>1 DEF Tame
<1>14. NameAsked(f \o calls, v)
       BY <1>3, <1>5, <1>13, NameAskedJoined
<1>15. PICK g : g = f \o calls
       OBVIOUS
<1>16. g \in Seq({q} \cup R)
  <2>1. f \in Seq({q} \cup R) /\ calls \in Seq({q} \cup R)
        BY <1>3, <1>13, SeqWidens
  <2>2. QED
        BY <1>15, <2>1
<1>17. None(g, "put")
  <2>1. Elems(g) = Elems(f) \cup Elems(calls)
        BY <1>3, <1>13, <1>15, ElemsOfConcat
  <2>2. \A x \in Elems(g) : x.kind # "put"
        BY <1>3, <1>4, <1>13, <2>1
  <2>3. QED
        BY <2>2 DEF None, Elems
<1>18. QED
       BY <1>1, <1>2, <1>14, <1>15, <1>16, <1>17

LEMMA SignInOrderly ==
    ASSUME NEW G, NEW B, DatabaseInv(G, B), QueueInv, NEW d \in Device, Orderly(d), SignsIn(d)
    PROVE  Orderly(d)'
<1>1. PICK screen, calls :
          /\ screen \notin {"login", "leaving"} /\ calls \in {<<>>, PopulateDashboard(d)}
          /\ SignIn(d, screen, calls)
      BY DEF SignsIn
<1>2. up[d] /\ Left(d) /\ ~Left(d)'
      BY <1>1 DEF SignIn, QueueInv, Left
<1>3. Sound(d) /\ Silent(d)
      BY <1>2 DEF Orderly, Away, Coming, Inside
<1>4. PICK v : v = record[DisplayName]
      OBVIOUS
<1>5. PICK S : \E g \in Seq(S) :
          /\ g = <<GetData({DisplayName}, NameAnswer)>> \o calls
          /\ NameAsked(g, v) /\ None(g, "put")
      BY <1>1, SignInIsTame
<1>6. PICK g \in Seq(S) :
          /\ g = <<GetData({DisplayName}, NameAnswer)>> \o calls
          /\ NameAsked(g, v) /\ None(g, "put")
      BY <1>5
<1>7. Dispatch(d, g)
      BY <1>1, <1>6 DEF SignIn
<1>8. PICK b : b = Final(d) /\ b = [l \in Leaf |-> b[l]] /\ Whole(b)
      BY <1>3, FinalIsWhole, BaseIsARow
<1>9. Steady(g, b) /\ Stand(g, Len(g), b) = b
      BY <1>6, <1>8, NoPutsSteady
<1>10. Sound(d)' /\ Final(d)' = Final(d)
       BY <1>3, <1>6, <1>7, <1>8, <1>9, DispatchSound
<1>11. Entering(d)'
  <2>1. /\ todo'[d] = todo[d] \o g /\ wire'[d] = wire[d] /\ inbox'[d] = inbox[d]
        /\ record' = record
        BY <1>7 DEF Dispatch, DatabaseInv
  <2>2. Unasked(todo[d]) /\ Unasked(wire[d]) /\ Unasked(inbox[d])
        BY <1>3 DEF Silent, Underway, Unasked
  <2>3. todo[d] \in Seq(Call(G, B[d]))
        BY DEF DatabaseInv
  <2>4. NameAsked(todo[d] \o g, v)
        BY <1>6, <2>2, <2>3, NameAskedJoined
  <2>5. QED
        BY <1>4, <2>1, <2>2, <2>4 DEF Entering, ToSend, Unasked
<1>12. ~ProcessHasEnded' => Wished(d)'
  <2>1. ProcessHasEnded' <=> ProcessHasEnded
        BY <1>7, DispatchSpares
  <2>2. wishes' = wishes
        BY DEF SignsIn
  <2>3. QED
        BY <1>10, <2>1, <2>2 DEF Orderly, Wished
<1>13. QED
       BY <1>2, <1>10, <1>11, <1>12 DEF Orderly, Coming

\* The app does nothing to the queues.
LEMMA UnmovedOrderly ==
    ASSUME NEW G, NEW B, Allows(G), DatabaseInv(G, B), QueueInv, NEW d \in Device, Orderly(d),
           Unmoved(d)
    PROVE  Orderly(d)'
<1>1. UNCHANGED <<stage, wishes>>
      BY DEF Unmoved, NoOtherWish
<1>2. CASE UNCHANGED dbVars
  <2>1. UNCHANGED <<record, todo, pending, wire, held, inbox, cache, listens, watching,
                    online, up, faults>>
        BY <1>2 DEF dbVars, clientVars, linkVars
  <2>2. Base(d)' = Base(d) /\ Final(d)' = Final(d)
        BY <2>1, BaseStays DEF Final
  <2>3. Informed(d, DisplayName) => Informed(d, DisplayName)'
        BY <2>1, StaysInformed
  <2>4. Sound(d) => Sound(d)'
        BY <2>1, <2>2, <2>3 DEF Sound, Linked
  <2>5. (Silent(d) => Silent(d)') /\ (Nameless(d) => Nameless(d)') /\ (Entering(d) => Entering(d)')
        BY <2>1 DEF Silent, Nameless, Underway, Entering, ToSend, Sent, Answered
  <2>6. ProcessHasEnded' <=> ProcessHasEnded
        BY <2>1 DEF ProcessHasEnded
  <2>7. Wished(d) => Wished(d)'
        BY <1>1, <2>2 DEF Wished
  <2>8. (Away(d) => Away(d)') /\ (Coming(d) => Coming(d)') /\ (Inside(d) => Inside(d)')
        BY <1>1, <2>2, <2>5 DEF Away, Coming, Inside, Left
  <2>9. QED
        BY <2>1, <2>4, <2>6, <2>7, <2>8 DEF Orderly
<1>3. CASE ReceiveEvent(d)
  <2>1. UNCHANGED <<record, todo, wire, held, online, up, faults>>
        BY <1>3 DEF ReceiveEvent, linkVars
  <2>2. Base(d)' = Base(d) /\ Final(d)' = Final(d)
        BY <2>1, BaseStays DEF Final
  <2>3. Informed(d, DisplayName)'
        BY <1>3, EventInformed, LeavesAreLeaves DEF Orderly, Sound
  <2>4. Sound(d)'
        BY <2>1, <2>2, <2>3 DEF Orderly, Sound, Linked
  <2>5. (Silent(d) => Silent(d)') /\ (Nameless(d) => Nameless(d)')
        BY <1>3, EventAsksNothing, StaysSilent, StaysNameless
  <2>6. Entering(d) => Entering(d)'
        BY <1>3, EventEntering
  <2>7. ProcessHasEnded' <=> ProcessHasEnded
        BY <2>1 DEF ProcessHasEnded
  <2>8. Wished(d) => Wished(d)'
        BY <1>1, <2>2 DEF Wished
  <2>9. (Away(d) => Away(d)') /\ (Coming(d) => Coming(d)') /\ (Inside(d) => Inside(d)')
        BY <1>1, <2>2, <2>5, <2>6 DEF Away, Coming, Inside, Left
  <2>10. QED
         BY <2>1, <2>4, <2>7, <2>8, <2>9 DEF Orderly
<1>4. QED
      BY <1>2, <1>3 DEF Unmoved

LEMMA LeavesOrderly ==
    ASSUME NEW G, NEW B, DatabaseInv(G, B), QueueInv, NEW d \in Device, ~Overlap, Orderly(d),
           Leaves(d)
    PROVE  Orderly(d)'
<1>1. CASE SignOutButtonPressed(d)
  <2>1. Patient(d) /\ UNCHANGED dbVars /\ wishes' = wishes /\ stage'[d] = "login"
        BY <1>1 DEF SignOutButtonPressed, MayStart, MayAct, Leave, accountVars, QueueInv
  <2>2. Silent(d)
        BY <2>1, IdleIsSilent DEF Patient
  <2>3. UNCHANGED <<record, todo, pending, wire, held, inbox, cache, listens, watching,
                    online, up, faults>>
        BY <2>1 DEF dbVars, clientVars, linkVars
  <2>4. Base(d)' = Base(d) /\ Final(d)' = Final(d)
        BY <2>3, BaseStays DEF Final
  <2>5. Informed(d, DisplayName)'
        BY <2>3, StaysInformed DEF Orderly, Sound
  <2>6. Sound(d)'
        BY <2>3, <2>4, <2>5 DEF Orderly, Sound, Linked
  <2>7. Away(d)'
        BY <2>1, <2>2, <2>3 DEF Away, Left, Silent, Underway
  <2>8. ~ProcessHasEnded' => Wished(d)'
        BY <2>1, <2>3, <2>4 DEF Orderly, Wished, ProcessHasEnded
  <2>9. QED
        BY <2>6, <2>7, <2>8 DEF Orderly
<1>2. CASE DeleteButtonPressed(d)
  <2>1. PICK x : x = SetValue(Nothing)
        OBVIOUS
  <2>2. PICK calls : calls = <<x>>
        OBVIOUS
  <2>3. Dispatch(d, calls) /\ wishes' = NoWishes
        BY <1>2, <2>1, <2>2 DEF DeleteButtonPressed, RemovedUser
  <2>4. calls \in Seq({x})
        BY <2>2
  <2>5. PICK b : b = Final(d) /\ b = [l \in Leaf |-> b[l]] /\ Whole(b)
        BY FinalIsWhole, BaseIsARow DEF Orderly
  <2>6. Steady(calls, b)
    <3>1. After(x, b) = Nothing
          BY <2>1, <2>5, AllRemoved
    <3>2. QED
          BY <2>2, <2>5, <3>1, NothingIsWhole, SteadyOne
  <2>7. Sound(d)'
        BY <2>3, <2>4, <2>5, <2>6, DispatchSound DEF Orderly
  <2>8. Away(d)'
        BY <1>2, DeletedIsGone DEF Gone, Away
  <2>9. Wished(d)'
        BY <2>3 DEF Wished, NoWishes
  <2>10. QED
         BY <2>7, <2>8, <2>9 DEF Orderly
<1>3. QED
      BY <1>1, <1>2 DEF Leaves

LEMMA WishableIsLeaf == Wishable \subseteq Leaf \ {Notifications}
<1>1. Notifications \notin Wishable
      BY DEF Wishable, DisplayName, Avatar, OnLeaderboard, Notifications
<1>2. QED
      BY <1>1, LeavesAreLeaves DEF Wishable

\* The permission is written, wherever the user is by then.
LEMMA PermitsOrderly ==
    ASSUME NEW G, NEW B, DatabaseInv(G, B), QueueInv, NEW d \in Device, Orderly(d), Permits(d)
    PROVE  Orderly(d)'
<1>1. PICK x : x = SetValue(SetLeaf(Notifications, 0)) /\ PermissionWrite = <<x>>
      BY DEF PermissionWrite
<1>2. PICK calls : calls = <<x>> /\ Dispatch(d, calls)
      BY <1>1 DEF Permits
<1>3. calls \in Seq({x}) /\ Elems(calls) = {x} /\ ~IsAsk(x) /\ IsTame(x)
      BY <1>1, <1>2 DEF Elems, SetValue, SetLeaf, IsAsk, IsTame
<1>4. PICK b : b = Final(d) /\ b = [l \in Leaf |-> b[l]] /\ Whole(b)
      BY FinalIsWhole, BaseIsARow DEF Orderly
<1>5. PICK c : c = After(x, b) /\ \A l \in Leaf \ {Notifications} : c[l] = b[l]
      BY <1>1, <1>4, PermissionHolds
<1>6. Whole(c) /\ (There(c) <=> There(b))
      BY <1>4, <1>5, AlikeWhole
<1>7. Steady(calls, b) /\ Stand(calls, Len(calls), b) = c
      BY <1>2, <1>4, <1>5, <1>6, SteadyOne
<1>8. Sound(d)' /\ Final(d)' = c
      BY <1>2, <1>3, <1>4, <1>7, DispatchSound DEF Orderly
<1>9. /\ todo[d] \in Seq(Call(G, B[d])) /\ todo'[d] = todo[d] \o calls
      /\ UNCHANGED <<record, wire, held, inbox>>
      BY <1>2 DEF Dispatch, DatabaseInv
<1>10. Away(d) => Away(d)'
  <2>1. Elems(todo'[d]) = Elems(todo[d]) \cup {x}
        BY <1>3, <1>9, ElemsOfConcat
  <2>2. QED
        BY <1>3, <1>9, <2>1 DEF Away, Left, Silent, Underway, Permits, NoOtherWish
<1>11. Coming(d) => Coming(d)'
  <2>1. Tame(calls)
        BY <1>3 DEF Tame
  <2>2. Tame(todo[d]) => Tame(todo'[d])
        BY <1>3, <1>9, <2>1, OthersJoined
  <2>3. PICK v : v = record[DisplayName]
        OBVIOUS
  <2>4. NameAsked(todo[d], v) => NameAsked(todo'[d], v)
        BY <1>3, <1>9, <2>1, NameAskedJoined
  <2>5. Entering(d) => Entering(d)'
        BY <1>9, <2>2, <2>3, <2>4 DEF Entering, ToSend, Sent, Answered
  <2>6. QED
        BY <2>5 DEF Coming, Left, Permits, NoOtherWish
<1>12. Inside(d) => Inside(d)'
  <2>1. Nameless(d) => Nameless(d)'
        BY <1>2, <1>3, DispatchNameless DEF IsName
  <2>2. QED
        BY <1>4, <1>6, <1>8, <2>1 DEF Inside, Left, Permits, NoOtherWish
<1>13. ~ProcessHasEnded' => Wished(d)'
  <2>1. ProcessHasEnded' <=> ProcessHasEnded
        BY <1>2, DispatchSpares
  <2>2. \A l \in Wishable : c[l] = b[l]
        BY <1>5, WishableIsLeaf
  <2>3. wishes' = wishes
        BY DEF Permits, NoOtherWish
  <2>4. QED
        BY <1>4, <1>8, <2>1, <2>2, <2>3 DEF Orderly, Wished
<1>14. up'[d] = up[d]
       BY <1>2, DispatchSpares
<1>15. QED
       BY <1>8, <1>10, <1>11, <1>12, <1>13, <1>14 DEF Orderly

LEMMA LoginOrderly ==
    ASSUME QueueInv, NEW d \in Device, Orderly(d), LoginViewDidLoad(d)
    PROVE  Orderly(d)'
<1>1. UNCHANGED dbVars /\ wishes' = wishes /\ Left(d) /\ Left(d)'
      BY DEF LoginViewDidLoad, Leave, Left, accountVars, QueueInv
<1>2. UNCHANGED <<record, todo, pending, wire, held, inbox, cache, listens, watching,
                  online, up, faults>>
      BY <1>1 DEF dbVars, clientVars, linkVars
<1>3. Base(d)' = Base(d) /\ Final(d)' = Final(d)
      BY <1>2, BaseStays DEF Final
<1>4. Informed(d, DisplayName)'
      BY <1>2, StaysInformed DEF Orderly, Sound
<1>5. Sound(d)'
      BY <1>2, <1>3, <1>4 DEF Orderly, Sound, Linked
<1>6. Silent(d) => Silent(d)'
      BY <1>2 DEF Silent, Underway
<1>7. ~up[d] \/ Away(d)
      BY <1>1 DEF Orderly, Away, Coming, Inside
<1>8. ~up'[d] \/ Away(d)'
      BY <1>1, <1>2, <1>6, <1>7 DEF Away
<1>9. ~ProcessHasEnded' => Wished(d)'
      BY <1>1, <1>2, <1>3 DEF Orderly, Wished, ProcessHasEnded
<1>10. QED
       BY <1>5, <1>8, <1>9 DEF Orderly

\* The answer to a sign-in's question says whether there is a name, and so a record.
LEMMA NameIsKnown ==
    ASSUME NEW G, NEW B, DatabaseInv(G, B), QueueInv, NEW d \in Device, Agrees(d), up[d],
           Sound(d), Entering(d), NEW a \in Answers(d), a.then.op = "displayName"
    PROVE  /\ Exists(a.snap) <=> Final(d)[DisplayName] # Absent
           /\ \A x \in Elems(a.todo) \cup Elems(wire[d]) \cup Elems(a.inbox) : ~IsName(x)
<1>1. /\ todo[d] \in Seq(Call(G, B[d])) /\ wire[d] \in Seq(Call(G, B[d]))
      /\ inbox[d] \in Seq(Message(G, B[d]))
      BY DEF DatabaseInv
<1>2. DisplayName \in Leaf \ {Notifications}
      BY FieldIsLeaf
<1>3. PICK v : v = record[DisplayName]
      OBVIOUS
<1>4. /\ a.todo \in Seq(Call(G, B[d]))
      /\ Stand(a.todo, Len(a.todo), Base(d)) = Final(d)
      BY AnswerTaken
<1>5. PICK b : b = Base(d)
      OBVIOUS
<1>6. Tame(a.todo) => Final(d)[DisplayName] = b[DisplayName]
      BY <1>2, <1>4, <1>5, TameStands
<1>7. CASE OnTheSpot(d, a)
  <2>1. PICK s \in Seq(Call(G, B[d])) : s = todo[d] /\ s # <<>>
        BY <1>1, <1>7 DEF OnTheSpot
  <2>2. IsName(Head(s))
        BY <1>7, <2>1 DEF OnTheSpot, IsAsk, IsName
  <2>3. ~Tame(s)
        BY <2>1, <2>2, OthersRest, TameNames
  <2>4. NameAsked(s, v) /\ Unasked(wire[d]) /\ Unasked(inbox[d])
        BY <1>3, <2>1, <2>3 DEF Entering, ToSend, Sent, Answered
  <2>5. AsksName(Head(s), v) /\ Tame(Tail(s))
        BY <2>1, <2>2, <2>4, NameAskedRest DEF IsName
  <2>6. Head(s).leaves = {DisplayName}
        BY <1>7, <2>1, <2>5 DEF OnTheSpot, AsksName
  <2>7. a.todo = Tail(s) /\ a.inbox = inbox[d]
        BY <1>7, <2>1 DEF OnTheSpot
  <2>8. Final(d)[DisplayName] = Base(d)[DisplayName]
        BY <1>5, <1>6, <2>5, <2>7
  <2>9. LocalView(d)[DisplayName] = Base(d)[DisplayName]
    <3>1. ReadsLocally(d, {DisplayName})
          BY <1>7, <2>1, <2>6 DEF OnTheSpot
    <3>2. Informed(d, DisplayName)
          BY DEF Sound
    <3>3. QED
          BY <1>2, <3>1, <3>2, LocalIsTrue
  <2>10. Exists(a.snap) <=> Base(d)[DisplayName] # Absent
    <3>1. PICK w : w = LocalView(d)
          OBVIOUS
    <3>2. a.snap = [l \in {DisplayName} |-> w[l]]
          BY <1>7, <2>1, <2>6, <3>1 DEF OnTheSpot
    <3>3. QED
          BY <2>9, <3>1, <3>2 DEF Exists
  <2>11. \A x \in Elems(a.todo) \cup Elems(wire[d]) \cup Elems(a.inbox) : ~IsName(x)
         BY <2>4, <2>5, <2>7, TameNames DEF Tame, Unasked, IsName
  <2>12. QED
         BY <2>8, <2>10, <2>11
<1>8. CASE OfServer(d, a)
  <2>1. PICK s \in Seq(Message(G, B[d])) : s = inbox[d] /\ s # <<>>
        BY <1>1, <1>8 DEF OfServer
  <2>2. IsName(Head(s))
        BY <1>8, <2>1 DEF OfServer, IsAsk, IsName
  <2>3. ~Unasked(s)
        BY <2>1, <2>2, OthersRest DEF IsName
  <2>4. NameAsked(s, v) /\ Tame(todo[d]) /\ Tame(wire[d])
        BY <1>3, <2>1, <2>3 DEF Entering, ToSend, Sent, Answered
  <2>5. AsksName(Head(s), v) /\ Tame(Tail(s))
        BY <2>1, <2>2, <2>4, NameAskedRest DEF IsName
  <2>6. a.todo = todo[d] /\ a.inbox = Tail(s) /\ a.snap = Head(s).snap
        BY <1>8, <2>1 DEF OfServer
  <2>7. Final(d)[DisplayName] = Base(d)[DisplayName]
        BY <1>5, <1>6, <2>4, <2>6
  <2>8. Base(d)[DisplayName] = v
    <3>1. PICK q \in Seq(Call(G, B[d])) : q = wire[d]
          BY <1>1
    <3>2. PICK r : r = record
          OBVIOUS
    <3>3. Stand(q, Len(q), r)[DisplayName] = r[DisplayName]
          BY <1>2, <2>4, <3>1, TameStands
    <3>4. QED
          BY <1>3, <3>1, <3>2, <3>3 DEF Base
  <2>9. Exists(a.snap) <=> Base(d)[DisplayName] # Absent
    <3>1. Head(s).kind = "reply"
          BY <1>8, <2>1 DEF OfServer
    <3>2. QED
          BY <1>3, <2>5, <2>6, <2>8, <3>1 DEF AsksName
  <2>10. \A x \in Elems(a.todo) \cup Elems(wire[d]) \cup Elems(a.inbox) : ~IsName(x)
         BY <2>4, <2>5, <2>6, TameNames DEF Tame
  <2>11. QED
         BY <2>7, <2>9, <2>10
<1>9. QED
      BY <1>7, <1>8, TwoAnswers

\* The two ways to go on: calls without a write, and the record of a new account.
LEMMA NewAccountStands ==
    ASSUME NEW b, b = [l \in Leaf |-> b[l]]
    PROVE  There(After(SetValue(NewAccount), b))
<1>1. PICK x : x = SetValue(NewAccount)
      OBVIOUS
<1>2. x.kind = "put" /\ x.write = NewAccount
      BY <1>1 DEF SetValue
<1>3. After(x, b) = Overlay(b, NewAccount)
      BY <1>2 DEF After
<1>4. PICK n : n = NewAccount
      OBVIOUS
<1>5. DOMAIN n = Leaf /\ DOMAIN b = Leaf
      BY <1>4 DEF NewAccount
<1>6. ASSUME NEW l \in Field
      PROVE  Overlay(b, n)[l] # Absent
  <2>1. l \in Leaf
        BY FieldIsLeaf
  <2>2. Overlay(b, n)[l] = n[l]
        BY <1>5, <2>1 DEF Overlay
  <2>3. n[l] \in {0, 1}
        BY <1>4, <2>1 DEF NewAccount, Field
  <2>4. QED
        BY <2>2, <2>3, SchemaAssumption
<1>7. QED
      BY <1>1, <1>3, <1>4, <1>6 DEF There

LEMMA ListsAreAsked ==
    ASSUME NEW b, b = [l \in Leaf |-> b[l]], There(b),
           NEW calls, calls = <<GetData(InventoryLeaves, InventoryAnswer),
                                GetData(ActiveLeaves, ActiveAnswer)>>
    PROVE  /\ Mild(calls) /\ Steady(calls, b) /\ There(Stand(calls, Len(calls), b))
           /\ \A l \in Wishable : Stand(calls, Len(calls), b)[l] = b[l]
<1>1. PICK x, y : x = GetData(InventoryLeaves, InventoryAnswer)
                  /\ y = GetData(ActiveLeaves, ActiveAnswer)
      OBVIOUS
<1>2. MildCall(x) /\ MildCall(y)
      BY <1>1, MildWrites DEF InventoryAnswer, ActiveAnswer
<1>3. Mild(calls)
      BY <1>1, <1>2, MildLiterals
<1>4. PICK c : c = calls /\ Mild(c)
      BY <1>3
<1>5. /\ Steady(c, b) /\ There(Stand(c, Len(c), b))
      /\ \A l \in Wishable : Stand(c, Len(c), b)[l] = b[l]
      BY <1>4, MildStands
<1>6. QED
      BY <1>3, <1>4, <1>5

LEMMA NameOrderly ==
    ASSUME NEW G, NEW B, DatabaseInv(G, B), QueueInv, NEW d \in Device, Agrees(d), Orderly(d),
           GotDisplayName(d), NoOtherWish
    PROVE  Orderly(d)'
<1>1. PICK a \in Answers(d) :
          /\ a.then.op = "displayName"
          /\ Return(d, a, IF Exists(a.snap)
                          THEN <<GetData(InventoryLeaves, InventoryAnswer),
                                 GetData(ActiveLeaves, ActiveAnswer)>>
                          ELSE <<SetValue(NewAccount)>>)
      BY DEF GotDisplayName, AnswersTo
<1>2. Sound(d) /\ up[d]
      BY DeadAnswers DEF Orderly
<1>3. Coming(d)
  <2>1. ~Away(d)
        BY SilentAnswers DEF Away
  <2>2. ~Inside(d)
    <3>1. CASE OnTheSpot(d, a)
      <4>1. PICK s : s = todo[d] /\ s \in Seq(Call(G, B[d])) /\ s # <<>>
            BY <3>1 DEF OnTheSpot, DatabaseInv
      <4>2. Head(s) \in Elems(s)
            BY <4>1, FirstAndRest
      <4>3. IsName(Head(s))
            BY <1>1, <3>1, <4>1 DEF OnTheSpot, IsAsk, IsName
      <4>4. QED
            BY <4>1, <4>2, <4>3 DEF Inside, Nameless, Underway
    <3>2. CASE OfServer(d, a)
      <4>1. PICK s : s = inbox[d] /\ s \in Seq(Message(G, B[d])) /\ s # <<>>
            BY <3>2 DEF OfServer, DatabaseInv
      <4>2. Head(s) \in Elems(s)
            BY <4>1, FirstAndRest
      <4>3. IsName(Head(s))
            BY <1>1, <3>2, <4>1 DEF OfServer, IsAsk, IsName
      <4>4. QED
            BY <4>1, <4>2, <4>3 DEF Inside, Nameless, Underway
    <3>3. QED
          BY <3>1, <3>2, TwoAnswers
  <2>3. QED
        BY <1>2, <2>1, <2>2 DEF Orderly
<1>4. /\ Exists(a.snap) <=> Final(d)[DisplayName] # Absent
      /\ \A x \in Elems(a.todo) \cup Elems(wire[d]) \cup Elems(a.inbox) : ~IsName(x)
      BY <1>1, <1>2, <1>3, NameIsKnown DEF Coming
<1>5. PICK b : b = Final(d) /\ b = [l \in Leaf |-> b[l]]
      BY BaseIsARow
<1>6. Whole(b) /\ DOMAIN b = Leaf
      BY <1>2, <1>5, FinalIsWhole
<1>7. stage' = stage /\ wishes' = wishes
      BY DEF NoOtherWish
<1>8. ASSUME NEW T, NEW calls \in Seq(T), Return(d, a, calls), Steady(calls, b),
             \A x \in Elems(calls) : ~IsName(x), There(Stand(calls, Len(calls), b)),
             ~ProcessHasEnded => \A l \in Wishable :
                 wishes[l] # Absent => Stand(calls, Len(calls), b)[l] = wishes[l]
      PROVE  Orderly(d)'
  <2>1. Sound(d)' /\ Final(d)' = Stand(calls, Len(calls), b)
        BY <1>2, <1>5, <1>8, ReturnSound
  <2>2. Nameless(d)'
    <3>1. /\ todo'[d] = a.todo \o calls /\ wire'[d] = wire[d] /\ held'[d] = <<>>
          /\ inbox'[d] = a.inbox
          BY <1>2, <1>8 DEF Return, DatabaseInv, Sound, Linked
    <3>2. a.todo \in Seq(Call(G, B[d]))
          BY <1>2, AnswerTaken
    <3>3. Elems(a.todo \o calls) = Elems(a.todo) \cup Elems(calls)
          BY <3>2, ElemsOfConcat
    <3>4. Elems(<<>>) = {}
          BY DEF Elems
    <3>5. QED
          BY <1>4, <1>8, <3>1, <3>3, <3>4 DEF Nameless, Underway
  <2>3. Inside(d)'
        BY <1>3, <1>7, <1>8, <2>1, <2>2 DEF Coming, Inside, Left
  <2>4. ProcessHasEnded' <=> ProcessHasEnded
        BY <1>8, DispatchSpares
  <2>5. ~ProcessHasEnded' => Wished(d)'
        BY <1>7, <1>8, <2>1, <2>4 DEF Wished
  <2>6. QED
        BY <2>1, <2>3, <2>5 DEF Orderly
<1>9. CASE Exists(a.snap)
  <2>1. There(b)
        BY <1>4, <1>5, <1>6, <1>9, FieldIsLeaf, ThereIsHeld DEF Whole
  <2>2. PICK calls : calls = <<GetData(InventoryLeaves, InventoryAnswer),
                               GetData(ActiveLeaves, ActiveAnswer)>>
        OBVIOUS
  <2>3. /\ Mild(calls) /\ Steady(calls, b) /\ There(Stand(calls, Len(calls), b))
        /\ \A l \in Wishable : Stand(calls, Len(calls), b)[l] = b[l]
        BY <1>5, <2>1, <2>2, ListsAreAsked
  <2>4. PICK T : calls \in Seq(T)
        BY <2>3 DEF Mild
  <2>5. Return(d, a, calls)
        BY <1>1, <1>9, <2>2
  <2>6. \A x \in Elems(calls) : ~IsName(x)
        BY <2>3, MildIsFelt
  <2>7. ~ProcessHasEnded => \A l \in Wishable :
            wishes[l] # Absent => Stand(calls, Len(calls), b)[l] = wishes[l]
        BY <1>5, <2>3 DEF Orderly, Wished
  <2>8. QED
        BY <1>8, <2>3, <2>4, <2>5, <2>6, <2>7
<1>10. CASE ~Exists(a.snap)
  <2>1. ~Held(b)
        BY <1>4, <1>5, <1>6, <1>10, FieldIsLeaf DEF Whole, There
  <2>2. PICK x : x = SetValue(NewAccount)
        OBVIOUS
  <2>3. PICK calls : calls = <<x>>
        OBVIOUS
  <2>4. calls \in Seq({x}) /\ Elems(calls) = {x}
        BY <2>3 DEF Elems
  <2>5. There(After(x, b))
        BY <1>5, <2>2, NewAccountStands
  <2>6. Steady(calls, b) /\ Stand(calls, Len(calls), b) = After(x, b)
        BY <1>5, <1>6, <2>3, <2>5, SteadyOne DEF Whole
  <2>7. Return(d, a, calls)
        BY <1>1, <1>10, <2>2, <2>3
  <2>8. \A y \in Elems(calls) : ~IsName(y)
        BY <2>2, <2>4 DEF SetValue, IsName, IsAsk
  <2>9. ~ProcessHasEnded => \A l \in Wishable : wishes[l] = Absent
    <3>1. Wishable \subseteq Leaf \ {Notifications}
          BY WishableIsLeaf
    <3>2. \A l \in Leaf \ {Notifications} : b[l] = Absent
          BY <2>1 DEF Held
    <3>3. QED
          BY <1>5, <3>1, <3>2 DEF Orderly, Wished
  <2>10. QED
         BY <1>8, <2>4, <2>5, <2>6, <2>7, <2>8, <2>9
<1>11. QED
       BY <1>9, <1>10

\* The worker queue takes its first call, and passes it on when it is a write.
LEMMA SteadyTaken ==
    ASSUME NEW G, NEW B, DatabaseInv(G, B), NEW d \in Device, Steady(wire[d], record),
           Steady(todo[d], Base(d)), todo[d] # <<>>, NEW c, c = Head(todo[d]),
           todo'[d] = Tail(todo[d]), record' = record,
           \/ wire'[d] = wire[d] /\ c.kind # "put"
           \/ \E x \in Call(G, B[d]) : /\ wire'[d] = Append(wire[d], x)
                                       /\ x = c \/ (x.kind # "put" /\ c.kind # "put")
    PROVE  Steady(wire[d], record)' /\ Steady(todo[d], Base(d))'
<1>1. PICK S : S = Call(G, B[d])
      OBVIOUS
<1>2. PICK t \in Seq(S) : t = todo[d] /\ t # <<>>
      BY <1>1 DEF DatabaseInv
<1>3. PICK w \in Seq(S) : w = wire[d]
      BY <1>1 DEF DatabaseInv
<1>4. PICK b : b = Base(d) /\ b = [l \in Leaf |-> b[l]]
      BY BaseIsARow
<1>5. Whole(After(c, b)) /\ Steady(Tail(t), After(c, b))
      BY <1>2, <1>4, SteadyRest
<1>6. CASE wire'[d] = wire[d] /\ c.kind # "put"
  <2>1. Base(d)' = b /\ After(c, b) = b
        BY <1>4, <1>6, BaseStays DEF After
  <2>2. QED
        BY <1>2, <1>5, <1>6, <2>1
<1>7. CASE \E x \in Call(G, B[d]) : /\ wire'[d] = Append(wire[d], x)
                                    /\ x = c \/ (x.kind # "put" /\ c.kind # "put")
  <2>1. PICK x \in S : /\ wire'[d] = Append(w, x)
                       /\ x = c \/ (x.kind # "put" /\ c.kind # "put")
        BY <1>1, <1>3, <1>7
  <2>2. After(x, b) = After(c, b)
        BY <2>1 DEF After
  <2>3. PICK r : r = record
        OBVIOUS
  <2>4. Stand(w, Len(w), r) = b
        BY <1>3, <1>4, <2>3 DEF Base
  <2>5. Stand(Append(w, x), Len(Append(w, x)), r) = After(c, b)
        BY <2>2, <2>4, AppendStands
  <2>6. Base(d)' = After(c, b)
        BY <2>1, <2>3, <2>5 DEF Base
  <2>7. Steady(Append(w, x), r)
        BY <1>3, <1>5, <2>2, <2>3, <2>4, SteadyMore
  <2>8. QED
        BY <1>2, <1>5, <2>1, <2>3, <2>6, <2>7
<1>8. QED
      BY <1>6, <1>7

\* With a connection no get is held.
LEMMA ClientSound ==
    ASSUME NEW G, NEW B, DatabaseInv(G, B), QueueInv, LinkType, NEW d \in Device, Sound(d), up[d],
           ClientStep(d)
    PROVE  Sound(d)'
<1>1. online[d] /\ held[d] = <<>> /\ Steady(wire[d], record) /\ Steady(todo[d], Base(d))
      BY DEF Sound, Linked
<1>2. Informed(d, DisplayName)'
      BY ClientInformed DEF Sound
<1>3. ~HoldGet(d) /\ ~TimeOut(d)
      BY <1>1 DEF HoldGet, TimeOut
<1>4. UNCHANGED <<record, held, online, up>>
      BY <1>3 DEF ClientStep, ExecuteWrite, ExecuteGet, ExecuteListen, ReceiveAck, linkVars
<1>5. CASE ReceiveAck(d)
  <2>1. wire'[d] = wire[d] /\ todo'[d] = todo[d]
        BY <1>5 DEF ReceiveAck
  <2>2. Base(d)' = Base(d)
        BY <1>4, <2>1, BaseStays
  <2>3. QED
        BY <1>1, <1>2, <1>4, <2>1, <2>2 DEF Sound, Linked
<1>6. CASE ExecuteWrite(d) \/ ExecuteGet(d) \/ ExecuteListen(d)
  <2>1. PICK c \in First(todo[d]) :
            /\ todo' = [todo EXCEPT ![d] = Tail(@)]
            /\ \/ wire' = wire /\ c.kind # "put"
               \/ wire' = [wire EXCEPT ![d] = Append(@, c)]
               \/ wire' = [wire EXCEPT ![d] = Append(@, Observe)] /\ c.kind # "put"
        BY <1>6 DEF ExecuteWrite, ExecuteGet, ExecuteListen
  <2>2. c \in Call(G, B[d])
        BY FirstCall
  <2>3. c = Head(todo[d]) /\ todo[d] # <<>>
        BY <2>1 DEF First
  <2>4. /\ todo'[d] = Tail(todo[d])
        /\ \/ wire'[d] = wire[d] /\ c.kind # "put"
           \/ wire'[d] = Append(wire[d], c)
           \/ wire'[d] = Append(wire[d], Observe) /\ c.kind # "put"
        BY <2>1 DEF DatabaseInv
  <2>5. Observe \in Call(G, B[d]) /\ Observe.kind # "put"
        BY ObserveIsCall DEF Observe
  <2>6. \/ wire'[d] = wire[d] /\ c.kind # "put"
        \/ \E x \in Call(G, B[d]) : /\ wire'[d] = Append(wire[d], x)
                                    /\ x = c \/ (x.kind # "put" /\ c.kind # "put")
        BY <2>2, <2>4, <2>5
  <2>7. Steady(wire[d], record)' /\ Steady(todo[d], Base(d))'
        BY <1>1, <1>4, <2>3, <2>4, <2>6, SteadyTaken
  <2>8. QED
        BY <1>1, <1>2, <1>4, <2>7 DEF Sound, Linked
<1>7. QED
      BY <1>3, <1>5, <1>6 DEF ClientStep

LEMMA ServerSound ==
    ASSUME NEW G, NEW B, Asks(B), DatabaseInv(G, B), QueueInv, NEW d \in Device, Agrees(d),
           Sound(d), ServerStep(d)
    PROVE  Sound(d)' /\ Final(d)' = Final(d) /\ todo' = todo
<1>1. /\ wire[d] \in Seq(Call(G, B[d])) /\ wire[d] # <<>> /\ wire'[d] = Tail(wire[d])
      /\ UNCHANGED <<todo, held, online, up>>
      BY DEF ServerStep, ServeWrite, ServeGet, ServeListen, Reachable, DatabaseInv, linkVars
<1>2. record' = After(Head(wire[d]), record)
      BY DEF ServerStep, ServeWrite, ServeGet, ServeListen, After
<1>3. PICK r : r = record /\ r = [l \in Leaf |-> r[l]]
      BY RecordIsARow
<1>4. PICK w \in Seq(Call(G, B[d])) : w = wire[d] /\ w # <<>>
      BY <1>1
<1>5. Steady(w, r)
      BY <1>3, <1>4 DEF Sound
<1>6. Steady(Tail(w), After(Head(w), r))
      BY <1>3, <1>4, <1>5, SteadyRest
<1>7. Steady(wire[d], record)'
      BY <1>1, <1>2, <1>3, <1>4, <1>6
<1>8. Base(d)' = Base(d)
      BY <1>1, <1>2, RecordIsARow, RestStands DEF Base
<1>9. Informed(d, DisplayName)'
      BY FieldIsLeaf, ServerInformed DEF Sound
<1>10. QED
       BY <1>1, <1>7, <1>8, <1>9 DEF Sound, Linked, Final

LEMMA ClientOrderly ==
    ASSUME NEW G, NEW B, DatabaseInv(G, B), QueueInv, LinkType, NEW d \in Device, Agrees(d),
           Orderly(d), ClientStep(d), UNCHANGED <<stage, wishes>>
    PROVE  Orderly(d)'
<1>1. Sound(d) /\ Linked(d)
      BY DEF Orderly, Sound
<1>2. up[d]
  <2>1. ASSUME ~up[d]
        PROVE  FALSE
    <3>1. todo[d] = <<>> /\ inbox[d] = <<>> /\ held[d] = <<>>
          BY <1>1, <2>1 DEF QueueInv, QueueOf, Linked
    <3>2. First(todo[d]) = {} /\ First(inbox[d]) = {}
          BY <3>1 DEF First
    <3>3. QED
          BY <3>1, <3>2 DEF ClientStep, ExecuteWrite, ExecuteGet, HoldGet, ExecuteListen, TimeOut,
             ReceiveAck
  <2>2. QED
        BY <2>1
<1>3. Sound(d)'
      BY <1>1, <1>2, ClientSound
<1>4. Final(d)' = Final(d)
      BY ClientHolds DEF Holds
<1>5. UNCHANGED <<up, faults>>
      BY OthersSpare
<1>6. Away(d) => Away(d)'
      BY ClientAsksNothing, StaysSilent DEF Away, Left
<1>7. Coming(d) => Coming(d)'
      BY <1>1, <1>2, ClientEntering DEF Coming, Left
<1>8. Inside(d) => Inside(d)'
      BY <1>4, ClientAsksNothing, StaysNameless DEF Inside, Left
<1>9. ~ProcessHasEnded' => Wished(d)'
      BY <1>4, <1>5 DEF Orderly, Wished, ProcessHasEnded
<1>10. QED
       BY <1>2, <1>3, <1>6, <1>7, <1>8, <1>9 DEF Orderly

LEMMA ServerOrderly ==
    ASSUME NEW G, NEW B, Asks(B), DatabaseInv(G, B), QueueInv, NEW d \in Device, Agrees(d),
           Orderly(d), ServerStep(d), UNCHANGED <<stage, wishes>>
    PROVE  Orderly(d)'
<1>1. Sound(d)
      BY DEF Orderly
<1>2. Sound(d)' /\ Final(d)' = Final(d)
      BY <1>1, ServerSound
<1>3. UNCHANGED <<up, faults>>
      BY OthersSpare
<1>4. Away(d) => Away(d)'
      BY ServerAsksNothing, StaysSilent DEF Away, Left
<1>5. Coming(d) /\ up[d] => Coming(d)'
      BY ServedEntering DEF Coming, Left
<1>6. Inside(d) => Inside(d)'
      BY <1>2, ServerAsksNothing, StaysNameless DEF Inside, Left
<1>7. ~ProcessHasEnded' => Wished(d)'
      BY <1>2, <1>3 DEF Orderly, Wished, ProcessHasEnded
<1>8. QED
      BY <1>2, <1>3, <1>4, <1>5, <1>6, <1>7 DEF Orderly

\* The process ends, and the server has got a part of what was sent.
LEMMA EndsOrderly ==
    ASSUME NEW G, NEW B, DatabaseInv(G, B), QueueInv, LinkType, NEW d \in Device, Orderly(d),
           AppEnds(d), ProcessHasEnded'
    PROVE  Orderly(d)'
<1>1. wire[d] \in Seq(Call(G, B[d])) /\ Len(wire[d]) \in Nat
      BY LenProperties DEF DatabaseInv
<1>2. /\ ~up'[d] /\ todo'[d] = <<>> /\ held'[d] = <<>> /\ record' = record
      /\ \E n \in 0..Len(wire[d]) : wire'[d] = SubSeq(wire[d], 1, n)
  <2>1. /\ d \in DOMAIN up /\ d \in DOMAIN todo /\ d \in DOMAIN held /\ d \in DOMAIN wire
        BY DEF QueueInv, DatabaseInv
  <2>2. /\ up' = [up EXCEPT ![d] = FALSE] /\ todo' = [todo EXCEPT ![d] = <<>>]
        /\ held' = [held EXCEPT ![d] = <<>>] /\ record' = record
        /\ \E n \in 0..(IF online[d] THEN Len(wire[d]) ELSE 0) :
              wire' = [wire EXCEPT ![d] = SubSeq(@, 1, n)]
        BY DEF AppEnds, ProcessEnds
  <2>3. \A n \in 0..(IF online[d] THEN Len(wire[d]) ELSE 0) : n \in 0..Len(wire[d])
        BY <1>1
  <2>4. QED
        BY <2>1, <2>2, <2>3
<1>3. PICK n \in 0..Len(wire[d]) : wire'[d] = SubSeq(wire[d], 1, n)
      BY <1>2
<1>4. PICK r : r = record
      OBVIOUS
<1>5. PICK w \in Seq(Call(G, B[d])) : w = wire[d] /\ n \in 0..Len(w) /\ Steady(w, r)
      BY <1>1, <1>4 DEF Orderly, Sound
<1>6. /\ Steady(SubSeq(w, 1, n), r)
      /\ Whole(Stand(SubSeq(w, 1, n), Len(SubSeq(w, 1, n)), r))
      BY <1>5, SteadyPart
<1>7. Steady(wire[d], record)' /\ Whole(Base(d)')
      BY <1>2, <1>3, <1>4, <1>5, <1>6 DEF Base
<1>8. Steady(todo[d], Base(d))'
  <2>1. PICK b : b = Base(d)' /\ b = [l \in Leaf |-> b[l]]
        BY DEF Base, Stand
  <2>2. Stand(<<>>, 0, b) = b
        BY <2>1, NothingWritten
  <2>3. Steady(<<>>, b)
        BY <1>7, <2>1, <2>2 DEF Steady
  <2>4. QED
        BY <1>2, <2>1, <2>3
<1>9. Informed(d, DisplayName)'
      BY AppEndsInformed
<1>10. QED
       BY <1>2, <1>7, <1>8, <1>9 DEF Orderly, Sound, Linked

LEMMA LaunchOrderly ==
    ASSUME NEW G, NEW B, DatabaseInv(G, B), QueueInv, LinkType, NEW d \in Device, Orderly(d),
           Launch(d), wishes' = wishes
    PROVE  Orderly(d)'
<1>1. /\ ~up[d] /\ wire[d] = <<>>
      /\ UNCHANGED <<record, todo, wire, held, inbox, faults, stage>>
      BY DEF Launch, ProcessStarts, sessionVars
<1>2. todo[d] = <<>> /\ inbox[d] = <<>> /\ stage[d] = "login" /\ held[d] = <<>>
      BY <1>1 DEF QueueInv, QueueOf, Orderly, Sound, Linked
<1>3. online'[d]
      BY DEF Launch, ProcessStarts, LinkType
<1>4. Base(d)' = Base(d) /\ Final(d)' = Final(d)
      BY <1>1, BaseStays DEF Final
<1>5. Informed(d, DisplayName)'
      BY LaunchInformed DEF Orderly, Sound
<1>6. Sound(d)'
      BY <1>1, <1>3, <1>4, <1>5 DEF Orderly, Sound, Linked
<1>7. Away(d)'
  <2>1. Elems(<<>>) = {}
        BY DEF Elems
  <2>2. Underway(d)' = {}
        BY <1>1, <1>2, <2>1 DEF Underway
  <2>3. QED
        BY <1>1, <1>2, <2>2 DEF Away, Left, Silent
<1>8. ~ProcessHasEnded' => Wished(d)'
      BY <1>1, <1>4 DEF Orderly, Wished, ProcessHasEnded
<1>9. QED
      BY <1>6, <1>7, <1>8 DEF Orderly

\* What a step of the app does to the connection and to the wishes.
LEMMA WishesMove ==
    ASSUME NEW d, AccountStep(d), DOMAIN wishes = Wishable
    PROVE  DOMAIN wishes' = Wishable
BY DEF AccountStep, ScreenStep, FirstSignIn, SignInAgain, ChooseAvatar, ChangeAvatar,
   UpdateButtonPressed, LeaderSettingsSwitched, Issue, OpenDashboard, OpenSettings,
   AppNotifySwitched, GotDashboard, GotSettings, CrashOnScreen, PermissionKnown,
   CrashOnPermission, SignOutButtonPressed, DeleteButtonPressed, LoginViewDidLoad,
   accountVars, Wish, NoWishes

LEMMA AppLinks ==
    ASSUME NEW d \in Device, GameInv, QueueInv, AppStep(d), UNCHANGED accountVars \/ AccountStep(d),
           LinkType
    PROVE  LinkType'
<1>1. CASE UNCHANGED <<online, listens>>
      BY <1>1 DEF LinkType
<1>2. CASE Acts(d) \/ Runs(d) \/ SignsIn(d) \/ Saves(d) \/ GotDisplayName(d)
  <2>1. UNCHANGED <<online, listens>>
        BY <1>2 DEF Acts, Runs, SignsIn, SignIn, Saves, GotDisplayName, Dispatch, Return, linkVars
  <2>2. QED
        BY <1>1, <2>1
<1>3. CASE Unmoved(d) \/ Leaves(d) \/ Permits(d) \/ LoginViewDidLoad(d)
  <2>1. UNCHANGED <<online, listens>>
        BY <1>3 DEF Unmoved, ReceiveEvent, Leaves, SignOutButtonPressed, DeleteButtonPressed,
           Permits, LoginViewDidLoad, Dispatch, dbVars, linkVars
  <2>2. QED
        BY <1>1, <2>1
<1>4. CASE Crash(d)
      BY <1>4 DEF Crash, AppEnds, ProcessEnds, LinkType
<1>5. QED
      BY <1>2, <1>3, <1>4, AppIsMild

LEMMA EnvironmentLinks ==
    ASSUME NEW d \in Device, EnvironmentStep(d), LinkType
    PROVE  LinkType'
<1>1. CASE ClientStep(d)
      BY <1>1 DEF ClientStep, ExecuteWrite, ExecuteGet, HoldGet, ExecuteListen, TimeOut, ReceiveAck,
         linkVars, LinkType
<1>2. CASE ServerStep(d)
      BY <1>2 DEF ServerStep, ServeWrite, ServeGet, ServeListen, linkVars, LinkType
<1>3. CASE Disconnect(d) \/ Reconnect(d)
      BY <1>3 DEF Disconnect, Reconnect, LinkType
<1>4. CASE Kill(d) \/ Launch(d)
      BY <1>4 DEF Kill, AppEnds, ProcessEnds, Launch, ProcessStarts, LinkType
<1>5. QED
      BY <1>1, <1>2, <1>3, <1>4 DEF EnvironmentStep

\* The steps of the app, and those around it.
LEMMA AppOrderly ==
    ASSUME NEW G, Allows(G), DatabaseInv(G, Blocks), GameInv, QueueInv, LinkType, Lives, ~Overlap,
           DOMAIN wishes = Wishable, NEW d \in Device, Agrees(d), Orderly(d), AppStep(d),
           UNCHANGED accountVars \/ AccountStep(d)
    PROVE  Orderly(d)'
<1>1. CASE Crash(d)
  <2>1. ProcessHasEnded' /\ AppEnds(d)
        BY <1>1, CrashEnds DEF Lives, Crash
  <2>2. QED
        BY <2>1, EndsOrderly
<1>2. CASE Acts(d) \/ Saves(d) \/ Leaves(d)
      BY <1>2, ActsOrderly, SavesOrderly, LeavesOrderly
<1>3. CASE Runs(d) \/ SignsIn(d)
      BY <1>3, RunsOrderly, SignInOrderly
<1>4. CASE Unmoved(d)
      BY <1>4, UnmovedOrderly
<1>5. CASE GotDisplayName(d) /\ NoOtherWish
      BY <1>5, NameOrderly
<1>6. CASE Permits(d) \/ LoginViewDidLoad(d)
      BY <1>6, PermitsOrderly, LoginOrderly
<1>7. QED
      BY <1>1, <1>2, <1>3, <1>4, <1>5, <1>6, AppIsMild

LEMMA EnvironmentOrderly ==
    ASSUME NEW G, Asks(Blocks), DatabaseInv(G, Blocks), QueueInv, LinkType, Lives,
           NEW d \in Device, Agrees(d), Orderly(d), EnvironmentStep(d), wishes' = wishes,
           faults.drops = 0, faults'.drops = 0
    PROVE  Orderly(d)'
<1>1. CASE ClientStep(d) /\ UNCHANGED sessionVars
  <2>1. UNCHANGED <<stage, wishes>>
        BY <1>1 DEF sessionVars
  <2>2. QED
        BY <1>1, <2>1, ClientOrderly
<1>2. CASE ServerStep(d) /\ UNCHANGED sessionVars
  <2>1. UNCHANGED <<stage, wishes>>
        BY <1>2 DEF sessionVars
  <2>2. QED
        BY <1>2, <2>1, ServerOrderly
<1>3. ~Disconnect(d)
  <2>1. ASSUME Disconnect(d)
        PROVE  faults'.drops = faults.drops + 1
        BY <2>1, DisconnectCounts DEF Lives
  <2>2. QED
        BY <2>1
<1>4. ~Reconnect(d)
      BY DEF Reconnect, Orderly, Sound, Linked
<1>5. CASE Kill(d)
  <2>1. ProcessHasEnded' /\ AppEnds(d)
        BY <1>5, KillEnds DEF Lives, Kill
  <2>2. QED
        BY <2>1, EndsOrderly
<1>6. CASE Launch(d)
      BY <1>6, LaunchOrderly
<1>7. QED
      BY <1>1, <1>2, <1>3, <1>4, <1>5, <1>6 DEF EnvironmentStep

-----------------------------------------------------------------------------
(* In every behaviour with one phone, as long as no connection is lost.     *)

OrderInv ==
    /\ LinkType
    /\ DOMAIN wishes = Wishable
    /\ faults.drops = 0 => \A d \in Device : Orderly(d)

LEMMA WishfulSteps ==
    ASSUME GameNext
    PROVE  \/ \E d \in Device :
                 \/ AppStep(d) /\ (UNCHANGED accountVars \/ AccountStep(d))
                 \/ EnvironmentStep(d) /\ UNCHANGED accountVars
           \/ UNCHANGED <<dbVars, stage, wishes>>
BY DEF GameNext, WalletPart, LandPart, AccountPart, CommonPart, AppStep, NextDay,
   accountVars, sessionVars

LEMMA OrderGoesOn ==
    ASSUME Solo, ~Overlap, GameInv, QueueInv, AccountInv, OrderInv, [GameNext]_gameVars
    PROVE  OrderInv'
<1>1. DatabaseInv(Known(FALSE, ledger), Blocks) /\ Asks(Blocks) /\ Allows(Known(FALSE, ledger))
      BY BlocksAsk, KnownAllows DEF GameInv, Inv, WalletInv
<1>2. PICK G : DatabaseInv(G, Blocks) /\ Asks(Blocks) /\ Allows(G)
      BY <1>1
<1>3. Lives /\ \A d \in Device : Agrees(d)
      BY DEF AccountInv
<1>4. CASE UNCHANGED <<dbVars, stage, wishes>>
  <2>1. UNCHANGED <<online, listens, faults>>
        BY <1>4 DEF dbVars, linkVars
  <2>2. ASSUME faults.drops = 0, NEW d \in Device
        PROVE  Orderly(d)'
    <3>1. Unmoved(d)
          BY <1>4 DEF Unmoved, NoOtherWish
    <3>2. QED
          BY <1>2, <2>2, <3>1, UnmovedOrderly DEF OrderInv
  <2>3. QED
        BY <1>4, <2>1, <2>2 DEF OrderInv, LinkType
<1>5. ASSUME NEW d \in Device,
             \/ AppStep(d) /\ (UNCHANGED accountVars \/ AccountStep(d))
             \/ EnvironmentStep(d) /\ UNCHANGED accountVars
      PROVE  OrderInv'
  <2>1. LinkType'
        BY <1>5, AppLinks, EnvironmentLinks DEF OrderInv
  <2>2. DOMAIN wishes' = Wishable
    <3>1. CASE UNCHANGED accountVars
          BY <3>1 DEF accountVars, OrderInv
    <3>2. CASE AccountStep(d)
          BY <3>2, WishesMove DEF OrderInv
    <3>3. QED
          BY <1>5, <3>1, <3>2
  <2>3. ASSUME faults'.drops = 0
        PROVE  Orderly(d)'
    <3>1. faults.drops = 0
      <4>1. faults'.drops >= faults.drops
            BY <1>3, <1>5, LivesOn
      <4>2. faults.drops \in Nat
            BY <1>3 DEF Lives, FaultsType
      <4>3. QED
            BY <2>3, <4>1, <4>2
    <3>2. Orderly(d) /\ LinkType /\ DOMAIN wishes = Wishable
          BY <3>1 DEF OrderInv
    <3>3. CASE AppStep(d) /\ (UNCHANGED accountVars \/ AccountStep(d))
          BY <1>2, <1>3, <3>2, <3>3, AppOrderly
    <3>4. CASE EnvironmentStep(d) /\ UNCHANGED accountVars
      <4>1. wishes' = wishes
            BY <3>4 DEF accountVars
      <4>2. QED
            BY <1>2, <1>3, <2>3, <3>1, <3>2, <3>4, <4>1, EnvironmentOrderly
    <3>5. QED
          BY <1>5, <3>3, <3>4
  <2>4. \A e \in Device : e = d
        BY DEF Solo
  <2>5. QED
        BY <2>1, <2>2, <2>3, <2>4 DEF OrderInv
<1>6. CASE GameNext
      BY <1>4, <1>5, <1>6, WishfulSteps
<1>7. CASE UNCHANGED gameVars
  <2>1. UNCHANGED <<dbVars, stage, wishes>>
        BY <1>7 DEF gameVars, vars, accountVars, sessionVars
  <2>2. QED
        BY <1>4, <2>1
<1>8. QED
      BY <1>6, <1>7

LEMMA OrderBegins ==
    ASSUME \A opening \in Openings : Whole(opening), GameInit
    PROVE  OrderInv
<1>1. PICK opening \in Openings : SessionInit(opening)
      BY DEF GameInit, WalletInit, UsersInit
<1>2. /\ record = opening /\ todo = [d \in Device |-> <<>>] /\ pending = [d \in Device |-> <<>>]
      /\ wire = [d \in Device |-> <<>>] /\ held = [d \in Device |-> <<>>]
      /\ inbox = [d \in Device |-> <<>>] /\ cache = [d \in Device |-> Absent]
      /\ listens = [d \in Device |-> FALSE] /\ watching = [d \in Device |-> FALSE]
      /\ online = [d \in Device |-> TRUE] /\ up = [d \in Device |-> TRUE]
      /\ stage = [d \in Device |-> "login"]
      BY <1>1 DEF SessionInit, DatabaseInit
<1>3. wishes = NoWishes
      BY DEF GameInit, AccountStart
<1>4. LinkType /\ DOMAIN wishes = Wishable
      BY <1>2, <1>3 DEF LinkType, NoWishes
<1>5. record = [l \in Leaf |-> record[l]] /\ Whole(record)
      BY <1>2, UsersAssumption
<1>6. ASSUME NEW d \in Device
      PROVE  Orderly(d)
  <2>1. /\ todo[d] = <<>> /\ wire[d] = <<>> /\ held[d] = <<>> /\ inbox[d] = <<>>
        /\ pending[d] = <<>> /\ cache[d] = Absent /\ ~listens[d] /\ ~watching[d]
        /\ online[d] /\ up[d] /\ stage[d] = "login"
        BY <1>2
  <2>2. Informed(d, DisplayName)
    <3>1. Fresh(<<>>, <<>>, Absent, DisplayName, record[DisplayName])
          BY DEF Fresh
    <3>2. ~Told(<<>>) /\ OneListen(<<>>) /\ NoListen(<<>>)
          BY DEF Told, OneListen, NoListen, Calls
    <3>3. QED
          BY <2>1, <3>1, <3>2 DEF Informed, Listener
  <2>3. \A b : b = [l \in Leaf |-> b[l]] /\ Whole(b) => Steady(<<>>, b)
    <3>1. SUFFICES ASSUME NEW b, b = [l \in Leaf |-> b[l]], Whole(b)
                   PROVE  Steady(<<>>, b)
          OBVIOUS
    <3>2. Stand(<<>>, 0, b) = b
          BY <3>1, NothingWritten
    <3>3. QED
          BY <3>1, <3>2 DEF Steady
  <2>4. Base(d) = record
    <3>1. Stand(<<>>, 0, record) = record
          BY <1>5, NothingWritten
    <3>2. QED
          BY <2>1, <3>1 DEF Base
  <2>5. Sound(d)
        BY <1>5, <2>1, <2>2, <2>3, <2>4 DEF Sound, Linked
  <2>6. Away(d)
    <3>1. Elems(<<>>) = {}
          BY DEF Elems
    <3>2. Underway(d) = {}
          BY <2>1, <3>1 DEF Underway
    <3>3. QED
          BY <2>1, <3>2 DEF Away, Left, Silent
  <2>7. Wished(d)
        BY <1>3 DEF Wished, NoWishes
  <2>8. QED
        BY <2>5, <2>6, <2>7 DEF Orderly
<1>7. QED
      BY <1>4, <1>6 DEF OrderInv

LEMMA OrderIsWhole ==
    ASSUME GameInv, OrderInv
    PROVE  RowsAreWhole
<1>1. PICK G : DatabaseInv(G, Blocks)
      BY DEF GameInv, Inv
<1>2. SUFFICES ASSUME faults.drops = 0, Held(record)
               PROVE  There(record)
      BY DEF RowsAreWhole, There, Field
<1>3. PICK d \in Device : TRUE
      BY SchemaAssumption
<1>4. Sound(d)
      BY <1>2 DEF OrderInv, Orderly
<1>5. QED
      BY <1>1, <1>2, <1>4, FinalIsWhole DEF Whole

LEMMA OrderIsKept ==
    ASSUME GameInv, OrderInv
    PROVE  faults.drops = 0 => SettingsKept
<1>1. PICK G : DatabaseInv(G, Blocks)
      BY DEF GameInv, Inv
<1>2. SUFFICES ASSUME faults.drops = 0, ~ProcessHasEnded, AllSettled,
                      NEW l \in Wishable, wishes[l] # Absent
               PROVE  record[l] = wishes[l]
      BY DEF SettingsKept
<1>3. PICK d \in Device : TRUE
      BY SchemaAssumption
<1>4. Final(d)[l] = wishes[l]
      BY <1>2 DEF OrderInv, Orderly, Wished
<1>5. Final(d) = record
      BY <1>1, <1>2, SettledIsFinal DEF AllSettled
<1>6. QED
      BY <1>4, <1>5

\* A record with more than the permission for notifications has the fields that the
\* screens cast, in every behaviour with one phone whose user waits for the answers of
\* the database, from a record without a gap on, as long as no connection is lost: a new
\* account is written whole, everything but the permission, which the system may answer
\* at any time, is written only once the name is known to be there, and a removal takes
\* all of the record
\* (LoginViewController.swift:150, DashboardViewController.swift:93 and 135,
\* SettingsViewController.swift:73 and 262).
THEOREM RecordStaysWhole ==
    ASSUME Solo, ~Overlap, \A opening \in Openings : Whole(opening)
    PROVE  GameSpec => []RowsAreWhole
<1>1. GameInit => AccountInv /\ OrderInv
      BY AccountBegins, OrderBegins
<1>2. GameInv /\ QueueInv /\ AccountInv /\ OrderInv /\ [GameNext]_gameVars
          => AccountInv' /\ OrderInv'
      BY AccountGoesOn, OrderGoesOn
<1>3. GameInit => QueueInv
      BY QueueInitHolds DEF GameInit, WalletInit
<1>4. GameInv /\ QueueInv /\ [GameNext]_gameVars => QueueInv'
      BY GameMoves
<1>5. GameInv /\ OrderInv => RowsAreWhole
      BY OrderIsWhole
<1>6. QED
      BY <1>1, <1>2, <1>3, <1>4, <1>5, GameInvHolds, PTL DEF GameSpec

\* And the name, the avatar and the place on the leaderboard are those asked for last
\* (WelcomeViewController.swift:61, SettingsViewController.swift:186 and 251): the part
\* of the property in which no connection is lost.
THEOREM WishesAreKept ==
    ASSUME Solo, ~Overlap, \A opening \in Openings : Whole(opening)
    PROVE  GameSpec => [](faults.drops = 0 => SettingsKept)
<1>1. GameInit => AccountInv /\ OrderInv
      BY AccountBegins, OrderBegins
<1>2. GameInv /\ QueueInv /\ AccountInv /\ OrderInv /\ [GameNext]_gameVars
          => AccountInv' /\ OrderInv'
      BY AccountGoesOn, OrderGoesOn
<1>3. GameInit => QueueInv
      BY QueueInitHolds DEF GameInit, WalletInit
<1>4. GameInv /\ QueueInv /\ [GameNext]_gameVars => QueueInv'
      BY GameMoves
<1>5. GameInv /\ OrderInv => (faults.drops = 0 => SettingsKept)
      BY OrderIsKept
<1>6. QED
      BY <1>1, <1>2, <1>3, <1>4, <1>5, GameInvHolds, PTL DEF GameSpec
=============================================================================
