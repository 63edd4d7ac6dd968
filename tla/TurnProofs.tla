----------------------------- MODULE TurnProofs -----------------------------
(***************************************************************************)
(* Users who take turns: an operation starts when its own device has had   *)
(* every answer and nothing is under way on any other.  Then every number  *)
(* a block is given is the one in the ledger, nothing is lost and nothing  *)
(* counts twice, however the calls of an operation are queued, answered    *)
(* and acknowledged, and whatever connections are lost.                    *)
(*                                                                         *)
(* A get holds the leaves on which its block, and the gets this block will *)
(* issue, rely.  No two gets under way hold the same leaf, and no write    *)
(* that is still to be made covers a leaf that is held: Tidy.  So the      *)
(* newest write of a leaf is what the ledger says, among the pending ones  *)
(* and on the wire, and so is the record where no write is under way:      *)
(* Right.                                                                  *)
(*                                                                         *)
(* A get may also be answered from what the Dashboard's listener has seen. *)
(* That is no older than the device's own writes when it is the only one   *)
(* there is (Attentive): each event is followed by the acknowledgement of  *)
(* the write it tells of, and after a lost connection the request to       *)
(* listen is sent before the writes are.  On a second phone it may be      *)
(* older than the other's writes, so either the account has one phone or   *)
(* nobody listens to its row: TakingTurns.                                 *)
(***************************************************************************)
EXTENDS QueueProofs, WellFoundedInduction

\* The leaves the ledger accounts for, and those that a block relies on.
Ledgered == {CurrentLeaves, AllTimeLeaves, LastVisitedDate} \cup InventoryLeaves
Kept     == Ledgered \cup {DisplayName}

\* What a block with tag t and those that follow from it read and then write.
Holds(t) ==
    CASE t.op \in {"buyLeaves", "rewardCurrent"} -> {CurrentLeaves}
      [] t.op = "rewardAllTime" -> {AllTimeLeaves}
      [] t.op = "redeem"        -> {CurrentLeaves, AllTimeLeaves}
      [] t.op = "claimDate"     -> {LastVisitedDate, CurrentLeaves, AllTimeLeaves}
      [] t.op = "buyItem"       -> InventoryLeaves
      [] OTHER                  -> {}

\* What it may rely on: nobody writes the name of a user who has signed in before.
Sure(t) == Holds(t) \cup {DisplayName}

\* Of a call or message, and of all in a queue.
Hold(x)   == IF x.kind \in {"get", "reply"} THEN Holds(x.then) ELSE {}
Cover(x)  == IF x.kind = "put" THEN DOMAIN x.write ELSE {}
Elements(s) == {s[i] : i \in DOMAIN s}
Claims(s) == UNION {Hold(x) : x \in Elements(s)}
Covers(s) == UNION {Cover(x) : x \in Elements(s)}

\* No two of a queue hold the same leaf; none that holds one is ahead of a write.
Sole(s)   == \A i, j \in DOMAIN s : i # j => Hold(s[i]) \cap Hold(s[j]) = {}
Behind(s) == \A i, j \in DOMAIN s : i < j => Hold(s[i]) \cap Cover(s[j]) = {}

\* The last write in a queue that covers leaf l, in a set.
LatestAt(s, i, l) == l \in Cover(s[i]) /\ \A j \in DOMAIN s : j > i => l \notin Cover(s[j])
Latest(s, l) == {s[i] : i \in {k \in DOMAIN s : LatestAt(s, k, l)}}

\* A device's queues: calls to execute, requests, gets that wait, messages, and
\* the writes that a connection would send again.
Tidy(a, b, c, e) ==
    /\ Sole(a) /\ Sole(b) /\ Sole(c) /\ Sole(e) /\ Behind(b)
    /\ Claims(a) \cap Claims(b) = {} /\ Claims(a) \cap Claims(c) = {}
    /\ Claims(a) \cap Claims(e) = {} /\ Claims(b) \cap Claims(c) = {}
    /\ Claims(b) \cap Claims(e) = {} /\ Claims(c) \cap Claims(e) = {}
    /\ (Claims(a) \cup Claims(b) \cup Claims(c) \cup Claims(e)) \cap Covers(a) = {}
    /\ Claims(e) \cap Covers(b) = {}

Claimed(a, b, c, e) == Claims(a) \cup Claims(b) \cup Claims(c) \cup Claims(e)
Written(a, b, r)    == Covers(a) \cup Covers(b) \cup Covers(r)

Neat(a, b, c, e, r) == Tidy(a, b, c, e) /\ DisplayName \notin Written(a, b, r)
Work(a, b, c, e, r) == Claimed(a, b, c, e) \cup Written(a, b, r)

-----------------------------------------------------------------------------
(* What is right.                                                          *)

\* The days that were rewarded; a date in the record is the last of them.
Rewarded(k) == {t \in Day : k.rewards[t] >= 1}
Dated(k, v) == Rewarded(k) # {} => v \in Rewarded(k) /\ \A t \in Rewarded(k) : t <= v

\* Value v at leaf l is that of ledger k.
Right(k, l, v) ==
    /\ l = CurrentLeaves => OrZero(v) = k.current
    /\ l = AllTimeLeaves => OrZero(v) = k.allTime
    /\ ~Reuse => \A i \in Key : l = Inventory(i) => OrZero(v) = k.goods[i]
    /\ l = LastVisitedDate => Dated(k, v)
    /\ l = DisplayName => v # Absent

\* A claim is not of a day to come, and not older than the last reward.
Timely(k, now, t) ==
    t.op = "claimDate" => t.day <= now /\ \A s \in Rewarded(k) : s <= t.day

\* What is to be written; the newest of what was, unless it is to be written again.
PutsRight(k, a) ==
    \A x \in Elements(a) : \A l \in Cover(x) \cap Kept : Right(k, l, x.write[l])
SentRight(k, s, a) ==
    \A l \in Kept \ Covers(a) : \A x \in Latest(s, l) : Right(k, l, x.write[l])

\* What blocks are given, and the day they have captured.
Given(k, x) == \A l \in Sure(x.then) \cap DOMAIN x.snap : Right(k, l, x.snap[l])
RepliesRight(k, e) == \A x \in Elements(e) : x.kind = "reply" => Given(k, x)
TagsTimely(k, now, s) ==
    \A x \in Elements(s) : x.kind \in {"get", "reply"} => Timely(k, now, x.then)

Sound(k, now, a, b, c, e, r) ==
    /\ PutsRight(k, a) /\ SentRight(k, r, a) /\ SentRight(k, b, a)
    /\ RepliesRight(k, e)
    /\ TagsTimely(k, now, a) /\ TagsTimely(k, now, b)
    /\ TagsTimely(k, now, c) /\ TagsTimely(k, now, e)

-----------------------------------------------------------------------------
(* Of every device, and of the record where nothing is to be written.      *)

DeviceNeat(d)  == Neat(todo[d], wire[d], held[d], inbox[d], Resends(d))
DeviceSound(d) == Sound(ledger, today, todo[d], wire[d], held[d], inbox[d], Resends(d))
Busy(d)        == Work(todo[d], wire[d], held[d], inbox[d], Resends(d))
Unserved(d)    == Covers(todo[d]) \cup Covers(wire[d])

RecordRight ==
    \A l \in Kept : (\A d \in Device : l \notin Unserved(d)) => Right(ledger, l, record[l])

Counted == \A t \in Day : ledger.rewards[t] <= 1 /\ (ledger.rewards[t] >= 1 => t <= today)

\* At most one device is at work.
Turns == \A d, e \in Device : d # e => Busy(d) = {} \/ Busy(e) = {}

TurnInv ==
    /\ \A d \in Device : up[d] /\ DeviceNeat(d) /\ DeviceSound(d)
    /\ RecordRight /\ Counted /\ Turns

-----------------------------------------------------------------------------
(* Queues that lose their first, gain one more, or are put together.       *)

FirstOff(s, h, t) ==
    /\ Elements(s) = {h} \cup Elements(t)
    /\ Sole(s) => Sole(t) /\ Hold(h) \cap Claims(t) = {}
    /\ Behind(s) => Behind(t) /\ Hold(h) \cap Covers(t) = {}
    /\ \A l : Latest(t, l) \subseteq Latest(s, l)
    /\ \A l \in Cover(h) \ Covers(t) : h \in Latest(s, l)

LastOn(s, x, t) ==
    /\ Elements(t) = Elements(s) \cup {x}
    /\ Sole(s) /\ Hold(x) \cap Claims(s) = {} => Sole(t)
    /\ Behind(s) /\ Claims(s) \cap Cover(x) = {} => Behind(t)
    /\ \A l : Latest(t, l) \subseteq IF l \in Cover(x) THEN {x} ELSE Latest(s, l)

Joined(s, g, t) ==
    /\ Elements(t) = Elements(s) \cup Elements(g)
    /\ Sole(s) /\ Sole(g) /\ Claims(s) \cap Claims(g) = {} => Sole(t)
    /\ Behind(s) /\ Behind(g) /\ Claims(s) \cap Covers(g) = {} => Behind(t)
    /\ \A l : Latest(t, l) \subseteq Latest(s, l) \cup Latest(g, l)

\* What a queue claims and covers follows from its elements.
LEMMA ClaimsOf ==
    ASSUME NEW s
    PROVE  /\ \A i \in DOMAIN s : Hold(s[i]) \subseteq Claims(s) /\ Cover(s[i]) \subseteq Covers(s)
           /\ \A x \in Elements(s) : Hold(x) \subseteq Claims(s) /\ Cover(x) \subseteq Covers(s)
BY DEF Claims, Covers, Elements

LEMMA ClaimsAdd ==
    ASSUME NEW s, NEW x, NEW t, Elements(t) = Elements(s) \cup {x}
    PROVE  Claims(t) = Claims(s) \cup Hold(x) /\ Covers(t) = Covers(s) \cup Cover(x)
BY DEF Claims, Covers

LEMMA ClaimsJoin ==
    ASSUME NEW s, NEW g, NEW t, Elements(t) = Elements(s) \cup Elements(g)
    PROVE  Claims(t) = Claims(s) \cup Claims(g) /\ Covers(t) = Covers(s) \cup Covers(g)
BY DEF Claims, Covers

LEMMA ShorterIsFirstOff ==
    ASSUME NEW S, NEW s \in Seq(S), NEW t \in Seq(S), Shorter(s, t)
    PROVE  FirstOff(s, s[1], t)
<1>1. PICK h : h = s[1]
      OBVIOUS
<1>2. /\ Len(s) \in Nat /\ Len(s) > 0 /\ DOMAIN s = 1..Len(s) /\ DOMAIN t = 1..(Len(s) - 1)
      /\ \A i \in 1..(Len(s) - 1) : t[i] = s[i + 1]
      BY LenProperties DEF Shorter
<1>3. /\ 1 \in DOMAIN s /\ s[1] = h
      /\ \A i \in DOMAIN t : i \in Nat /\ i > 0 /\ i + 1 \in DOMAIN s /\ s[i + 1] = t[i]
      /\ \A i \in DOMAIN s : i \in Nat /\ (i = 1 \/ (i - 1 \in DOMAIN t /\ t[i - 1] = s[i]))
      BY <1>1, <1>2
<1>4. Elements(s) = {h} \cup Elements(t)
  <2>1. ASSUME NEW x \in Elements(s)
        PROVE  x = h \/ x \in Elements(t)
    <3>1. PICK i \in DOMAIN s : x = s[i]
          BY <2>1 DEF Elements
    <3>2. CASE i - 1 \in DOMAIN t /\ t[i - 1] = s[i]
          BY <3>1, <3>2 DEF Elements
    <3>3. QED
          BY <1>3, <3>1, <3>2
  <2>2. h \in Elements(s)
        BY <1>3 DEF Elements
  <2>3. \A x \in Elements(t) : x \in Elements(s)
        BY <1>3 DEF Elements
  <2>4. QED
        BY <2>1, <2>2, <2>3
<1>5. ASSUME Sole(s)
      PROVE  Sole(t) /\ Hold(h) \cap Claims(t) = {}
  <2>1. ASSUME NEW i \in DOMAIN t, NEW j \in DOMAIN t, i # j
        PROVE  Hold(t[i]) \cap Hold(t[j]) = {}
    <3>1. i + 1 # j + 1
          BY <1>3, <2>1
    <3>2. QED
          BY <1>3, <1>5, <3>1 DEF Sole
  <2>2. ASSUME NEW i \in DOMAIN t
        PROVE  Hold(h) \cap Hold(t[i]) = {}
    <3>1. 1 # i + 1
          BY <1>3
    <3>2. QED
          BY <1>3, <1>5, <3>1 DEF Sole
  <2>3. QED
        BY <2>1, <2>2 DEF Sole, Claims, Elements
<1>6. ASSUME Behind(s)
      PROVE  Behind(t) /\ Hold(h) \cap Covers(t) = {}
  <2>1. ASSUME NEW i \in DOMAIN t, NEW j \in DOMAIN t, i < j
        PROVE  Hold(t[i]) \cap Cover(t[j]) = {}
    <3>1. i + 1 < j + 1
          BY <1>3, <2>1
    <3>2. QED
          BY <1>3, <1>6, <3>1 DEF Behind
  <2>2. ASSUME NEW i \in DOMAIN t
        PROVE  Hold(h) \cap Cover(t[i]) = {}
    <3>1. 1 < i + 1
          BY <1>3
    <3>2. QED
          BY <1>3, <1>6, <3>1 DEF Behind
  <2>3. QED
        BY <2>1, <2>2 DEF Behind, Covers, Elements
<1>7. ASSUME NEW l, NEW x \in Latest(t, l)
      PROVE  x \in Latest(s, l)
  <2>1. PICK i \in DOMAIN t : x = t[i] /\ LatestAt(t, i, l)
        BY <1>7 DEF Latest
  <2>2. ASSUME NEW j \in DOMAIN s, j > i + 1
        PROVE  l \notin Cover(s[j])
    <3>1. j - 1 \in DOMAIN t /\ t[j - 1] = s[j] /\ j - 1 > i
          BY <1>3, <2>1, <2>2
    <3>2. QED
          BY <2>1, <3>1 DEF LatestAt
  <2>3. LatestAt(s, i + 1, l) /\ i + 1 \in DOMAIN s /\ s[i + 1] = x
        BY <1>3, <2>1, <2>2 DEF LatestAt
  <2>4. QED
        BY <2>3 DEF Latest
<1>8. ASSUME NEW l \in Cover(h) \ Covers(t)
      PROVE  h \in Latest(s, l)
  <2>1. ASSUME NEW j \in DOMAIN s, j > 1
        PROVE  l \notin Cover(s[j])
    <3>1. j - 1 \in DOMAIN t /\ t[j - 1] = s[j]
          BY <1>3, <2>1
    <3>2. QED
          BY <3>1, ClaimsOf
  <2>2. LatestAt(s, 1, l)
        BY <1>3, <2>1 DEF LatestAt
  <2>3. QED
        BY <1>3, <2>2 DEF Latest
<1>9. FirstOff(s, h, t)
       BY <1>4, <1>5, <1>6, <1>7, <1>8 DEF FirstOff
<1>10. QED
       BY <1>1, <1>9

LEMMA TailIsFirstOff ==
    ASSUME NEW S, NEW s \in Seq(S), s # <<>>
    PROVE  \E t \in Seq(S) : t = Tail(s) /\ FirstOff(s, Head(s), t)
BY TailIsShorter, ShorterIsFirstOff

LEMMA LongerIsLastOn ==
    ASSUME NEW S, NEW s \in Seq(S), NEW x \in S, NEW t \in Seq(S), Longer(s, x, t)
    PROVE  LastOn(s, x, t)
<1>1. /\ Len(s) \in Nat /\ DOMAIN s = 1..Len(s) /\ DOMAIN t = 1..(Len(s) + 1)
      /\ t[Len(s) + 1] = x /\ \A i \in 1..Len(s) : t[i] = s[i]
      BY LenProperties DEF Longer
<1>2. PICK n \in Nat : n = Len(s) + 1
      BY <1>1
<1>3. /\ n \in DOMAIN t /\ t[n] = x
      /\ \A i \in DOMAIN s : i \in DOMAIN t /\ i < n /\ t[i] = s[i]
      /\ \A i \in DOMAIN t : i = n \/ (i \in DOMAIN s /\ i < n /\ t[i] = s[i])
      /\ DOMAIN t \subseteq Nat /\ DOMAIN s \subseteq Nat
      BY <1>1, <1>2
<1>4. Elements(t) = Elements(s) \cup {x}
  <2>1. \A y \in Elements(t) : y = x \/ y \in Elements(s)
        BY <1>3 DEF Elements
  <2>2. x \in Elements(t) /\ \A y \in Elements(s) : y \in Elements(t)
        BY <1>3 DEF Elements
  <2>3. QED
        BY <2>1, <2>2
<1>5. ASSUME Sole(s), Hold(x) \cap Claims(s) = {}
      PROVE  Sole(t)
  <2>1. \A i \in DOMAIN s : Hold(x) \cap Hold(s[i]) = {} /\ Hold(s[i]) \cap Hold(x) = {}
        BY <1>5, ClaimsOf
  <2>2. ASSUME NEW i \in DOMAIN t, NEW j \in DOMAIN t, i # j
        PROVE  Hold(t[i]) \cap Hold(t[j]) = {}
        BY <1>3, <1>5, <2>1, <2>2 DEF Sole
  <2>3. QED
        BY <2>2 DEF Sole
<1>6. ASSUME Behind(s), Claims(s) \cap Cover(x) = {}
      PROVE  Behind(t)
  <2>1. \A i \in DOMAIN s : Hold(s[i]) \cap Cover(x) = {}
        BY <1>6, ClaimsOf
  <2>2. ASSUME NEW i \in DOMAIN t, NEW j \in DOMAIN t, i < j
        PROVE  Hold(t[i]) \cap Cover(t[j]) = {}
    <3>1. i # n
          BY <1>3, <2>2
    <3>2. QED
          BY <1>3, <1>6, <2>1, <2>2, <3>1 DEF Behind
  <2>3. QED
        BY <2>2 DEF Behind
<1>7. ASSUME NEW l, NEW y \in Latest(t, l)
      PROVE  y \in IF l \in Cover(x) THEN {x} ELSE Latest(s, l)
  <2>1. PICK i \in DOMAIN t : y = t[i] /\ LatestAt(t, i, l)
        BY <1>7 DEF Latest
  <2>2. CASE l \in Cover(x)
    <3>1. ~(n > i)
          BY <1>3, <2>1, <2>2 DEF LatestAt
    <3>2. i = n
          BY <1>3, <3>1
    <3>3. QED
          BY <1>3, <2>1, <2>2, <3>2
  <2>3. CASE l \notin Cover(x)
    <3>1. i # n /\ i \in DOMAIN s /\ s[i] = y
          BY <1>3, <2>1, <2>3 DEF LatestAt
    <3>2. LatestAt(s, i, l)
          BY <1>3, <2>1, <3>1 DEF LatestAt
    <3>3. QED
          BY <2>3, <3>1, <3>2 DEF Latest
  <2>4. QED
        BY <2>2, <2>3
<1>8. QED
      BY <1>4, <1>5, <1>6, <1>7 DEF LastOn

LEMMA AppendIsLastOn ==
    ASSUME NEW S, NEW s \in Seq(S), NEW x \in S
    PROVE  \E t \in Seq(S) : t = Append(s, x) /\ LastOn(s, x, t)
BY AppendIsLonger, LongerIsLastOn

LEMMA ConcatIsJoined ==
    ASSUME NEW S, NEW s \in Seq(S), NEW g \in Seq(S)
    PROVE  \E t \in Seq(S) : t = s \o g /\ Joined(s, g, t)
<1>1. PICK t : t = s \o g
      OBVIOUS
<1>2. /\ Len(s) \in Nat /\ Len(g) \in Nat /\ DOMAIN s = 1..Len(s) /\ DOMAIN g = 1..Len(g)
      BY LenProperties
<1>3. /\ t \in Seq(S) /\ Len(t) = Len(s) + Len(g)
      /\ \A i \in 1..Len(s) + Len(g) : t[i] = IF i <= Len(s) THEN s[i] ELSE g[i - Len(s)]
      BY <1>1, ConcatProperties
<1>4. DOMAIN t = 1..(Len(s) + Len(g))
      BY <1>2, <1>3, LenProperties
<1>5. PICK n \in Nat : n = Len(s)
      BY <1>2
<1>6. \A i \in DOMAIN s : i \in Nat /\ i <= n /\ i \in DOMAIN t /\ t[i] = s[i]
      BY <1>2, <1>3, <1>4, <1>5
<1>7. ASSUME NEW i \in DOMAIN g
      PROVE  i \in Nat /\ i > 0 /\ n + i \in DOMAIN t /\ t[n + i] = g[i]
  <2>1. n + i \in 1..(Len(s) + Len(g)) /\ ~(n + i <= n) /\ (n + i) - n = i /\ i \in Nat /\ i > 0
        BY <1>2, <1>5
  <2>2. QED
        BY <1>3, <1>4, <1>5, <2>1
<1>8. ASSUME NEW i \in DOMAIN t
      PROVE  /\ i \in Nat
             /\ \/ i \in DOMAIN s /\ i <= n /\ t[i] = s[i]
                \/ i > n /\ i - n \in DOMAIN g /\ t[i] = g[i - n]
      BY <1>2, <1>3, <1>4, <1>5
<1>9. Elements(t) = Elements(s) \cup Elements(g)
  <2>1. \A y \in Elements(t) : y \in Elements(s) \/ y \in Elements(g)
        BY <1>8 DEF Elements
  <2>2. \A y \in Elements(s) : y \in Elements(t)
        BY <1>6 DEF Elements
  <2>3. \A y \in Elements(g) : y \in Elements(t)
        BY <1>7 DEF Elements
  <2>4. QED
        BY <2>1, <2>2, <2>3
<1>10. ASSUME Sole(s), Sole(g), Claims(s) \cap Claims(g) = {}
       PROVE  Sole(t)
  <2>1. ASSUME NEW i \in DOMAIN s, NEW j \in DOMAIN g
        PROVE  Hold(s[i]) \cap Hold(g[j]) = {} /\ Hold(g[j]) \cap Hold(s[i]) = {}
    <3>1. Hold(s[i]) \subseteq Claims(s) /\ Hold(g[j]) \subseteq Claims(g)
          BY ClaimsOf
    <3>2. QED
          BY <1>10, <3>1
  <2>2. ASSUME NEW i \in DOMAIN t, NEW j \in DOMAIN t, i # j
        PROVE  Hold(t[i]) \cap Hold(t[j]) = {}
    <3>1. CASE i \in DOMAIN s /\ t[i] = s[i] /\ j \in DOMAIN s /\ t[j] = s[j]
          BY <1>10, <2>2, <3>1 DEF Sole
    <3>2. CASE i - n \in DOMAIN g /\ t[i] = g[i - n] /\ j - n \in DOMAIN g /\ t[j] = g[j - n]
      <4>1. i - n # j - n
            BY <1>8, <2>2
      <4>2. QED
            BY <1>10, <3>2, <4>1 DEF Sole
    <3>3. QED
          BY <1>8, <2>1, <3>1, <3>2
  <2>3. QED
        BY <2>2 DEF Sole
<1>11. ASSUME Behind(s), Behind(g), Claims(s) \cap Covers(g) = {}
       PROVE  Behind(t)
  <2>1. ASSUME NEW i \in DOMAIN s, NEW j \in DOMAIN g
        PROVE  Hold(s[i]) \cap Cover(g[j]) = {}
    <3>1. Hold(s[i]) \subseteq Claims(s) /\ Cover(g[j]) \subseteq Covers(g)
          BY ClaimsOf
    <3>2. QED
          BY <1>11, <3>1
  <2>2. ASSUME NEW i \in DOMAIN t, NEW j \in DOMAIN t, i < j
        PROVE  Hold(t[i]) \cap Cover(t[j]) = {}
    <3>1. CASE i \in DOMAIN s /\ t[i] = s[i] /\ j \in DOMAIN s /\ t[j] = s[j]
          BY <1>11, <2>2, <3>1 DEF Behind
    <3>2. CASE i - n \in DOMAIN g /\ t[i] = g[i - n] /\ j - n \in DOMAIN g /\ t[j] = g[j - n]
      <4>1. i - n < j - n
            BY <1>8, <2>2
      <4>2. QED
            BY <1>11, <3>2, <4>1 DEF Behind
    <3>3. CASE i > n
      <4>1. j > n
            BY <1>8, <2>2, <3>3
      <4>2. QED
            BY <1>8, <3>2, <3>3, <4>1
    <3>4. QED
          BY <1>8, <2>1, <3>1, <3>3
  <2>3. QED
        BY <2>2 DEF Behind
<1>12. ASSUME NEW l, NEW y \in Latest(t, l)
       PROVE  y \in Latest(s, l) \cup Latest(g, l)
  <2>1. PICK i \in DOMAIN t : y = t[i] /\ LatestAt(t, i, l)
        BY <1>12 DEF Latest
  <2>2. CASE i \in DOMAIN s /\ t[i] = s[i]
    <3>1. LatestAt(s, i, l)
          BY <1>6, <2>1, <2>2 DEF LatestAt
    <3>2. QED
          BY <2>1, <2>2, <3>1 DEF Latest
  <2>3. CASE i > n /\ i - n \in DOMAIN g /\ t[i] = g[i - n]
    <3>1. ASSUME NEW j \in DOMAIN g, j > i - n
          PROVE  l \notin Cover(g[j])
      <4>1. n + j > i
            BY <1>7, <1>8, <3>1
      <4>2. QED
            BY <1>7, <2>1, <4>1 DEF LatestAt
    <3>2. LatestAt(g, i - n, l)
          BY <2>1, <2>3, <3>1 DEF LatestAt
    <3>3. QED
          BY <2>1, <2>3, <3>2 DEF Latest
  <2>4. QED
        BY <1>8, <2>2, <2>3
<1>13. Joined(s, g, t)
      BY <1>9, <1>10, <1>11, <1>12 DEF Joined
<1>14. QED
      BY <1>1, <1>3, <1>13

-----------------------------------------------------------------------------
(* What one step may do to the queues of a device.                         *)

\* From queues that are in order to others that are, with no more work.
Moves(k, now, a, b, c, e, r, a2, b2, c2, e2, r2) ==
    Neat(a, b, c, e, r) /\ Sound(k, now, a, b, c, e, r) =>
        /\ Neat(a2, b2, c2, e2, r2) /\ Sound(k, now, a2, b2, c2, e2, r2)
        /\ Work(a2, b2, c2, e2, r2) \subseteq Work(a, b, c, e, r)

\* What each kind of call and message holds and covers.
LEMMA KindsHold ==
    ASSUME NEW x
    PROVE  /\ x.kind = "put" => Hold(x) = {} /\ Cover(x) = DOMAIN x.write
           /\ x.kind \in {"get", "reply"} => Hold(x) = Holds(x.then) /\ Cover(x) = {}
           /\ x.kind \notin {"get", "reply", "put"} => Hold(x) = {} /\ Cover(x) = {}
BY DEF Hold, Cover

LEMMA FirstOffFacts ==
    ASSUME NEW s, NEW h, NEW t, FirstOff(s, h, t)
    PROVE  /\ Claims(s) = Claims(t) \cup Hold(h) /\ Covers(s) = Covers(t) \cup Cover(h)
           /\ Elements(t) \subseteq Elements(s) /\ h \in Elements(s)
<1>1. Elements(s) = Elements(t) \cup {h}
      BY DEF FirstOff
<1>2. QED
      BY <1>1, ClaimsAdd

LEMMA LastOnFacts ==
    ASSUME NEW s, NEW x, NEW t, LastOn(s, x, t)
    PROVE  Claims(t) = Claims(s) \cup Hold(x) /\ Covers(t) = Covers(s) \cup Cover(x)
BY ClaimsAdd DEF LastOn

\* What is said of every element passes on to queues of the same elements.
LEMMA FewerTimely ==
    ASSUME NEW k, NEW now, NEW s, NEW t, Elements(t) \subseteq Elements(s),
           TagsTimely(k, now, s)
    PROVE  TagsTimely(k, now, t)
BY DEF TagsTimely

LEMMA OneMoreTimely ==
    ASSUME NEW k, NEW now, NEW s, NEW x, NEW t, Elements(t) = Elements(s) \cup {x},
           TagsTimely(k, now, s),
           x.kind \in {"get", "reply"} => Timely(k, now, x.then)
    PROVE  TagsTimely(k, now, t)
BY DEF TagsTimely

\* The first write is sent.
LEMMA PutIsSent ==
    ASSUME NEW k, NEW now, NEW a, NEW b, NEW c, NEW e, NEW r, NEW h, h.kind = "put",
           NEW t, FirstOff(a, h, t), NEW v, LastOn(b, h, v), NEW q, LastOn(r, h, q)
    PROVE  Moves(k, now, a, b, c, e, r, t, v, c, e, q)
<1> SUFFICES ASSUME Neat(a, b, c, e, r), Sound(k, now, a, b, c, e, r)
             PROVE  /\ Neat(t, v, c, e, q) /\ Sound(k, now, t, v, c, e, q)
                    /\ Work(t, v, c, e, q) \subseteq Work(a, b, c, e, r)
    BY DEF Moves
<1>1. Hold(h) = {}
      BY KindsHold
<1>2. /\ Claims(a) = Claims(t) /\ Covers(a) = Covers(t) \cup Cover(h)
      /\ Elements(t) \subseteq Elements(a) /\ h \in Elements(a)
      BY <1>1, FirstOffFacts
<1>3. /\ Claims(v) = Claims(b) /\ Covers(v) = Covers(b) \cup Cover(h)
      /\ Covers(q) = Covers(r) \cup Cover(h)
      BY <1>1, LastOnFacts
<1>4. Sole(t) /\ Sole(v) /\ Behind(v)
  <2>1. Sole(a) /\ Sole(b) /\ Behind(b) /\ Claims(b) \cap Cover(h) = {}
        BY <1>2 DEF Neat, Tidy
  <2>2. QED
        BY <1>1, <2>1 DEF FirstOff, LastOn
<1>5. Tidy(t, v, c, e)
      BY <1>2, <1>3, <1>4 DEF Neat, Tidy
<1>6. Work(t, v, c, e, q) \subseteq Work(a, b, c, e, r) /\ Neat(t, v, c, e, q)
      BY <1>2, <1>3, <1>5 DEF Work, Claimed, Written, Neat
<1>7. ASSUME NEW s, NEW u, LastOn(s, h, u), SentRight(k, s, a)
      PROVE  SentRight(k, u, t)
  <2>1. ASSUME NEW l \in Kept \ Covers(t), NEW x \in Latest(u, l)
        PROVE  Right(k, l, x.write[l])
    <3>1. CASE l \in Cover(h)
      <4>1. x = h
            BY <1>7, <2>1, <3>1 DEF LastOn
      <4>2. QED
            BY <1>2, <2>1, <3>1, <4>1 DEF Sound, PutsRight
    <3>2. CASE l \notin Cover(h)
      <4>1. x \in Latest(s, l)
            BY <1>7, <2>1, <3>2 DEF LastOn
      <4>2. l \in Kept \ Covers(a)
            BY <1>2, <2>1, <3>2
      <4>3. QED
            BY <1>7, <4>1, <4>2 DEF SentRight
    <3>3. QED
          BY <3>1, <3>2
  <2>2. QED
        BY <2>1 DEF SentRight
<1>8. SentRight(k, v, t) /\ SentRight(k, q, t)
      BY <1>7 DEF Sound
<1>9. TagsTimely(k, now, v)
  <2>1. Elements(v) = Elements(b) \cup {h}
        BY DEF LastOn
  <2>2. QED
        BY <2>1, OneMoreTimely DEF Sound
<1>10. PutsRight(k, t) /\ TagsTimely(k, now, t)
       BY <1>2, FewerTimely DEF Sound, PutsRight
<1>11. QED
       BY <1>6, <1>8, <1>9, <1>10 DEF Sound

\* Another call is taken off, and goes nowhere.
LEMMA CallIsTaken ==
    ASSUME NEW k, NEW now, NEW a, NEW b, NEW c, NEW e, NEW r, NEW h, h.kind # "put",
           NEW t, FirstOff(a, h, t)
    PROVE  /\ Moves(k, now, a, b, c, e, r, t, b, c, e, r)
           /\ Covers(t) = Covers(a)
           /\ Neat(a, b, c, e, r) =>
                 Hold(h) \cap (Claimed(t, b, c, e) \cup Covers(a)) = {}
<1>1. Cover(h) = {}
      BY KindsHold
<1>2. /\ Claims(a) = Claims(t) \cup Hold(h) /\ Covers(t) = Covers(a)
      /\ Elements(t) \subseteq Elements(a) /\ h \in Elements(a)
      BY <1>1, FirstOffFacts
<1>3. Sole(a) => Sole(t) /\ Hold(h) \cap Claims(t) = {}
      BY DEF FirstOff
<1>4. ASSUME Neat(a, b, c, e, r)
      PROVE  Hold(h) \cap (Claimed(t, b, c, e) \cup Covers(a)) = {}
      BY <1>2, <1>3, <1>4 DEF Neat, Tidy, Claimed
<1>5. ASSUME Neat(a, b, c, e, r)
      PROVE  Neat(t, b, c, e, r) /\ Work(t, b, c, e, r) \subseteq Work(a, b, c, e, r)
      BY <1>2, <1>3, <1>5 DEF Neat, Tidy, Work, Claimed, Written
<1>6. ASSUME Sound(k, now, a, b, c, e, r)
      PROVE  Sound(k, now, t, b, c, e, r)
      BY <1>2, <1>6, FewerTimely DEF Sound, PutsRight, SentRight
<1>7. QED
      BY <1>2, <1>4, <1>5, <1>6 DEF Moves

\* A call or message that holds leaves nobody else does joins another queue.
Joins(k, now, a, b, c, e, r, x, a2, b2, c2, e2) ==
    /\ Neat(a, b, c, e, r) /\ Sound(k, now, a, b, c, e, r)
    /\ Hold(x) \cap (Claimed(a, b, c, e) \cup Covers(a)) = {}
    /\ x.kind \in {"get", "reply"} => Timely(k, now, x.then)
    => /\ Neat(a2, b2, c2, e2, r) /\ Sound(k, now, a2, b2, c2, e2, r)
       /\ Work(a2, b2, c2, e2, r) \subseteq Work(a, b, c, e, r) \cup Hold(x)

LEMMA GetJoins ==
    ASSUME NEW k, NEW now, NEW a, NEW b, NEW c, NEW e, NEW r, NEW x, x.kind # "put"
    PROVE  /\ \A v : LastOn(b, x, v) => Joins(k, now, a, b, c, e, r, x, a, v, c, e)
           /\ \A v : LastOn(c, x, v) => Joins(k, now, a, b, c, e, r, x, a, b, v, e)
<1>1. Cover(x) = {}
      BY KindsHold
<1>2. ASSUME Neat(a, b, c, e, r), Sound(k, now, a, b, c, e, r),
             Hold(x) \cap (Claimed(a, b, c, e) \cup Covers(a)) = {},
             x.kind \in {"get", "reply"} => Timely(k, now, x.then),
             NEW v, LastOn(b, x, v)
      PROVE  /\ Neat(a, v, c, e, r) /\ Sound(k, now, a, v, c, e, r)
             /\ Work(a, v, c, e, r) \subseteq Work(a, b, c, e, r) \cup Hold(x)
  <2>1. Claims(v) = Claims(b) \cup Hold(x) /\ Covers(v) = Covers(b)
        BY <1>1, <1>2, LastOnFacts
  <2>2. Sole(v) /\ Behind(v)
    <3>1. Sole(b) /\ Behind(b) /\ Hold(x) \cap Claims(b) = {} /\ Claims(b) \cap Cover(x) = {}
          BY <1>1, <1>2 DEF Neat, Tidy, Claimed
    <3>2. QED
          BY <1>2, <3>1 DEF LastOn
  <2>3. Neat(a, v, c, e, r)
        BY <1>2, <2>1, <2>2 DEF Neat, Tidy, Claimed, Written
  <2>4. SentRight(k, v, a)
        BY <1>1, <1>2 DEF Sound, SentRight, LastOn
  <2>5. TagsTimely(k, now, v)
    <3>1. Elements(v) = Elements(b) \cup {x}
          BY <1>2 DEF LastOn
    <3>2. QED
          BY <1>2, <3>1, OneMoreTimely DEF Sound
  <2>6. QED
        BY <1>2, <2>1, <2>3, <2>4, <2>5 DEF Sound, Work, Claimed, Written
<1>3. ASSUME Neat(a, b, c, e, r), Sound(k, now, a, b, c, e, r),
             Hold(x) \cap (Claimed(a, b, c, e) \cup Covers(a)) = {},
             x.kind \in {"get", "reply"} => Timely(k, now, x.then),
             NEW v, LastOn(c, x, v)
      PROVE  /\ Neat(a, b, v, e, r) /\ Sound(k, now, a, b, v, e, r)
             /\ Work(a, b, v, e, r) \subseteq Work(a, b, c, e, r) \cup Hold(x)
  <2>1. Claims(v) = Claims(c) \cup Hold(x)
        BY <1>1, <1>3, LastOnFacts
  <2>2. Sole(v)
    <3>1. Sole(c) /\ Hold(x) \cap Claims(c) = {}
          BY <1>3 DEF Neat, Tidy, Claimed
    <3>2. QED
          BY <1>3, <3>1 DEF LastOn
  <2>3. Neat(a, b, v, e, r)
        BY <1>3, <2>1, <2>2 DEF Neat, Tidy, Claimed, Written
  <2>4. TagsTimely(k, now, v)
    <3>1. Elements(v) = Elements(c) \cup {x}
          BY <1>3 DEF LastOn
    <3>2. QED
          BY <1>3, <3>1, OneMoreTimely DEF Sound
  <2>5. QED
        BY <1>3, <2>1, <2>3, <2>4 DEF Sound, Work, Claimed, Written
<1>4. QED
      BY <1>2, <1>3 DEF Joins

\* So the first call may go on to the wire or to the gets that wait.
LEMMA CallIsPassedOn ==
    ASSUME NEW k, NEW now, NEW a, NEW b, NEW c, NEW e, NEW r, NEW h, h.kind # "put",
           NEW t, FirstOff(a, h, t)
    PROVE  /\ \A v : LastOn(b, h, v) => Moves(k, now, a, b, c, e, r, t, v, c, e, r)
           /\ \A v : LastOn(c, h, v) => Moves(k, now, a, b, c, e, r, t, b, v, e, r)
<1>1. /\ Moves(k, now, a, b, c, e, r, t, b, c, e, r) /\ Covers(t) = Covers(a)
      /\ Neat(a, b, c, e, r) => Hold(h) \cap (Claimed(t, b, c, e) \cup Covers(a)) = {}
      BY CallIsTaken
<1>2. h \in Elements(a) /\ Claims(a) = Claims(t) \cup Hold(h)
      BY FirstOffFacts
<1>3. ASSUME Neat(a, b, c, e, r), Sound(k, now, a, b, c, e, r)
      PROVE  /\ Neat(t, b, c, e, r) /\ Sound(k, now, t, b, c, e, r)
             /\ Hold(h) \cap (Claimed(t, b, c, e) \cup Covers(t)) = {}
             /\ h.kind \in {"get", "reply"} => Timely(k, now, h.then)
             /\ Work(t, b, c, e, r) \cup Hold(h) \subseteq Work(a, b, c, e, r)
  <2>1. Hold(h) \subseteq Work(a, b, c, e, r)
        BY <1>2 DEF Work, Claimed
  <2>2. h.kind \in {"get", "reply"} => Timely(k, now, h.then)
        BY <1>2, <1>3 DEF Sound, TagsTimely
  <2>3. QED
        BY <1>1, <1>3, <2>1, <2>2 DEF Moves
<1>4. ASSUME NEW v, LastOn(b, h, v)
      PROVE  Moves(k, now, a, b, c, e, r, t, v, c, e, r)
  <2>1. Joins(k, now, t, b, c, e, r, h, t, v, c, e)
        BY <1>4, GetJoins
  <2>2. QED
        BY <1>3, <2>1 DEF Joins, Moves
<1>5. ASSUME NEW v, LastOn(c, h, v)
      PROVE  Moves(k, now, a, b, c, e, r, t, b, v, e, r)
  <2>1. Joins(k, now, t, b, c, e, r, h, t, b, v, e)
        BY <1>5, GetJoins
  <2>2. QED
        BY <1>3, <2>1 DEF Joins, Moves
<1>6. QED
      BY <1>4, <1>5

\* A listen holds nothing, so it may go to the wire whatever is there.
LEMMA ListenIsSent ==
    ASSUME NEW k, NEW now, NEW a, NEW b, NEW c, NEW e, NEW r, NEW x, x.kind = "listen",
           NEW v, LastOn(b, x, v)
    PROVE  Moves(k, now, a, b, c, e, r, a, v, c, e, r)
<1>1. Hold(x) = {} /\ Joins(k, now, a, b, c, e, r, x, a, v, c, e)
      BY GetJoins, KindsHold
<1>2. QED
      BY <1>1 DEF Joins, Moves

\* A get that waits is given up.
LEMMA GetIsGivenUp ==
    ASSUME NEW k, NEW now, NEW a, NEW b, NEW c, NEW e, NEW r, NEW h, NEW t,
           FirstOff(c, h, t)
    PROVE  Moves(k, now, a, b, c, e, r, a, b, t, e, r)
<1>1. Claims(t) \subseteq Claims(c) /\ Elements(t) \subseteq Elements(c)
      BY FirstOffFacts
<1>2. Sole(c) => Sole(t)
      BY DEF FirstOff
<1>3. ASSUME Neat(a, b, c, e, r)
      PROVE  Neat(a, b, t, e, r) /\ Work(a, b, t, e, r) \subseteq Work(a, b, c, e, r)
      BY <1>1, <1>2, <1>3 DEF Neat, Tidy, Work, Claimed
<1>4. ASSUME Sound(k, now, a, b, c, e, r)
      PROVE  Sound(k, now, a, b, t, e, r)
      BY <1>1, <1>4, FewerTimely DEF Sound
<1>5. QED
      BY <1>3, <1>4 DEF Moves

\* A message is processed; if it was an acknowledgement, its write is forgotten.
LEMMA MessageIsTaken ==
    ASSUME NEW k, NEW now, NEW a, NEW b, NEW c, NEW e, NEW r, NEW h, NEW t,
           FirstOff(e, h, t)
    PROVE  /\ Moves(k, now, a, b, c, e, r, a, b, c, t, r)
           /\ Neat(a, b, c, e, r) => Hold(h) \cap (Claimed(a, b, c, t) \cup Covers(a)) = {}
<1>1. Claims(e) = Claims(t) \cup Hold(h) /\ Elements(t) \subseteq Elements(e)
      BY FirstOffFacts
<1>2. Sole(e) => Sole(t) /\ Hold(h) \cap Claims(t) = {}
      BY DEF FirstOff
<1>3. ASSUME Neat(a, b, c, e, r)
      PROVE  /\ Neat(a, b, c, t, r) /\ Work(a, b, c, t, r) \subseteq Work(a, b, c, e, r)
             /\ Hold(h) \cap (Claimed(a, b, c, t) \cup Covers(a)) = {}
      BY <1>1, <1>2, <1>3 DEF Neat, Tidy, Work, Claimed
<1>4. ASSUME Sound(k, now, a, b, c, e, r)
      PROVE  Sound(k, now, a, b, c, t, r)
      BY <1>1, <1>4, FewerTimely DEF Sound, RepliesRight
<1>5. QED
      BY <1>3, <1>4 DEF Moves

LEMMA WriteIsForgotten ==
    ASSUME NEW k, NEW now, NEW a, NEW b, NEW c, NEW e, NEW r, NEW x, NEW q,
           FirstOff(r, x, q)
    PROVE  Moves(k, now, a, b, c, e, r, a, b, c, e, q)
<1>1. Covers(q) \subseteq Covers(r) /\ \A l : Latest(q, l) \subseteq Latest(r, l)
      BY FirstOffFacts DEF FirstOff
<1>2. ASSUME Neat(a, b, c, e, r)
      PROVE  Neat(a, b, c, e, q) /\ Work(a, b, c, e, q) \subseteq Work(a, b, c, e, r)
      BY <1>1, <1>2 DEF Neat, Work, Written
<1>3. ASSUME Sound(k, now, a, b, c, e, r)
      PROVE  Sound(k, now, a, b, c, e, q)
      BY <1>1, <1>3 DEF Sound, SentRight
<1>4. QED
      BY <1>2, <1>3 DEF Moves

\* What queues that are put together claim and cover.
LEMMA JoinedFacts ==
    ASSUME NEW s, NEW g, NEW t, Joined(s, g, t)
    PROVE  Claims(t) = Claims(s) \cup Claims(g) /\ Covers(t) = Covers(s) \cup Covers(g)
BY ClaimsJoin DEF Joined

\* Calls and messages that hold nothing or cover nothing.
LEMMA InertQueue ==
    ASSUME NEW s, \A x \in Elements(s) : x.kind \notin {"get", "reply"}
    PROVE  Claims(s) = {} /\ Sole(s) /\ Behind(s)
<1>1. \A x \in Elements(s) : Hold(x) = {}
      BY KindsHold
<1>2. \A i \in DOMAIN s : Hold(s[i]) = {}
      BY <1>1 DEF Elements
<1>3. Claims(s) = {}
      BY <1>1 DEF Claims
<1>4. QED
      BY <1>2, <1>3 DEF Sole, Behind

LEMMA NoWrites ==
    ASSUME NEW s, \A x \in Elements(s) : x.kind # "put"
    PROVE  Covers(s) = {} /\ Behind(s) /\ \A l : Latest(s, l) = {}
<1>1. \A x \in Elements(s) : Cover(x) = {}
      BY KindsHold
<1>2. \A i \in DOMAIN s : Cover(s[i]) = {}
      BY <1>1 DEF Elements
<1>3. Covers(s) = {}
      BY <1>1 DEF Covers
<1>4. \A l, i : ~(i \in DOMAIN s /\ LatestAt(s, i, l))
      BY <1>2 DEF LatestAt
<1>5. \A l : Latest(s, l) = {}
      BY <1>4 DEF Latest
<1>6. QED
      BY <1>2, <1>3, <1>5 DEF Behind

LEMMA NothingQueued == Elements(<<>>) = {} /\ Claims(<<>>) = {} /\ Covers(<<>>) = {} /\ Sole(<<>>)
<1>1. Elements(<<>>) = {}
      BY DEF Elements
<1>2. QED
      BY <1>1, InertQueue, NoWrites

\* Acknowledgements and events arrive.
LEMMA NoticesArrive ==
    ASSUME NEW k, NEW now, NEW a, NEW b, NEW c, NEW e, NEW r, NEW g,
           \A x \in Elements(g) : x.kind \notin {"get", "reply"}, NEW m, Joined(e, g, m)
    PROVE  Moves(k, now, a, b, c, e, r, a, b, c, m, r)
<1>1. Claims(g) = {} /\ Sole(g)
      BY InertQueue
<1>2. Claims(m) = Claims(e) /\ Elements(m) = Elements(e) \cup Elements(g)
  <2>1. Claims(m) = Claims(e) \cup Claims(g)
        BY JoinedFacts
  <2>2. QED
        BY <1>1, <2>1 DEF Joined
<1>3. Sole(e) => Sole(m)
      BY <1>1 DEF Joined
<1>4. ASSUME Neat(a, b, c, e, r)
      PROVE  Neat(a, b, c, m, r) /\ Work(a, b, c, m, r) \subseteq Work(a, b, c, e, r)
      BY <1>2, <1>3, <1>4 DEF Neat, Tidy, Work, Claimed
<1>5. ASSUME Sound(k, now, a, b, c, e, r)
      PROVE  Sound(k, now, a, b, c, m, r)
  <2>1. RepliesRight(k, m)
        BY <1>2, <1>5 DEF Sound, RepliesRight
  <2>2. TagsTimely(k, now, m)
        BY <1>2, <1>5 DEF Sound, TagsTimely
  <2>3. QED
        BY <1>5, <2>1, <2>2 DEF Sound
<1>6. QED
      BY <1>4, <1>5 DEF Moves

\* A request that needs no answer is served.
LEMMA RequestIsServed ==
    ASSUME NEW k, NEW now, NEW a, NEW b, NEW c, NEW e, NEW r, NEW h, NEW t,
           FirstOff(b, h, t)
    PROVE  Moves(k, now, a, b, c, e, r, a, t, c, e, r)
<1>1. /\ Claims(t) \subseteq Claims(b) /\ Covers(t) \subseteq Covers(b)
      /\ Elements(t) \subseteq Elements(b)
      BY FirstOffFacts
<1>2. /\ Sole(b) => Sole(t)
      /\ Behind(b) => Behind(t)
      /\ \A l : Latest(t, l) \subseteq Latest(b, l)
      BY DEF FirstOff
<1>3. ASSUME Neat(a, b, c, e, r)
      PROVE  Neat(a, t, c, e, r) /\ Work(a, t, c, e, r) \subseteq Work(a, b, c, e, r)
      BY <1>1, <1>2, <1>3 DEF Neat, Tidy, Work, Claimed, Written
<1>4. ASSUME Sound(k, now, a, b, c, e, r)
      PROVE  Sound(k, now, a, t, c, e, r)
  <2>1. SentRight(k, t, a)
        BY <1>2, <1>4 DEF Sound, SentRight
  <2>2. QED
        BY <1>1, <1>4, <2>1, FewerTimely DEF Sound
<1>5. QED
      BY <1>3, <1>4 DEF Moves

\* A get is answered with what is right.
LEMMA GetIsServed ==
    ASSUME NEW k, NEW now, NEW a, NEW b, NEW c, NEW e, NEW r, NEW h, h.kind = "get", NEW t,
           FirstOff(b, h, t), NEW x, x.kind = "reply", x.then = h.then, Given(k, x),
           NEW m, LastOn(e, x, m)
    PROVE  Moves(k, now, a, b, c, e, r, a, t, c, m, r)
<1> SUFFICES ASSUME Neat(a, b, c, e, r), Sound(k, now, a, b, c, e, r)
             PROVE  /\ Neat(a, t, c, m, r) /\ Sound(k, now, a, t, c, m, r)
                    /\ Work(a, t, c, m, r) \subseteq Work(a, b, c, e, r)
    BY DEF Moves
<1>1. Hold(x) = Hold(h) /\ Cover(x) = {} /\ Cover(h) = {}
      BY KindsHold
<1>2. /\ Claims(b) = Claims(t) \cup Hold(x) /\ Covers(t) = Covers(b) /\ h \in Elements(b)
      BY <1>1, FirstOffFacts
<1>3. Hold(x) \cap Claims(t) = {} /\ Hold(x) \cap Covers(t) = {}
      BY <1>1 DEF Neat, Tidy, FirstOff
<1>4. Neat(a, t, c, e, r) /\ Sound(k, now, a, t, c, e, r)
      BY RequestIsServed DEF Moves
<1>5. /\ Claims(m) = Claims(e) \cup Hold(x)
      /\ Elements(m) = Elements(e) \cup {x}
      BY LastOnFacts DEF LastOn
<1>6. Sole(m)
  <2>1. Sole(e) /\ Hold(x) \cap Claims(e) = {}
        BY <1>2 DEF Neat, Tidy
  <2>2. QED
        BY <2>1 DEF LastOn
<1>7. Neat(a, t, c, m, r) /\ Work(a, t, c, m, r) \subseteq Work(a, b, c, e, r)
      BY <1>2, <1>3, <1>4, <1>5, <1>6 DEF Neat, Tidy, Work, Claimed, Written
<1>8. TagsTimely(k, now, m)
  <2>1. Timely(k, now, x.then)
        BY <1>2 DEF Sound, TagsTimely
  <2>2. QED
        BY <1>5, <2>1, OneMoreTimely DEF Sound
<1>9. RepliesRight(k, m)
      BY <1>5 DEF Sound, RepliesRight
<1>10. QED
       BY <1>4, <1>7, <1>8, <1>9 DEF Sound

\* A connection is lost: the writes are to be sent again, all else is gone.
LEMMA ConnectionIsLost ==
    ASSUME NEW k, NEW now, NEW a, NEW b, NEW c, NEW e, NEW r,
           \A x \in Elements(r) : x.kind = "put"
    PROVE  Moves(k, now, a, b, c, e, r, a, r, c, <<>>, r)
<1>1. Claims(r) = {} /\ Sole(r) /\ Behind(r)
      BY InertQueue
<1>2. ASSUME Neat(a, b, c, e, r)
      PROVE  Neat(a, r, c, <<>>, r) /\ Work(a, r, c, <<>>, r) \subseteq Work(a, b, c, e, r)
      BY <1>1, <1>2, NothingQueued DEF Neat, Tidy, Work, Claimed, Written
<1>3. ASSUME Sound(k, now, a, b, c, e, r)
      PROVE  Sound(k, now, a, r, c, <<>>, r)
  <2>1. TagsTimely(k, now, r)
        BY DEF TagsTimely
  <2>2. TagsTimely(k, now, <<>>) /\ RepliesRight(k, <<>>)
        BY NothingQueued DEF TagsTimely, RepliesRight
  <2>3. QED
        BY <1>3, <2>1, <2>2 DEF Sound
<1>4. QED
      BY <1>2, <1>3 DEF Moves

\* A connection is restored: the listen goes first, the gets that wait go last.
LEMMA ListenGoesFirst ==
    ASSUME NEW k, NEW now, NEW a, NEW b, NEW c, NEW e, NEW r, NEW o,
           \A x \in Elements(o) : x.kind = "listen", NEW v, Joined(o, b, v)
    PROVE  Moves(k, now, a, b, c, e, r, a, v, c, e, r)
<1>1. Claims(o) = {} /\ Sole(o) /\ Behind(o) /\ Covers(o) = {} /\ \A l : Latest(o, l) = {}
      BY InertQueue, NoWrites
<1>2. /\ Claims(v) = Claims(b) /\ Covers(v) = Covers(b)
      /\ \A l : Latest(v, l) \subseteq Latest(b, l)
      /\ Elements(v) = Elements(o) \cup Elements(b)
  <2>1. Claims(v) = Claims(o) \cup Claims(b) /\ Covers(v) = Covers(o) \cup Covers(b)
        BY JoinedFacts
  <2>2. /\ \A l : Latest(v, l) \subseteq Latest(o, l) \cup Latest(b, l)
        /\ Elements(v) = Elements(o) \cup Elements(b)
        BY DEF Joined
  <2>3. QED
        BY <1>1, <2>1, <2>2
<1>3. (Sole(b) => Sole(v)) /\ (Behind(b) => Behind(v))
      BY <1>1 DEF Joined
<1>4. ASSUME Neat(a, b, c, e, r)
      PROVE  Neat(a, v, c, e, r) /\ Work(a, v, c, e, r) \subseteq Work(a, b, c, e, r)
      BY <1>2, <1>3, <1>4 DEF Neat, Tidy, Work, Claimed, Written
<1>5. ASSUME Sound(k, now, a, b, c, e, r)
      PROVE  Sound(k, now, a, v, c, e, r)
  <2>1. SentRight(k, v, a)
        BY <1>2, <1>5 DEF Sound, SentRight
  <2>2. TagsTimely(k, now, v)
        BY <1>2, <1>5 DEF Sound, TagsTimely
  <2>3. QED
        BY <1>5, <2>1, <2>2 DEF Sound
<1>6. QED
      BY <1>4, <1>5 DEF Moves

LEMMA GetsGoLast ==
    ASSUME NEW k, NEW now, NEW a, NEW b, NEW c, NEW e, NEW r,
           \A x \in Elements(c) : x.kind = "get", NEW v, Joined(b, c, v)
    PROVE  Moves(k, now, a, b, c, e, r, a, v, <<>>, e, r)
<1>1. Covers(c) = {} /\ Behind(c) /\ \A l : Latest(c, l) = {}
      BY NoWrites
<1>2. /\ Claims(v) = Claims(b) \cup Claims(c) /\ Covers(v) = Covers(b)
      /\ \A l : Latest(v, l) \subseteq Latest(b, l)
      /\ Elements(v) = Elements(b) \cup Elements(c)
  <2>1. Claims(v) = Claims(b) \cup Claims(c) /\ Covers(v) = Covers(b) \cup Covers(c)
        BY JoinedFacts
  <2>2. /\ \A l : Latest(v, l) \subseteq Latest(b, l) \cup Latest(c, l)
        /\ Elements(v) = Elements(b) \cup Elements(c)
        BY DEF Joined
  <2>3. QED
        BY <1>1, <2>1, <2>2
<1>3. /\ Sole(b) /\ Sole(c) /\ Claims(b) \cap Claims(c) = {} => Sole(v)
      /\ Behind(b) => Behind(v)
      BY <1>1 DEF Joined
<1>4. ASSUME Neat(a, b, c, e, r)
      PROVE  Neat(a, v, <<>>, e, r) /\ Work(a, v, <<>>, e, r) \subseteq Work(a, b, c, e, r)
      BY <1>2, <1>3, <1>4, NothingQueued DEF Neat, Tidy, Work, Claimed, Written
<1>5. ASSUME Sound(k, now, a, b, c, e, r)
      PROVE  Sound(k, now, a, v, <<>>, e, r)
  <2>1. SentRight(k, v, a)
        BY <1>2, <1>5 DEF Sound, SentRight
  <2>2. TagsTimely(k, now, v) /\ TagsTimely(k, now, <<>>)
        BY <1>2, <1>5, NothingQueued DEF Sound, TagsTimely
  <2>3. QED
        BY <1>5, <2>1, <2>2 DEF Sound
<1>6. QED
      BY <1>4, <1>5 DEF Moves

-----------------------------------------------------------------------------
(* The steps of the client, the server and the network.                    *)

\* Nothing of device e's queues changes.
Unmoved(e) ==
    /\ up'[e] = up[e] /\ todo'[e] = todo[e] /\ pending'[e] = pending[e]
    /\ wire'[e] = wire[e] /\ held'[e] = held[e] /\ inbox'[e] = inbox[e]

LEMMA UnmovedStays ==
    ASSUME NEW e \in Device, Unmoved(e)
    PROVE  /\ DeviceNeat(e) => DeviceNeat(e)'
           /\ UNCHANGED <<ledger, today>> /\ DeviceSound(e) => DeviceSound(e)'
           /\ Busy(e)' = Busy(e) /\ Unserved(e)' = Unserved(e)
<1>1. Resends(e)' = Resends(e)
      BY DEF Unmoved, Resends
<1>2. QED
      BY <1>1 DEF Unmoved, DeviceNeat, DeviceSound, Busy, Unserved

\* Who is at work does not change when nobody comes to have more work.
LEMMA TurnsStay ==
    ASSUME Turns, \A e \in Device : Busy(e)' \subseteq Busy(e)
    PROVE  Turns'
BY DEF Turns

LEMMA RecordStays ==
    ASSUME RecordRight, UNCHANGED <<record, ledger>>,
           \A e \in Device : Unserved(e) \subseteq Unserved(e)'
    PROVE  RecordRight'
BY DEF RecordRight

\* One device's queues move.
LEMMA OneMovesOn ==
    ASSUME TurnInv, NEW d \in Device, UNCHANGED <<ledger, today>>, up'[d] = up[d],
           \A e \in Device \ {d} : Unmoved(e),
           NEW a, NEW b, NEW c, NEW e, NEW r,
           todo'[d] = a, wire'[d] = b, held'[d] = c, inbox'[d] = e, Resends(d)' = r,
           Moves(ledger, today, todo[d], wire[d], held[d], inbox[d], Resends(d), a, b, c, e, r)
    PROVE  /\ \A f \in Device : up'[f] /\ DeviceNeat(f)' /\ DeviceSound(f)'
           /\ Turns' /\ Counted'
           /\ \A f \in Device : Busy(f)' \subseteq Busy(f)
           /\ UNCHANGED record /\ Unserved(d) \subseteq Covers(a) \cup Covers(b) => TurnInv'
<1>1. \A f \in Device : up[f] /\ DeviceNeat(f) /\ DeviceSound(f)
      BY DEF TurnInv
<1>2. DeviceNeat(d)' /\ DeviceSound(d)' /\ Busy(d)' \subseteq Busy(d)
  <2>1. /\ Neat(a, b, c, e, r) /\ Sound(ledger, today, a, b, c, e, r)
        /\ Work(a, b, c, e, r) \subseteq Busy(d)
        BY <1>1 DEF Moves, DeviceNeat, DeviceSound, Busy
  <2>2. QED
        BY <2>1 DEF DeviceNeat, DeviceSound, Busy
<1>3. ASSUME NEW f \in Device
      PROVE  /\ up'[f] /\ DeviceNeat(f)' /\ DeviceSound(f)' /\ Busy(f)' \subseteq Busy(f)
             /\ f # d => Unserved(f)' = Unserved(f)
      BY <1>1, <1>2, UnmovedStays DEF Unmoved
<1>4. Turns'
      BY <1>3, TurnsStay DEF TurnInv
<1>5. Counted'
      BY DEF TurnInv, Counted
<1>6. ASSUME UNCHANGED record, Unserved(d) \subseteq Covers(a) \cup Covers(b)
      PROVE  TurnInv'
  <2>1. Unserved(d)' = Covers(a) \cup Covers(b)
        BY DEF Unserved
  <2>2. \A f \in Device : Unserved(f) \subseteq Unserved(f)'
        BY <1>3, <1>6, <2>1
  <2>3. RecordRight'
        BY <1>6, <2>2, RecordStays DEF TurnInv
  <2>4. QED
        BY <1>3, <1>4, <1>5, <2>3 DEF TurnInv
<1>7. QED
      BY <1>3, <1>4, <1>5, <1>6

\* Only device d's queues may move.
Aside(d) == \A e \in Device \ {d} : Unmoved(e)

LEMMA SameResends ==
    ASSUME NEW d, pending'[d] = pending[d]
    PROVE  Resends(d)' = Resends(d)
BY DEF Resends

\* The writes that would be sent again are calls.
LEMMA ResendsAreCalls ==
    ASSUME NEW G, NEW B, DatabaseInv(G, B), NEW d \in Device
    PROVE  /\ Resends(d) \in Seq(Call(G, B[d])) /\ Len(Resends(d)) = Len(pending[d])
           /\ \A x \in Elements(Resends(d)) : x.kind = "put"
<1>1. pending[d] \in Seq(Write(G)) /\ Len(pending[d]) \in Nat
      BY LenProperties DEF DatabaseInv
<1>2. ASSUME NEW i \in 1..Len(pending[d])
      PROVE  SetValue(pending[d][i]) \in Call(G, B[d])
      BY <1>1, PutIsCall
<1>3. PICK n \in Nat : n = Len(pending[d])
      BY <1>1
<1>4. Resends(d) \in [1..n -> Call(G, B[d])] /\ DOMAIN Resends(d) = 1..n
      BY <1>2, <1>3 DEF Resends
<1>5. Resends(d) \in Seq(Call(G, B[d])) /\ Len(Resends(d)) = n
      BY <1>4, LenProperties
<1>6. ASSUME NEW x \in Elements(Resends(d))
      PROVE  x.kind = "put"
  <2>1. PICK i \in 1..n : x = Resends(d)[i]
        BY <1>4, <1>6 DEF Elements
  <2>2. x = SetValue(pending[d][i])
        BY <1>3, <2>1 DEF Resends
  <2>3. QED
        BY <2>2 DEF SetValue
<1>7. QED
      BY <1>3, <1>5, <1>6

LEMMA ExecuteWriteTurns ==
    ASSUME NEW G, NEW B, DatabaseInv(G, B), NEW d \in Device, TurnInv,
           ExecuteWrite(d), UNCHANGED <<ledger, today>>
    PROVE  TurnInv'
<1> DEFINE C == Call(G, B[d])
<1>1. PICK h \in First(todo[d]) :
          /\ h.kind = "put"
          /\ pending' = [pending EXCEPT ![d] = Append(@, h.write)]
          /\ wire' = [wire EXCEPT ![d] = Append(@, h)]
      BY DEF ExecuteWrite
<1>2. h \in C /\ h.write \in Write(G) /\ h = SetValue(h.write)
  <2>1. h \in Call(G, B[d])
        BY FirstCall
  <2>2. QED
        BY <1>1, <2>1, CallKinds DEF Call, GetData, SetValue, Observe
<1>3. /\ todo[d] \in Seq(C) /\ todo[d] # <<>> /\ h = Head(todo[d])
      /\ wire[d] \in Seq(C) /\ pending[d] \in Seq(Write(G))
      /\ Resends(d) \in Seq(C)
      BY <1>1, ResendsAreCalls DEF First, DatabaseInv
<1> HIDE DEF C
<1>4. PICK t \in Seq(C) : t = Tail(todo[d]) /\ FirstOff(todo[d], h, t)
      BY <1>3, TailIsFirstOff
<1>5. PICK v \in Seq(C) : v = Append(wire[d], h) /\ LastOn(wire[d], h, v)
      BY <1>2, <1>3, AppendIsLastOn
<1>6. PICK p \in Seq(Write(G)) : p = Append(pending[d], h.write) /\ Longer(pending[d], h.write, p)
      BY <1>2, <1>3, AppendIsLonger
<1>7. /\ todo'[d] = t /\ wire'[d] = v /\ pending'[d] = p
      /\ held'[d] = held[d] /\ inbox'[d] = inbox[d] /\ up'[d] = up[d]
      BY <1>1, <1>4, <1>5, <1>6 DEF ExecuteWrite, DatabaseInv, linkVars
<1>8. PICK q : q = [i \in 1..Len(p) |-> SetValue(p[i])]
      OBVIOUS
<1>9. q \in Seq(C) /\ Longer(Resends(d), h, q)
  <2>1. /\ Len(p) = Len(pending[d]) + 1 /\ Len(p) \in Nat /\ Len(pending[d]) \in Nat
        /\ p[Len(pending[d]) + 1] = h.write
        /\ \A i \in 1..Len(pending[d]) : p[i] = pending[d][i]
        BY <1>3, <1>6, LenProperties DEF Longer
  <2>2. PICK n \in Nat : n = Len(pending[d])
        BY <2>1
  <2>3. Len(Resends(d)) = n /\ \A i \in 1..n : Resends(d)[i] = SetValue(pending[d][i])
        BY <2>2, ResendsAreCalls DEF Resends
  <2>4. \A i \in 1..Len(p) : SetValue(p[i]) \in C
        BY <1>6, PutIsCall DEF C
  <2>5. q \in [1..(n + 1) -> C]
        BY <1>8, <2>1, <2>2, <2>4
  <2>6. q \in Seq(C) /\ Len(q) = n + 1
        BY <2>5, LenProperties
  <2>7. q[n + 1] = h /\ \A i \in 1..n : q[i] = Resends(d)[i]
        BY <1>2, <1>8, <2>1, <2>2, <2>3
  <2>8. QED
        BY <2>3, <2>6, <2>7 DEF Longer
<1>10. LastOn(Resends(d), h, q)
       BY <1>2, <1>3, <1>9, LongerIsLastOn
<1>11. Resends(d)' = q
       BY <1>7, <1>8 DEF Resends
<1>12. Moves(ledger, today, todo[d], wire[d], held[d], inbox[d], Resends(d),
             t, v, held[d], inbox[d], q)
       BY <1>1, <1>4, <1>5, <1>10, PutIsSent
<1>13. Unserved(d) \subseteq Covers(t) \cup Covers(v)
  <2>1. Covers(todo[d]) = Covers(t) \cup Cover(h) /\ Covers(v) = Covers(wire[d]) \cup Cover(h)
        BY <1>4, <1>5, FirstOffFacts, LastOnFacts
  <2>2. QED
        BY <2>1 DEF Unserved
<1>14. Aside(d) /\ UNCHANGED record
       BY <1>1 DEF ExecuteWrite, Aside, Unmoved, DatabaseInv, linkVars
<1>15. QED
       BY <1>7, <1>11, <1>12, <1>13, <1>14, OneMovesOn DEF Aside

\* An acknowledgement belongs to a write.
LEMMA AckIsOfWrite ==
    ASSUME NEW G, NEW B, DatabaseInv(G, B), QueueInv, NEW d \in Device,
           NEW m \in First(inbox[d]), m.kind = "ack"
    PROVE  Len(pending[d]) > 0
<1> DEFINE M == Message(G, B[d])
<1>1. /\ inbox[d] \in Seq(M) /\ inbox[d] # <<>> /\ m = inbox[d][1]
      /\ pending[d] \in Seq(Write(G)) /\ wire[d] \in Seq(Call(G, B[d]))
      BY DEF DatabaseInv, First
<1>2. UnderWay(wire[d], pending[d], Acks(inbox[d]))
      BY OnlyWhenUp DEF QueueInv, QueueOf
<1> HIDE DEF M
<1>3. 1 \in Calls(inbox[d], "ack")
  <2>1. Len(inbox[d]) \in Nat /\ Len(inbox[d]) > 0 /\ DOMAIN inbox[d] = 1..Len(inbox[d])
        BY <1>1, EmptySeq, LenProperties
  <2>2. QED
        BY <1>1, <2>1 DEF Calls
<1>4. Cardinality(Upto(inbox[d], "ack", 1)) \in 1..Cardinality(Calls(inbox[d], "ack"))
      BY <1>1, <1>3, CallsAreCounted
<1>5. /\ Cardinality(Calls(wire[d], "put")) \in Nat /\ Acks(inbox[d]) \in Nat
      /\ Len(pending[d]) \in Nat
      BY <1>1, CallsAreCounted, LenProperties DEF Acks
<1>6. Acks(inbox[d]) > 0
      BY <1>4, <1>5 DEF Acks
<1>7. QED
      BY <1>2, <1>5, <1>6 DEF UnderWay

LEMMA ExecuteGetTurns ==
    ASSUME NEW G, NEW B, DatabaseInv(G, B), NEW d \in Device, TurnInv,
           ExecuteGet(d), UNCHANGED <<ledger, today>>
    PROVE  TurnInv'
<1> DEFINE C == Call(G, B[d])
<1>1. PICK h \in First(todo[d]) : h.kind = "get" /\ wire' = [wire EXCEPT ![d] = Append(@, h)]
      BY DEF ExecuteGet
<1>2. /\ h \in C /\ todo[d] \in Seq(C) /\ todo[d] # <<>> /\ h = Head(todo[d])
      /\ wire[d] \in Seq(C)
      BY <1>1, FirstCall DEF First, DatabaseInv
<1> HIDE DEF C
<1>3. PICK t \in Seq(C) : t = Tail(todo[d]) /\ FirstOff(todo[d], h, t)
      BY <1>2, TailIsFirstOff
<1>4. PICK v \in Seq(C) : v = Append(wire[d], h) /\ LastOn(wire[d], h, v)
      BY <1>2, AppendIsLastOn
<1>5. /\ todo'[d] = t /\ wire'[d] = v /\ pending'[d] = pending[d]
      /\ held'[d] = held[d] /\ inbox'[d] = inbox[d] /\ up'[d] = up[d]
      BY <1>1, <1>3, <1>4 DEF ExecuteGet, DatabaseInv, linkVars
<1>6. h.kind # "put" /\ Cover(h) = {}
      BY <1>1, KindsHold
<1>7. Moves(ledger, today, todo[d], wire[d], held[d], inbox[d], Resends(d),
            t, v, held[d], inbox[d], Resends(d))
      BY <1>3, <1>4, <1>6, CallIsPassedOn
<1>8. Unserved(d) \subseteq Covers(t) \cup Covers(v)
  <2>1. Covers(todo[d]) = Covers(t) \cup Cover(h) /\ Covers(v) = Covers(wire[d]) \cup Cover(h)
        BY <1>3, <1>4, FirstOffFacts, LastOnFacts
  <2>2. QED
        BY <2>1 DEF Unserved
<1>9. Aside(d) /\ UNCHANGED record
      BY <1>1 DEF ExecuteGet, Aside, Unmoved, DatabaseInv, linkVars
<1>10. QED
       BY <1>5, <1>7, <1>8, <1>9, SameResends, OneMovesOn DEF Aside

LEMMA HoldGetTurns ==
    ASSUME NEW G, NEW B, DatabaseInv(G, B), NEW d \in Device, TurnInv,
           HoldGet(d), UNCHANGED <<ledger, today>>
    PROVE  TurnInv'
<1> DEFINE C == Call(G, B[d])
<1>1. PICK h \in First(todo[d]) : h.kind = "get" /\ held' = [held EXCEPT ![d] = Append(@, h)]
      BY DEF HoldGet
<1>2. /\ h \in C /\ todo[d] \in Seq(C) /\ todo[d] # <<>> /\ h = Head(todo[d])
      /\ held[d] \in Seq(C)
      BY <1>1, FirstCall DEF First, DatabaseInv
<1> HIDE DEF C
<1>3. PICK t \in Seq(C) : t = Tail(todo[d]) /\ FirstOff(todo[d], h, t)
      BY <1>2, TailIsFirstOff
<1>4. PICK v \in Seq(C) : v = Append(held[d], h) /\ LastOn(held[d], h, v)
      BY <1>2, AppendIsLastOn
<1>5. /\ todo'[d] = t /\ wire'[d] = wire[d] /\ pending'[d] = pending[d]
      /\ held'[d] = v /\ inbox'[d] = inbox[d] /\ up'[d] = up[d]
      BY <1>1, <1>3, <1>4 DEF HoldGet, DatabaseInv, linkVars
<1>6. h.kind # "put" /\ Cover(h) = {}
      BY <1>1, KindsHold
<1>7. Moves(ledger, today, todo[d], wire[d], held[d], inbox[d], Resends(d),
            t, wire[d], v, inbox[d], Resends(d))
      BY <1>3, <1>4, <1>6, CallIsPassedOn
<1>8. Unserved(d) \subseteq Covers(t) \cup Covers(wire[d])
  <2>1. Covers(todo[d]) = Covers(t) \cup Cover(h)
        BY <1>3, FirstOffFacts
  <2>2. QED
        BY <1>6, <2>1 DEF Unserved
<1>9. Aside(d) /\ UNCHANGED record
      BY <1>1 DEF HoldGet, Aside, Unmoved, DatabaseInv, linkVars
<1>10. QED
       BY <1>5, <1>7, <1>8, <1>9, SameResends, OneMovesOn DEF Aside

LEMMA TimeOutTurns ==
    ASSUME NEW G, NEW B, DatabaseInv(G, B), NEW d \in Device, TurnInv,
           TimeOut(d), UNCHANGED <<ledger, today>>
    PROVE  TurnInv'
<1> DEFINE C == Call(G, B[d])
<1>1. held[d] \in Seq(C) /\ held[d] # <<>>
      BY DEF TimeOut, DatabaseInv
<1> HIDE DEF C
<1>2. PICK t \in Seq(C) : t = Tail(held[d]) /\ FirstOff(held[d], Head(held[d]), t)
      BY <1>1, TailIsFirstOff
<1>3. /\ todo'[d] = todo[d] /\ wire'[d] = wire[d] /\ pending'[d] = pending[d]
      /\ held'[d] = t /\ inbox'[d] = inbox[d] /\ up'[d] = up[d]
      BY <1>2 DEF TimeOut, DatabaseInv, linkVars
<1>4. Moves(ledger, today, todo[d], wire[d], held[d], inbox[d], Resends(d),
            todo[d], wire[d], t, inbox[d], Resends(d))
      BY <1>2, GetIsGivenUp
<1>5. Aside(d) /\ UNCHANGED record
      BY DEF TimeOut, Aside, Unmoved, DatabaseInv, linkVars
<1>6. QED
      BY <1>3, <1>4, <1>5, SameResends, OneMovesOn DEF Aside, Unserved

LEMMA ExecuteListenTurns ==
    ASSUME NEW G, NEW B, DatabaseInv(G, B), NEW d \in Device, TurnInv,
           ExecuteListen(d), UNCHANGED <<ledger, today>>
    PROVE  TurnInv'
<1> DEFINE C == Call(G, B[d])
<1>1. PICK h \in First(todo[d]) : h.kind = "listen"
      BY DEF ExecuteListen
<1>2. /\ h \in C /\ todo[d] \in Seq(C) /\ todo[d] # <<>> /\ h = Head(todo[d])
      /\ wire[d] \in Seq(C) /\ Observe \in C /\ Observe.kind = "listen"
      BY <1>1, FirstCall, ObserveIsCall DEF First, DatabaseInv, Observe
<1> HIDE DEF C
<1>3. PICK t \in Seq(C) : t = Tail(todo[d]) /\ FirstOff(todo[d], h, t)
      BY <1>2, TailIsFirstOff
<1>4. PICK v \in Seq(C) : v = Append(wire[d], Observe) /\ LastOn(wire[d], Observe, v)
      BY <1>2, AppendIsLastOn
<1>5. PICK w : w = wire'[d]
      OBVIOUS
<1>6. /\ todo'[d] = t /\ w \in {v, wire[d]} /\ pending'[d] = pending[d]
      /\ held'[d] = held[d] /\ inbox'[d] = inbox[d] /\ up'[d] = up[d]
      BY <1>3, <1>4, <1>5 DEF ExecuteListen, DatabaseInv
<1>7. /\ Moves(ledger, today, todo[d], wire[d], held[d], inbox[d], Resends(d),
               t, wire[d], held[d], inbox[d], Resends(d))
      /\ Covers(t) = Covers(todo[d])
      BY <1>1, <1>3, CallIsTaken
<1>8. Moves(ledger, today, t, wire[d], held[d], inbox[d], Resends(d),
            t, v, held[d], inbox[d], Resends(d))
      BY <1>2, <1>4, ListenIsSent
<1>9. Moves(ledger, today, todo[d], wire[d], held[d], inbox[d], Resends(d),
            t, w, held[d], inbox[d], Resends(d))
      BY <1>6, <1>7, <1>8 DEF Moves
<1>10. Unserved(d) \subseteq Covers(t) \cup Covers(w)
  <2>1. Covers(wire[d]) \subseteq Covers(v)
        BY <1>4, LastOnFacts
  <2>2. QED
        BY <1>6, <1>7, <2>1 DEF Unserved
<1>11. Aside(d) /\ UNCHANGED record
       BY DEF ExecuteListen, Aside, Unmoved, DatabaseInv
<1>12. QED
       BY <1>5, <1>6, <1>9, <1>10, <1>11, SameResends, OneMovesOn DEF Aside

\* A message is processed that is no reply.
LEMMA ReceiveTurns ==
    ASSUME NEW G, NEW B, DatabaseInv(G, B), QueueInv, NEW d \in Device, TurnInv,
           ReceiveAck(d) \/ ReceiveEvent(d), UNCHANGED <<ledger, today>>
    PROVE  TurnInv'
<1> DEFINE M == Message(G, B[d])
           C == Call(G, B[d])
<1>1. inbox[d] \in Seq(M) /\ inbox[d] # <<>> /\ pending[d] \in Seq(Write(G))
      BY DEF ReceiveAck, ReceiveEvent, First, DatabaseInv
<1> HIDE DEF M
<1>2. PICK t \in Seq(M) : t = Tail(inbox[d]) /\ FirstOff(inbox[d], Head(inbox[d]), t)
      BY <1>1, TailIsFirstOff
<1>3. /\ todo'[d] = todo[d] /\ wire'[d] = wire[d] /\ held'[d] = held[d]
      /\ inbox'[d] = t /\ up'[d] = up[d]
      BY <1>2 DEF ReceiveAck, ReceiveEvent, DatabaseInv, linkVars
<1>4. Moves(ledger, today, todo[d], wire[d], held[d], inbox[d], Resends(d),
            todo[d], wire[d], held[d], t, Resends(d))
      BY <1>2, MessageIsTaken
<1>5. Aside(d) /\ UNCHANGED record
      BY DEF ReceiveAck, ReceiveEvent, Aside, Unmoved, DatabaseInv, linkVars
<1>6. CASE pending'[d] = pending[d]
      BY <1>3, <1>4, <1>5, <1>6, SameResends, OneMovesOn DEF Aside, Unserved
<1>7. CASE pending'[d] # pending[d]
  <2>1. PICK m \in First(inbox[d]) : m.kind = "ack"
        BY <1>7 DEF ReceiveAck, ReceiveEvent
  <2>2. Len(pending[d]) > 0 /\ pending' = [pending EXCEPT ![d] = SubSeq(@, 2, Len(@))]
    <3>1. pending' = [pending EXCEPT ![d] = SubSeq(@, 2, Len(@))]
          BY <1>7 DEF ReceiveAck, ReceiveEvent
    <3>2. Len(pending[d]) > 0
          BY <1>7, <2>1, <3>1, AckIsOfWrite
    <3>3. QED
          BY <3>1, <3>2
  <2>3. PICK p \in Seq(Write(G)) : p = SubSeq(pending[d], 2, Len(pending[d])) /\ Shorter(pending[d], p)
        BY <1>1, <2>2, RestIsShorter
  <2>4. pending'[d] = p
        BY <2>2, <2>3 DEF DatabaseInv
  <2>5. PICK q : q = [i \in 1..Len(p) |-> SetValue(p[i])]
        OBVIOUS
  <2>6. Resends(d) \in Seq(C) /\ q \in Seq(C) /\ Shorter(Resends(d), q)
    <3>1. /\ Len(pending[d]) > 0 /\ Len(p) = Len(pending[d]) - 1 /\ Len(p) \in Nat
          /\ Len(pending[d]) \in Nat
          /\ \A i \in 1..Len(p) : p[i] = pending[d][i + 1]
          BY <1>1, <2>3, LenProperties DEF Shorter
    <3>2. PICK n \in Nat : n = Len(pending[d])
          BY <3>1
    <3>3. /\ Resends(d) \in Seq(C) /\ Len(Resends(d)) = n
          /\ \A i \in 1..n : Resends(d)[i] = SetValue(pending[d][i])
          BY <3>2, ResendsAreCalls DEF Resends
    <3>4. \A i \in 1..Len(p) : SetValue(p[i]) \in C
          BY <2>3, PutIsCall
    <3>5. q \in [1..(n - 1) -> C] /\ n - 1 \in Nat
          BY <2>5, <3>1, <3>2, <3>4
    <3>6. q \in Seq(C) /\ Len(q) = n - 1
          BY <3>5, LenProperties
    <3>7. \A i \in 1..(n - 1) : i + 1 \in 1..n /\ q[i] = Resends(d)[i + 1]
          BY <2>5, <3>1, <3>2, <3>3
    <3>8. QED
          BY <3>1, <3>2, <3>3, <3>6, <3>7 DEF Shorter
  <2>7. FirstOff(Resends(d), Resends(d)[1], q)
        BY <2>6, ShorterIsFirstOff
  <2>8. Resends(d)' = q
        BY <2>4, <2>5 DEF Resends
  <2>9. Moves(ledger, today, todo[d], wire[d], held[d], t, Resends(d),
              todo[d], wire[d], held[d], t, q)
        BY <2>7, WriteIsForgotten
  <2>10. Moves(ledger, today, todo[d], wire[d], held[d], inbox[d], Resends(d),
               todo[d], wire[d], held[d], t, q)
         BY <1>4, <2>9 DEF Moves
  <2>11. QED
         BY <1>3, <1>5, <2>8, <2>10, OneMovesOn DEF Aside, Unserved
<1>8. QED
      BY <1>6, <1>7

-----------------------------------------------------------------------------
(* The server and the connection.                                          *)

\* The members of a short queue.
LEMMA ElementsOfShort ==
    /\ Elements(<<>>) = {}
    /\ \A x : Elements(<<x>>) = {x}
    /\ \A x, y : Elements(<<x, y>>) = {x, y}
<1>1. \A x : Elements(<<x>>) = {x}
  <2> SUFFICES ASSUME NEW x PROVE Elements(<<x>>) = {x}
      OBVIOUS
  <2>1. PICK s : s = <<x>>
        OBVIOUS
  <2>2. DOMAIN s = {1} /\ s[1] = x
        BY <2>1
  <2>3. Elements(s) = {x}
        BY <2>2 DEF Elements
  <2>4. QED
        BY <2>1, <2>3
<1>2. ASSUME NEW x, NEW y
      PROVE  Elements(<<x, y>>) = {x, y}
  <2>1. PICK s : s = <<x, y>>
        OBVIOUS
  <2>2. DOMAIN s = {1, 2} /\ s[1] = x /\ s[2] = y
        BY <2>1
  <2>3. Elements(s) = {x, y}
        BY <2>2 DEF Elements
  <2>4. QED
        BY <2>1, <2>3
<1>3. QED
      BY <1>1, <1>2, NothingQueued

LEMMA NoticesAreInert ==
    ASSUME NEW S, NEW e, NEW d, NEW w, Event(w) \in S, Ack \in S
    PROVE  /\ Notices(e, d, w) \in Seq(S)
           /\ \A x \in Elements(Notices(e, d, w)) : x.kind \notin {"get", "reply"}
<1> DEFINE a == IF watching[e] THEN <<Event(w)>> ELSE <<>>
           b == IF e = d /\ up[d] THEN <<Ack>> ELSE <<>>
<1>1. (\A x \in S : <<x>> \in Seq(S)) /\ <<>> \in Seq(S)
      OBVIOUS
<1>2. a \in Seq(S) /\ Elements(a) \subseteq {Event(w)}
      BY <1>1, ElementsOfShort
<1>3. b \in Seq(S) /\ Elements(b) \subseteq {Ack}
      BY <1>1, ElementsOfShort
<1> HIDE DEF a, b
<1>4. PICK t \in Seq(S) : t = a \o b /\ Joined(a, b, t)
      BY <1>2, <1>3, ConcatIsJoined
<1>5. Elements(t) \subseteq {Event(w), Ack}
      BY <1>2, <1>3, <1>4 DEF Joined
<1>6. Event(w).kind = "event" /\ Ack.kind = "ack"
      BY DEF Event, Ack
<1>7. t = Notices(e, d, w)
      BY <1>4 DEF a, b, Notices
<1>8. QED
      BY <1>5, <1>6, <1>7

LEMMA EventArrives ==
    ASSUME NEW k, NEW now, NEW a, NEW b, NEW c, NEW e, NEW r, NEW x, x.kind = "event",
           NEW m, LastOn(e, x, m)
    PROVE  Moves(k, now, a, b, c, e, r, a, b, c, m, r)
<1>1. Hold(x) = {} /\ Elements(m) = Elements(e) \cup {x} /\ Claims(m) = Claims(e) \cup Hold(x)
      BY KindsHold, LastOnFacts DEF LastOn
<1>2. Sole(e) => Sole(m)
      BY <1>1 DEF LastOn
<1>3. ASSUME Neat(a, b, c, e, r)
      PROVE  Neat(a, b, c, m, r) /\ Work(a, b, c, m, r) \subseteq Work(a, b, c, e, r)
      BY <1>1, <1>2, <1>3 DEF Neat, Tidy, Work, Claimed
<1>4. ASSUME Sound(k, now, a, b, c, e, r)
      PROVE  Sound(k, now, a, b, c, m, r)
  <2>1. RepliesRight(k, m) /\ TagsTimely(k, now, m)
        BY <1>1, <1>4 DEF Sound, RepliesRight, TagsTimely
  <2>2. QED
        BY <1>4, <2>1 DEF Sound
<1>5. QED
      BY <1>3, <1>4 DEF Moves

\* What blocks rely on.
LEMMA HoldsAreKept ==
    ASSUME NEW t
    PROVE  Holds(t) \subseteq Ledgered /\ Sure(t) \subseteq Kept
BY DEF Holds, Sure, Kept, Ledgered

LEMMA ServeWriteTurns ==
    ASSUME NEW G, NEW B, DatabaseInv(G, B), NEW d \in Device, TurnInv,
           ServeWrite(d), UNCHANGED <<ledger, today>>
    PROVE  TurnInv'
<1>1. PICK h : h = Head(wire[d])
      OBVIOUS
<1>2. /\ h.kind = "put" /\ wire[d] # <<>> /\ wire' = [wire EXCEPT ![d] = Tail(@)]
      /\ record' = Overlay(record, h.write)
      /\ inbox' = [e \in Device |-> inbox[e] \o Notices(e, d, h.write)]
      /\ UNCHANGED <<todo, pending, held, up>>
      BY <1>1 DEF ServeWrite, Reachable, linkVars
<1>3. h \in Call(G, B[d]) /\ h.write \in Write(G)
      BY <1>1, <1>2, RequestIsCall, CallKinds DEF ServeWrite
<1>4. PICK t : t = Tail(wire[d]) /\ FirstOff(wire[d], h, t)
  <2>1. wire[d] \in Seq(Call(G, B[d]))
        BY DEF DatabaseInv
  <2>2. QED
        BY <1>1, <1>2, <2>1, TailIsFirstOff
<1>5. /\ wire'[d] = t /\ \A f \in Device \ {d} : wire'[f] = wire[f]
      /\ \A f \in Device : todo'[f] = todo[f] /\ held'[f] = held[f] /\ up'[f] = up[f]
      BY <1>2, <1>4 DEF DatabaseInv
<1>6. ASSUME NEW f \in Device
      PROVE  /\ up'[f] /\ DeviceNeat(f)' /\ DeviceSound(f)' /\ Busy(f)' \subseteq Busy(f)
             /\ Unserved(f)' = IF f = d THEN Covers(todo[d]) \cup Covers(t) ELSE Unserved(f)
  <2> DEFINE M == Message(G, B[f])
  <2>1. inbox[f] \in Seq(M) /\ Event(h.write) \in M /\ Ack \in M
        BY <1>3 DEF DatabaseInv, Message
  <2> HIDE DEF M
  <2>2. PICK g \in Seq(M) : /\ g = Notices(f, d, h.write)
                            /\ \A x \in Elements(g) : x.kind \notin {"get", "reply"}
        BY <2>1, NoticesAreInert
  <2>3. PICK m \in Seq(M) : m = inbox[f] \o g /\ Joined(inbox[f], g, m)
        BY <2>1, ConcatIsJoined
  <2>4. inbox'[f] = m
        BY <1>2, <2>2, <2>3
  <2>5. PICK w : w = wire'[f]
        OBVIOUS
  <2>6. Moves(ledger, today, todo[f], wire[f], held[f], inbox[f], Resends(f),
              todo[f], w, held[f], inbox[f], Resends(f))
    <3>1. CASE f = d
          BY <1>4, <1>5, <2>5, <3>1, RequestIsServed
    <3>2. CASE f # d
          BY <1>5, <2>5, <3>2 DEF Moves
    <3>3. QED
          BY <3>1, <3>2
  <2>7. Moves(ledger, today, todo[f], w, held[f], inbox[f], Resends(f),
              todo[f], w, held[f], m, Resends(f))
        BY <2>2, <2>3, NoticesArrive
  <2>8. up[f] /\ DeviceNeat(f) /\ DeviceSound(f)
        BY DEF TurnInv
  <2>9. Resends(f)' = Resends(f)
        BY <1>2 DEF Resends
  <2>10. /\ Neat(todo[f], w, held[f], m, Resends(f))
         /\ Sound(ledger, today, todo[f], w, held[f], m, Resends(f))
         /\ Work(todo[f], w, held[f], m, Resends(f)) \subseteq Busy(f)
         BY <2>6, <2>7, <2>8 DEF Moves, DeviceNeat, DeviceSound, Busy
  <2>11. DeviceNeat(f)' /\ DeviceSound(f)' /\ Busy(f)' \subseteq Busy(f)
         BY <1>5, <2>4, <2>5, <2>9, <2>10 DEF DeviceNeat, DeviceSound, Busy
  <2>12. Unserved(f)' = IF f = d THEN Covers(todo[d]) \cup Covers(t) ELSE Unserved(f)
         BY <1>5 DEF Unserved
  <2>13. QED
         BY <1>5, <2>8, <2>11, <2>12
<1>7. Turns' /\ Counted'
      BY <1>6, TurnsStay DEF TurnInv, Counted
<1>8. ASSUME NEW l \in Kept, \A f \in Device : l \notin Unserved(f)'
      PROVE  Right(ledger, l, record'[l])
  <2>1. l \in Leaf /\ DOMAIN record = Leaf
        BY LeavesAreLeaves DEF Kept, Ledgered, DatabaseInv, Patch
  <2>2. record'[l] = IF l \in DOMAIN h.write THEN h.write[l] ELSE record[l]
        BY <1>2, <2>1 DEF Overlay
  <2>3. l \notin Covers(todo[d]) /\ l \notin Covers(t)
        BY <1>6, <1>8
  <2>4. Cover(h) = DOMAIN h.write /\ Covers(wire[d]) = Covers(t) \cup Cover(h)
        BY <1>2, <1>4, KindsHold, FirstOffFacts
  <2>5. CASE l \in DOMAIN h.write
    <3>1. h \in Latest(wire[d], l)
          BY <1>4, <2>3, <2>4, <2>5 DEF FirstOff
    <3>2. SentRight(ledger, wire[d], todo[d])
          BY DEF TurnInv, DeviceSound, Sound
    <3>3. QED
          BY <2>2, <2>3, <2>5, <3>1, <3>2 DEF SentRight
  <2>6. CASE l \notin DOMAIN h.write
    <3>1. \A f \in Device : l \notin Unserved(f)
          BY <1>6, <1>8, <2>3, <2>4, <2>6 DEF Unserved
    <3>2. QED
          BY <2>2, <2>6, <3>1 DEF TurnInv, RecordRight
  <2>7. QED
        BY <2>5, <2>6
<1>9. RecordRight'
      BY <1>8 DEF RecordRight
<1>10. QED
       BY <1>6, <1>7, <1>9 DEF TurnInv

LEMMA ServeGetTurns ==
    ASSUME NEW G, NEW B, DatabaseInv(G, B), NEW d \in Device, TurnInv,
           ServeGet(d), UNCHANGED <<ledger, today>>
    PROVE  TurnInv'
<1> DEFINE C == Call(G, B[d])
           M == Message(G, B[d])
<1>1. PICK h : h = Head(wire[d])
      OBVIOUS
<1>2. PICK x : x = Reply(h.then, [l \in h.leaves |-> record[l]])
      OBVIOUS
<1>3. up[d] /\ DeviceNeat(d) /\ DeviceSound(d)
      BY DEF TurnInv
<1>4. /\ h.kind = "get" /\ wire[d] # <<>> /\ wire' = [wire EXCEPT ![d] = Tail(@)]
      /\ inbox' = [inbox EXCEPT ![d] = Append(@, x)]
      /\ UNCHANGED <<record, todo, pending, held, up>>
      BY <1>1, <1>2, <1>3 DEF ServeGet, Reachable, linkVars
<1>5. wire[d] \in Seq(C) /\ inbox[d] \in Seq(M)
      BY DEF DatabaseInv
<1>6. x.kind = "reply" /\ x.then = h.then /\ x.snap = [l \in h.leaves |-> record[l]]
      BY <1>2 DEF Reply
<1> HIDE DEF C, M
<1>7. PICK t \in Seq(C) : t = Tail(wire[d]) /\ FirstOff(wire[d], h, t)
      BY <1>1, <1>4, <1>5, TailIsFirstOff
<1>8. PICK m \in Seq(M \cup {x}) : m = Append(inbox[d], x) /\ LastOn(inbox[d], x, m)
  <2>1. inbox[d] \in Seq(M \cup {x})
        BY <1>5
  <2>2. QED
        BY <2>1, AppendIsLastOn
<1>9. /\ todo'[d] = todo[d] /\ wire'[d] = t /\ held'[d] = held[d] /\ inbox'[d] = m
      /\ up'[d] = up[d] /\ pending'[d] = pending[d]
      BY <1>4, <1>7, <1>8 DEF DatabaseInv
<1>10. Given(ledger, x)
  <2> SUFFICES ASSUME NEW l \in Sure(h.then), l \in h.leaves
               PROVE  Right(ledger, l, record[l])
      BY <1>6 DEF Given
  <2>1. /\ Hold(h) = Holds(h.then) /\ Cover(h) = {} /\ Hold(h) \subseteq Claims(wire[d])
        /\ Covers(wire[d]) = Covers(t)
    <3>1. Hold(h) = Holds(h.then) /\ Cover(h) = {}
          BY <1>4 DEF Hold, Cover
    <3>2. Claims(wire[d]) = Claims(t) \cup Hold(h) /\ Covers(wire[d]) = Covers(t) \cup Cover(h)
          BY <1>7, FirstOffFacts
    <3>3. QED
          BY <3>1, <3>2
  <2>2. /\ Claims(wire[d]) \cap Covers(todo[d]) = {} /\ Hold(h) \cap Covers(t) = {}
        BY <1>3, <1>7 DEF DeviceNeat, Neat, Tidy, FirstOff
  <2>3. CASE l \in Holds(h.then)
    <3>1. l \notin Unserved(d) /\ Busy(d) # {}
      <4>1. l \in Claims(wire[d]) /\ l \notin Covers(todo[d]) /\ l \notin Covers(wire[d])
            BY <2>1, <2>2, <2>3
      <4>2. QED
            BY <4>1 DEF Unserved, Busy, Work, Claimed
    <3>2. \A f \in Device \ {d} : Busy(f) = {}
          BY <3>1 DEF TurnInv, Turns
    <3>3. \A f \in Device : l \notin Unserved(f)
          BY <3>1, <3>2 DEF Unserved, Busy, Work, Written
    <3>4. PICK u : u = h.then
          OBVIOUS
    <3>5. Holds(u) \subseteq Kept
          BY HoldsAreKept DEF Sure, Kept
    <3>6. RecordRight /\ l \in Kept
          BY <2>3, <3>4, <3>5 DEF TurnInv
    <3>7. QED
          BY <3>3, <3>6 DEF RecordRight
  <2>4. CASE l = DisplayName
    <3>1. \A f \in Device : DeviceNeat(f)
          BY DEF TurnInv
    <3>2. \A f \in Device : l \notin Unserved(f)
          BY <2>4, <3>1 DEF DeviceNeat, Neat, Unserved, Written
    <3>3. RecordRight /\ l \in Kept
          BY <2>4 DEF TurnInv, Kept
    <3>4. QED
          BY <3>2, <3>3 DEF RecordRight
  <2>5. QED
        BY <2>3, <2>4 DEF Sure
<1>11. Moves(ledger, today, todo[d], wire[d], held[d], inbox[d], Resends(d),
             todo[d], t, held[d], m, Resends(d))
       BY <1>4, <1>6, <1>7, <1>8, <1>10, GetIsServed
<1>12. Unserved(d) \subseteq Covers(todo[d]) \cup Covers(t)
  <2>1. Cover(h) = {} /\ Covers(wire[d]) = Covers(t) \cup Cover(h)
        BY <1>4, <1>7, KindsHold, FirstOffFacts
  <2>2. QED
        BY <2>1 DEF Unserved
<1>13. Aside(d) /\ UNCHANGED record
       BY <1>4 DEF Aside, Unmoved, DatabaseInv
<1>14. QED
       BY <1>9, <1>11, <1>12, <1>13, SameResends, OneMovesOn DEF Aside

LEMMA ServeListenTurns ==
    ASSUME NEW G, NEW B, DatabaseInv(G, B), NEW d \in Device, TurnInv,
           ServeListen(d), UNCHANGED <<ledger, today>>
    PROVE  TurnInv'
<1> DEFINE C == Call(G, B[d])
           M == Message(G, B[d])
<1>1. PICK h : h = Head(wire[d])
      OBVIOUS
<1>2. PICK x : x = Event(record)
      OBVIOUS
<1>3. /\ h.kind = "listen" /\ wire[d] # <<>> /\ wire' = [wire EXCEPT ![d] = Tail(@)]
      /\ inbox' = [inbox EXCEPT ![d] = Append(@, x)]
      /\ UNCHANGED <<record, todo, pending, held, up>>
      BY <1>1, <1>2 DEF ServeListen, Reachable, TurnInv
<1>4. wire[d] \in Seq(C) /\ inbox[d] \in Seq(M)
      BY DEF DatabaseInv
<1>5. x.kind = "event"
      BY <1>2 DEF Event
<1> HIDE DEF C, M
<1>6. PICK t \in Seq(C) : t = Tail(wire[d]) /\ FirstOff(wire[d], h, t)
      BY <1>1, <1>3, <1>4, TailIsFirstOff
<1>7. PICK m \in Seq(M \cup {x}) : m = Append(inbox[d], x) /\ LastOn(inbox[d], x, m)
  <2>1. inbox[d] \in Seq(M \cup {x})
        BY <1>4
  <2>2. QED
        BY <2>1, AppendIsLastOn
<1>8. /\ todo'[d] = todo[d] /\ wire'[d] = t /\ held'[d] = held[d] /\ inbox'[d] = m
      /\ up'[d] = up[d] /\ pending'[d] = pending[d]
      BY <1>3, <1>6, <1>7 DEF DatabaseInv
<1>9. Moves(ledger, today, todo[d], wire[d], held[d], inbox[d], Resends(d),
            todo[d], t, held[d], m, Resends(d))
  <2>1. Moves(ledger, today, todo[d], wire[d], held[d], inbox[d], Resends(d),
              todo[d], t, held[d], inbox[d], Resends(d))
        BY <1>6, RequestIsServed
  <2>2. Moves(ledger, today, todo[d], t, held[d], inbox[d], Resends(d),
              todo[d], t, held[d], m, Resends(d))
        BY <1>5, <1>7, EventArrives
  <2>3. QED
        BY <2>1, <2>2 DEF Moves
<1>10. Unserved(d) \subseteq Covers(todo[d]) \cup Covers(t)
  <2>1. Cover(h) = {} /\ Covers(wire[d]) = Covers(t) \cup Cover(h)
        BY <1>3, <1>6, KindsHold, FirstOffFacts
  <2>2. QED
        BY <2>1 DEF Unserved
<1>11. Aside(d) /\ UNCHANGED record
       BY <1>3 DEF Aside, Unmoved, DatabaseInv
<1>12. QED
       BY <1>8, <1>9, <1>10, <1>11, SameResends, OneMovesOn DEF Aside

\* A leaf of a write that waits is covered by what would be sent again.
LEMMA PendingIsResent ==
    ASSUME NEW d \in Device, NEW j \in DOMAIN pending[d], NEW S, pending[d] \in Seq(S)
    PROVE  DOMAIN pending[d][j] \subseteq Covers(Resends(d))
<1>1. PICK r : r = Resends(d)
      OBVIOUS
<1>2. j \in DOMAIN r /\ r[j] = SetValue(pending[d][j])
      BY <1>1, LenProperties DEF Resends
<1>3. r[j] \in Elements(r) /\ Cover(r[j]) = DOMAIN pending[d][j]
      BY <1>2 DEF Elements, Cover, SetValue
<1>4. QED
      BY <1>1, <1>3, ClaimsOf

\* What is on the wire is pending, and not acknowledged.
LEMMA SentIsPending ==
    ASSUME NEW G, NEW B, DatabaseInv(G, B), QueueInv, NEW d \in Device, up[d],
           NEW l \in Covers(wire[d])
    PROVE  \E j \in DOMAIN pending[d] : j > Acks(inbox[d]) /\ l \in DOMAIN pending[d][j]
<1>1. PICK w : w = wire[d]
      OBVIOUS
<1>2. PICK p : p = pending[d]
      OBVIOUS
<1>3. PICK n : n = Acks(inbox[d])
      OBVIOUS
<1>4. /\ w \in Seq(Call(G, B[d])) /\ inbox[d] \in Seq(Message(G, B[d]))
      /\ p \in Seq(Write(G)) /\ Len(p) \in Nat /\ DOMAIN p = 1..Len(p)
      BY <1>1, <1>2, LenProperties DEF DatabaseInv
<1>5. n \in Nat
      BY <1>3, <1>4, CallsAreCounted DEF Acks
<1>6. UnderWay(w, p, n)
      BY <1>1, <1>2, <1>3 DEF QueueInv, QueueOf
<1>7. PICK i \in DOMAIN w : l \in Cover(w[i])
      BY <1>1 DEF Covers, Elements
<1>8. w[i].kind = "put" /\ l \in DOMAIN w[i].write
      BY <1>7 DEF Cover
<1>9. i \in Calls(w, "put")
      BY <1>7, <1>8 DEF Calls
<1>10. PICK k : k = Cardinality(Upto(w, "put", i))
       OBVIOUS
<1>11. k \in 1..Cardinality(Calls(w, "put")) /\ Cardinality(Calls(w, "put")) \in Nat
       BY <1>4, <1>9, <1>10, CallsAreCounted
<1>12. Cardinality(Calls(w, "put")) = Len(p) - n /\ w[i].write = p[n + k]
       BY <1>6, <1>9, <1>10 DEF UnderWay
<1>13. PICK j : j = n + k
       OBVIOUS
<1>14. j \in 1..Len(p) /\ j > n /\ w[i].write = p[j]
       BY <1>4, <1>5, <1>11, <1>12, <1>13
<1>15. QED
       BY <1>2, <1>3, <1>4, <1>8, <1>14

\* So it is what a connection would send again, or some of it.
LEMMA SentIsResent ==
    ASSUME NEW G, NEW B, DatabaseInv(G, B), QueueInv, NEW d \in Device, up[d]
    PROVE  Covers(wire[d]) \subseteq Covers(Resends(d))
<1>1. pending[d] \in Seq(Write(G))
      BY DEF DatabaseInv
<1>2. ASSUME NEW l \in Covers(wire[d])
      PROVE  l \in Covers(Resends(d))
  <2>1. PICK j \in DOMAIN pending[d] : l \in DOMAIN pending[d][j]
        BY <1>2, SentIsPending
  <2>2. DOMAIN pending[d][j] \subseteq Covers(Resends(d))
        BY <1>1, PendingIsResent
  <2>3. QED
        BY <2>1, <2>2
<1>3. QED
      BY <1>2

LEMMA DisconnectTurns ==
    ASSUME NEW G, NEW B, DatabaseInv(G, B), QueueInv, NEW d \in Device, TurnInv,
           Disconnect(d), UNCHANGED <<ledger, today>>
    PROVE  TurnInv'
<1>1. PICK r : r = Resends(d)
      OBVIOUS
<1>2. /\ todo'[d] = todo[d] /\ wire'[d] = r /\ pending'[d] = pending[d]
      /\ held'[d] = held[d] /\ inbox'[d] = <<>> /\ up'[d] = up[d]
      BY <1>1 DEF Disconnect, DatabaseInv
<1>3. \A x \in Elements(r) : x.kind = "put"
      BY <1>1, ResendsAreCalls
<1>4. Moves(ledger, today, todo[d], wire[d], held[d], inbox[d], Resends(d),
            todo[d], r, held[d], <<>>, Resends(d))
      BY <1>1, <1>3, ConnectionIsLost
<1>5. Unserved(d) \subseteq Covers(todo[d]) \cup Covers(r)
      BY <1>1, SentIsResent DEF Unserved, Disconnect
<1>6. Aside(d) /\ UNCHANGED record
      BY DEF Disconnect, Aside, Unmoved, DatabaseInv
<1>7. QED
      BY <1>2, <1>4, <1>5, <1>6, SameResends, OneMovesOn DEF Aside

LEMMA ReconnectTurns ==
    ASSUME NEW G, NEW B, DatabaseInv(G, B), QueueInv, NEW d \in Device, TurnInv,
           Reconnect(d), UNCHANGED <<ledger, today>>
    PROVE  TurnInv'
<1> DEFINE C == Call(G, B[d])
<1>1. /\ wire[d] \in Seq(C) /\ held[d] \in Seq(C) /\ Observe \in C
      BY ObserveIsCall DEF DatabaseInv
<1> HIDE DEF C
<1>2. PICK o \in Seq(C) : /\ o = IF listens[d] THEN <<Observe>> ELSE <<>>
                          /\ \A x \in Elements(o) : x.kind = "listen"
  <2>1. <<Observe>> \in Seq(C) /\ <<>> \in Seq(C)
        BY <1>1
  <2>2. PICK o : o = IF listens[d] THEN <<Observe>> ELSE <<>>
        OBVIOUS
  <2>3. o \in Seq(C) /\ Elements(o) \subseteq {Observe}
    <3>1. CASE listens[d]
          BY <2>1, <2>2, <3>1, ElementsOfShort
    <3>2. CASE ~listens[d]
          BY <2>1, <2>2, <3>2, ElementsOfShort
    <3>3. QED
          BY <3>1, <3>2
  <2>4. Observe.kind = "listen"
        BY DEF Observe
  <2>5. QED
        BY <2>2, <2>3, <2>4
<1>3. PICK w \in Seq(C) : w = o \o wire[d] /\ Joined(o, wire[d], w)
      BY <1>1, ConcatIsJoined
<1>4. PICK v \in Seq(C) : v = w \o held[d] /\ Joined(w, held[d], v)
      BY <1>1, ConcatIsJoined
<1>5. /\ todo'[d] = todo[d] /\ wire'[d] = v /\ pending'[d] = pending[d]
      /\ held'[d] = <<>> /\ inbox'[d] = inbox[d] /\ up'[d] = up[d]
      BY <1>2, <1>3, <1>4 DEF Reconnect, DatabaseInv
<1>6. \A x \in Elements(held[d]) : x.kind = "get"
      BY DEF QueueInv, QueueOf, Elements
<1>7. Moves(ledger, today, todo[d], wire[d], held[d], inbox[d], Resends(d),
            todo[d], w, held[d], inbox[d], Resends(d))
      BY <1>2, <1>3, ListenGoesFirst
<1>8. Moves(ledger, today, todo[d], w, held[d], inbox[d], Resends(d),
            todo[d], v, <<>>, inbox[d], Resends(d))
      BY <1>4, <1>6, GetsGoLast
<1>9. Moves(ledger, today, todo[d], wire[d], held[d], inbox[d], Resends(d),
            todo[d], v, <<>>, inbox[d], Resends(d))
      BY <1>7, <1>8 DEF Moves
<1>10. Unserved(d) \subseteq Covers(todo[d]) \cup Covers(v)
  <2>1. Covers(w) = Covers(o) \cup Covers(wire[d]) /\ Covers(v) = Covers(w) \cup Covers(held[d])
        BY <1>3, <1>4, JoinedFacts
  <2>2. QED
        BY <2>1 DEF Unserved
<1>11. Aside(d) /\ UNCHANGED record
       BY DEF Reconnect, Aside, Unmoved, DatabaseInv
<1>12. QED
       BY <1>5, <1>9, <1>10, <1>11, SameResends, OneMovesOn DEF Aside

\* What the client, the server and the network do.
LEMMA EnvironmentTurns ==
    ASSUME NEW G, NEW B, DatabaseInv(G, B), QueueInv, NEW d \in Device, TurnInv,
           \/ ClientStep(d) \/ ServerStep(d) \/ Disconnect(d) \/ Reconnect(d)
           \/ ReceiveEvent(d),
           UNCHANGED <<ledger, today>>
    PROVE  TurnInv'
<1>1. CASE ClientStep(d) \/ ReceiveEvent(d)
      BY <1>1, ExecuteWriteTurns, ExecuteGetTurns, HoldGetTurns, ExecuteListenTurns,
         TimeOutTurns, ReceiveTurns DEF ClientStep
<1>2. CASE ServerStep(d)
      BY <1>2, ServeWriteTurns, ServeGetTurns, ServeListenTurns DEF ServerStep
<1>3. QED
      BY <1>1, <1>2, DisconnectTurns, ReconnectTurns

-----------------------------------------------------------------------------
(* What a block is given.                                                  *)

\* A set of numbers has a least one.
LEMMA LeastOfNaturals ==
    ASSUME NEW S \in SUBSET Nat, S # {}
    PROVE  \E n \in S : \A m \in S : n <= m
<1>1. PICK R : R = OpToRel(<, Nat)
      OBVIOUS
<1>2. IsWellFoundedOn(R, Nat)
      BY <1>1, NatLessThanWellFounded
<1>3. IsWellFoundedOn(R, S)
      BY <1>2, IsWellFoundedOnSubset
<1>4. PICK n \in S : \A m \in S : ~(<<m, n>> \in R)
      BY <1>3, WFMin
<1>5. \A m, k \in Nat : m < k => <<m, k>> \in R
      BY <1>1 DEF OpToRel
<1>6. \A m \in S : m \in Nat /\ n \in Nat /\ ~(m < n)
      BY <1>4, <1>5
<1>7. \A m \in S : n <= m
      BY <1>6
<1>8. QED
      BY <1>7

\* So a leaf that is written at all has a newest write.
LEMMA ThereIsALatest ==
    ASSUME NEW S, NEW s \in Seq(S), NEW l \in Covers(s)
    PROVE  Latest(s, l) # {}
<1>1. PICK n \in Nat : n = Len(s)
      BY LenProperties
<1>2. DOMAIN s = 1..n
      BY <1>1, LenProperties
<1>3. PICK T : T = {k \in Nat : k < n /\ l \in Cover(s[n - k])}
      OBVIOUS
<1>4. T # {}
  <2>1. PICK i \in 1..n : l \in Cover(s[i])
        BY <1>2 DEF Covers, Elements
  <2>2. n - i \in Nat /\ n - i < n /\ n - (n - i) = i
        BY <2>1
  <2>3. n - i \in T
        BY <1>3, <2>1, <2>2
  <2>4. QED
        BY <2>3
<1>5. PICK k \in T : \A m \in T : k <= m
      BY <1>3, <1>4, LeastOfNaturals
<1>6. PICK i : i = n - k
      OBVIOUS
<1>7. i \in 1..n /\ l \in Cover(s[i]) /\ k \in Nat
      BY <1>3, <1>5, <1>6
<1>8. ASSUME NEW j \in 1..n, j > i
      PROVE  l \notin Cover(s[j])
  <2>1. n - j \in Nat /\ n - j < n /\ n - (n - j) = j /\ ~(k <= n - j)
        BY <1>6, <1>7, <1>8
  <2>2. n - j \notin T
        BY <1>5, <2>1
  <2>3. QED
        BY <1>3, <2>1, <2>2
<1>9. LatestAt(s, i, l)
      BY <1>2, <1>7, <1>8 DEF LatestAt
<1>10. QED
       BY <1>2, <1>7, <1>9 DEF Latest

\* What the listener has seen is right where nothing is to be written.
CacheGood(d) ==
    cache[d] # Absent =>
        \A l \in Kept \ (Covers(todo[d]) \cup Covers(Resends(d))) : Right(ledger, l, cache[d][l])

\* A step of device d may begin with queues t and e, and write the leaves in H.
Taken(d, t, e, H) ==
    /\ Neat(t, wire[d], held[d], e, Resends(d))
    /\ Sound(ledger, today, t, wire[d], held[d], e, Resends(d))
    /\ Work(t, wire[d], held[d], e, Resends(d)) \subseteq Busy(d)
    /\ Elements(t) \subseteq Elements(todo[d]) /\ Covers(t) = Covers(todo[d])
    /\ H \cap (Claimed(t, wire[d], held[d], e) \cup Covers(t)) = {}
    /\ H # {} => \A f \in Device \ {d} : Busy(f) = {}

\* The newest write the client holds for a leaf is the one it shows.
LEMMA LocalIsRight ==
    ASSUME NEW G, NEW B, DatabaseInv(G, B), NEW d \in Device, TurnInv, CacheGood(d),
           NEW S, ReadsLocally(d, S),
           NEW l \in Kept \cap Leaf, l \in S, l \notin Covers(todo[d])
    PROVE  Right(ledger, l, LocalView(d)[l])
<1>1. PICK p : p = pending[d]
      OBVIOUS
<1>2. PICK r : r = Resends(d)
      OBVIOUS
<1>3. /\ p \in Seq(Write(G)) /\ DOMAIN p = 1..Len(p)
      /\ r \in Seq(Call(G, B[d])) /\ DOMAIN r = DOMAIN p
      BY <1>1, <1>2, ResendsAreCalls, LenProperties DEF DatabaseInv, Resends
<1>4. ASSUME NEW i \in DOMAIN p
      PROVE  r[i].write = p[i] /\ Cover(r[i]) = DOMAIN p[i]
  <2>1. r[i] = SetValue(p[i])
        BY <1>1, <1>2, <1>3 DEF Resends
  <2>2. QED
        BY <2>1 DEF SetValue, Cover
<1>5. \A i \in DOMAIN p : Newest(p, i, l) <=> LatestAt(r, i, l)
      BY <1>3, <1>4 DEF Newest, LatestAt
<1>6. CASE \E i \in DOMAIN p : Newest(p, i, l)
  <2>1. PICK i : i = CHOOSE j \in DOMAIN p : Newest(p, j, l)
        OBVIOUS
  <2>2. i \in DOMAIN p /\ Newest(p, i, l)
        BY <1>6, <2>1
  <2>3. LocalView(d)[l] = p[i][l]
        BY <1>1, <1>6, <2>1 DEF LocalView, View
  <2>4. r[i] \in Latest(r, l)
        BY <1>3, <1>5, <2>2 DEF Latest
  <2>5. SentRight(ledger, r, todo[d])
        BY <1>2 DEF TurnInv, DeviceSound, Sound
  <2>6. Right(ledger, l, r[i].write[l])
        BY <2>4, <2>5 DEF SentRight
  <2>7. QED
        BY <1>4, <2>2, <2>3, <2>6
<1>7. CASE ~ \E i \in DOMAIN p : Newest(p, i, l)
  <2>1. LocalView(d)[l] = Row(d)[l]
        BY <1>1, <1>7 DEF LocalView, View
  <2>2. Latest(r, l) = {}
        BY <1>3, <1>5, <1>7 DEF Latest
  <2>3. l \notin Covers(r)
        BY <1>3, <2>2, ThereIsALatest
  <2>4. \A i \in DOMAIN p : l \notin DOMAIN p[i]
    <3>1. \A i \in DOMAIN p : l \notin Cover(r[i])
          BY <1>3, <2>3, ClaimsOf
    <3>2. QED
          BY <1>4, <3>1
  <2>5. Exists(Row(d))
        BY <1>1, <2>4 DEF ReadsLocally
  <2>6. cache[d] # Absent
        BY <2>5 DEF Exists, Row, Nothing
  <2>7. Right(ledger, l, cache[d][l])
        BY <1>2, <2>3, <2>6 DEF CacheGood
  <2>8. QED
        BY <2>1, <2>6, <2>7 DEF Row
<1>8. QED
      BY <1>6, <1>7

\* What a block finds: the queues without its answer, nobody else at its leaves,
\* and the numbers of the ledger.
LEMMA AnswerTaken ==
    ASSUME NEW alone, Inv(alone), NEW d \in Device, TurnInv, CacheGood(d), NEW a \in Answers(d)
    PROVE  /\ Taken(d, a.todo, a.inbox, Holds(a.then)) /\ Holds(a.then) \subseteq Busy(d)
           /\ Given(ledger, a) /\ Timely(ledger, today, a.then)
<1>1. PICK G : G = Known(alone, ledger)
      OBVIOUS
<1>2. PICK B : B = Blocks
      OBVIOUS
<1>3. DatabaseInv(G, B) /\ Asks(B) /\ Allows(G)
      BY <1>1, <1>2, KnownAllows, BlocksAsk DEF Inv, WalletInv
<1> DEFINE C == Call(G, B[d])
           M == Message(G, B[d])
<1>4. todo[d] \in Seq(C) /\ inbox[d] \in Seq(M)
      BY <1>3 DEF DatabaseInv
<1>5. \A t \in Tag : Holds(t) \subseteq Ledgered /\ Sure(t) \subseteq Kept
      BY HoldsAreKept
<1>6. DeviceNeat(d) /\ DeviceSound(d)
      BY DEF TurnInv
<1> HIDE DEF C, M
<1>7. ASSUME NEW t, NEW e, NEW H, H \subseteq Busy(d), Covers(t) = Covers(todo[d]),
             Elements(t) \subseteq Elements(todo[d]),
             Moves(ledger, today, todo[d], wire[d], held[d], inbox[d], Resends(d),
                   t, wire[d], held[d], e, Resends(d)),
             H \cap (Claimed(t, wire[d], held[d], e) \cup Covers(t)) = {}
      PROVE  Taken(d, t, e, H)
  <2>1. /\ Neat(t, wire[d], held[d], e, Resends(d))
        /\ Sound(ledger, today, t, wire[d], held[d], e, Resends(d))
        /\ Work(t, wire[d], held[d], e, Resends(d)) \subseteq Busy(d)
        BY <1>6, <1>7 DEF Moves, DeviceNeat, DeviceSound, Busy
  <2>2. H # {} => \A f \in Device \ {d} : Busy(f) = {}
        BY <1>7 DEF TurnInv, Turns
  <2>3. QED
        BY <1>7, <2>1, <2>2 DEF Taken
<1>8. ASSUME NEW h \in First(todo[d]), h.kind = "get", ReadsLocally(d, h.leaves),
             a.then = h.then, a.snap = [l \in h.leaves |-> LocalView(d)[l]],
             a.todo = Tail(todo[d]), a.inbox = inbox[d]
      PROVE  /\ Taken(d, a.todo, a.inbox, Holds(a.then)) /\ Holds(a.then) \subseteq Busy(d)
             /\ Given(ledger, a) /\ Timely(ledger, today, a.then)
  <2>1. todo[d] # <<>> /\ h = Head(todo[d])
        BY <1>8 DEF First
  <2>2. PICK t \in Seq(C) : t = Tail(todo[d]) /\ FirstOff(todo[d], h, t)
        BY <1>4, <2>1, TailIsFirstOff
  <2>3. PICK u : u = h.then
        OBVIOUS
  <2>4. Hold(h) = Holds(u) /\ h.kind # "put"
        BY <1>8, <2>3 DEF Hold
  <2>5. /\ Moves(ledger, today, todo[d], wire[d], held[d], inbox[d], Resends(d),
                 t, wire[d], held[d], inbox[d], Resends(d))
        /\ Covers(t) = Covers(todo[d])
        /\ Holds(u) \cap (Claimed(t, wire[d], held[d], inbox[d]) \cup Covers(todo[d])) = {}
    <3>1. /\ Moves(ledger, today, todo[d], wire[d], held[d], inbox[d], Resends(d),
                   t, wire[d], held[d], inbox[d], Resends(d))
          /\ Covers(t) = Covers(todo[d])
          /\ Neat(todo[d], wire[d], held[d], inbox[d], Resends(d)) =>
               Hold(h) \cap (Claimed(t, wire[d], held[d], inbox[d]) \cup Covers(todo[d])) = {}
          BY <2>2, <2>4, CallIsTaken
    <3>2. QED
          BY <1>6, <2>4, <3>1 DEF DeviceNeat
  <2>6. h \in Elements(todo[d]) /\ Holds(u) \subseteq Claims(todo[d])
        BY <2>2, <2>4, FirstOffFacts
  <2>7. Holds(u) \subseteq Busy(d)
        BY <2>6 DEF Busy, Work, Claimed
  <2>8. Timely(ledger, today, u)
        BY <1>6, <1>8, <2>3, <2>6 DEF DeviceSound, Sound, TagsTimely
  <2>9. h \in Call(G, B[d]) /\ u \in DOMAIN B[d] /\ h.leaves = B[d][u]
    <3>1. h \in Call(G, B[d])
          BY <1>3, <1>8, FirstCall
    <3>2. QED
          BY <1>8, <2>3, <3>1, CallKinds
  <2>10. h.leaves \subseteq Leaf
         BY <1>3, <2>9 DEF Asks
  <2>11. ASSUME NEW l \in Sure(u), l \in h.leaves
         PROVE  Right(ledger, l, LocalView(d)[l])
    <3>1. l \in Kept \cap Leaf
          BY <2>10, <2>11, HoldsAreKept
    <3>2. l \notin Covers(todo[d])
          BY <1>6, <2>5, <2>11 DEF Sure, DeviceNeat, Neat, Written
    <3>3. QED
          BY <1>3, <1>8, <2>11, <3>1, <3>2, LocalIsRight
  <2>12. Given(ledger, a)
    <3>1. ASSUME NEW l \in Sure(a.then) \cap DOMAIN a.snap
          PROVE  Right(ledger, l, a.snap[l])
      <4>1. l \in Sure(u) /\ l \in h.leaves
            BY <1>8, <2>3, <3>1
      <4>2. a.snap[l] = LocalView(d)[l]
            BY <1>8, <4>1
      <4>3. QED
            BY <2>11, <4>1, <4>2
    <3>2. QED
          BY <3>1 DEF Given
  <2>13. Taken(d, t, inbox[d], Holds(u))
    <3>1. Elements(t) \subseteq Elements(todo[d])
          BY <2>2 DEF FirstOff
    <3>2. QED
          BY <1>7, <2>5, <2>7, <3>1
  <2>14. QED
         BY <1>8, <2>2, <2>3, <2>7, <2>8, <2>12, <2>13
<1>9. ASSUME NEW h \in First(inbox[d]), h.kind = "reply",
             a.then = h.then, a.snap = h.snap, a.todo = todo[d], a.inbox = Tail(inbox[d])
      PROVE  /\ Taken(d, a.todo, a.inbox, Holds(a.then)) /\ Holds(a.then) \subseteq Busy(d)
             /\ Given(ledger, a) /\ Timely(ledger, today, a.then)
  <2>1. inbox[d] # <<>> /\ h = Head(inbox[d])
        BY <1>9 DEF First
  <2>2. PICK e \in Seq(M) : e = Tail(inbox[d]) /\ FirstOff(inbox[d], h, e)
        BY <1>4, <2>1, TailIsFirstOff
  <2>3. PICK u : u = h.then
        OBVIOUS
  <2>4. Hold(h) = Holds(u)
        BY <1>9, <2>3 DEF Hold
  <2>5. /\ Moves(ledger, today, todo[d], wire[d], held[d], inbox[d], Resends(d),
                 todo[d], wire[d], held[d], e, Resends(d))
        /\ Holds(u) \cap (Claimed(todo[d], wire[d], held[d], e) \cup Covers(todo[d])) = {}
    <3>1. /\ Moves(ledger, today, todo[d], wire[d], held[d], inbox[d], Resends(d),
                   todo[d], wire[d], held[d], e, Resends(d))
          /\ Neat(todo[d], wire[d], held[d], inbox[d], Resends(d)) =>
               Hold(h) \cap (Claimed(todo[d], wire[d], held[d], e) \cup Covers(todo[d])) = {}
          BY <2>2, MessageIsTaken
    <3>2. QED
          BY <1>6, <2>4, <3>1 DEF DeviceNeat
  <2>6. h \in Elements(inbox[d]) /\ Holds(u) \subseteq Claims(inbox[d])
        BY <2>2, <2>4, FirstOffFacts
  <2>7. Holds(u) \subseteq Busy(d)
        BY <2>6 DEF Busy, Work, Claimed
  <2>8. Timely(ledger, today, u) /\ Given(ledger, h)
        BY <1>6, <1>9, <2>3, <2>6 DEF DeviceSound, Sound, TagsTimely, RepliesRight
  <2>9. Given(ledger, a)
        BY <1>9, <2>8 DEF Given
  <2>10. Taken(d, todo[d], e, Holds(u))
         BY <1>7, <2>5, <2>7
  <2>11. QED
         BY <1>9, <2>2, <2>3, <2>7, <2>8, <2>9, <2>10
<1>10. QED
  <2>1. CASE \E h \in First(todo[d]) :
                /\ h.kind = "get" /\ ReadsLocally(d, h.leaves)
                /\ a = [then |-> h.then, snap |-> [l \in h.leaves |-> LocalView(d)[l]],
                        todo |-> Tail(todo[d]), inbox |-> inbox[d]]
    <3>1. PICK h \in First(todo[d]) :
                /\ h.kind = "get" /\ ReadsLocally(d, h.leaves)
                /\ a = [then |-> h.then, snap |-> [l \in h.leaves |-> LocalView(d)[l]],
                        todo |-> Tail(todo[d]), inbox |-> inbox[d]]
          BY <2>1
    <3>2. /\ a.then = h.then /\ a.snap = [l \in h.leaves |-> LocalView(d)[l]]
          /\ a.todo = Tail(todo[d]) /\ a.inbox = inbox[d]
          BY <3>1
    <3>3. QED
          BY <1>8, <3>1, <3>2
  <2>2. CASE \E h \in First(inbox[d]) :
                /\ h.kind = "reply"
                /\ a = [then |-> h.then, snap |-> h.snap,
                        todo |-> todo[d], inbox |-> Tail(inbox[d])]
    <3>1. PICK h \in First(inbox[d]) :
                /\ h.kind = "reply"
                /\ a = [then |-> h.then, snap |-> h.snap,
                        todo |-> todo[d], inbox |-> Tail(inbox[d])]
          BY <2>2
    <3>2. /\ a.then = h.then /\ a.snap = h.snap
          /\ a.todo = todo[d] /\ a.inbox = Tail(inbox[d])
          BY <3>1
    <3>3. QED
          BY <1>9, <3>1, <3>2
  <2>3. QED
        BY <2>1, <2>2 DEF Answers

\* A handler of a user who waits may write whatever it likes.
LEMMA HandlerTaken ==
    ASSUME NEW G, NEW B, DatabaseInv(G, B), NEW d \in Device, TurnInv, Patient(d)
    PROVE  Taken(d, todo[d], inbox[d], Leaf)
<1>1. /\ todo[d] = <<>> /\ held[d] = <<>>
      /\ Calls(wire[d], "get") = {} /\ Calls(inbox[d], "reply") = {}
      BY DEF Patient, Idle
<1>2. \A x \in Elements(wire[d]) : x.kind \notin {"get", "reply"}
  <2>1. ASSUME NEW x \in Elements(wire[d])
        PROVE  x.kind \notin {"get", "reply"}
    <3>1. PICK i \in DOMAIN wire[d] : x = wire[d][i]
          BY <2>1 DEF Elements
    <3>2. x.kind # "get"
          BY <1>1, <3>1 DEF Calls
    <3>3. wire[d] \in Seq(Call(G, B[d]))
          BY DEF DatabaseInv
    <3>4. x \in Call(G, B[d])
          BY <3>1, <3>3
    <3>5. x.kind # "reply"
          BY <3>4 DEF Call, GetData, SetValue, Observe
    <3>6. QED
          BY <3>2, <3>5
  <2>2. QED
        BY <2>1
<1>3. \A x \in Elements(inbox[d]) : x.kind \notin {"get", "reply"}
  <2>1. ASSUME NEW x \in Elements(inbox[d])
        PROVE  x.kind \notin {"get", "reply"}
    <3>1. PICK i \in DOMAIN inbox[d] : x = inbox[d][i]
          BY <2>1 DEF Elements
    <3>2. x.kind # "reply"
          BY <1>1, <3>1 DEF Calls
    <3>3. inbox[d] \in Seq(Message(G, B[d]))
          BY DEF DatabaseInv
    <3>4. x \in Message(G, B[d])
          BY <3>1, <3>3
    <3>5. x.kind # "get"
          BY <3>4 DEF Message, Ack, Event, Reply
    <3>6. QED
          BY <3>2, <3>5
  <2>2. QED
        BY <2>1
<1>4. Claims(wire[d]) = {} /\ Claims(inbox[d]) = {}
      BY <1>2, <1>3, InertQueue
<1>5. Claimed(todo[d], wire[d], held[d], inbox[d]) \cup Covers(todo[d]) = {}
      BY <1>1, <1>4, NothingQueued DEF Claimed
<1>6. ASSUME NEW f \in Device \ {d}
      PROVE  Busy(f) = {}
  <2>1. /\ todo[f] = <<>> /\ wire[f] = <<>> /\ held[f] = <<>> /\ inbox[f] = <<>>
        /\ pending[f] = <<>>
        BY <1>6 DEF Patient, Settled
  <2>2. Elements(Resends(f)) = {}
    <3>1. DOMAIN Resends(f) = {}
          BY <2>1 DEF Resends
    <3>2. QED
          BY <3>1 DEF Elements
  <2>3. Covers(Resends(f)) = {}
        BY <2>2 DEF Covers
  <2>4. QED
        BY <2>1, <2>3, NothingQueued DEF Busy, Work, Claimed, Written
<1>7. DeviceNeat(d) /\ DeviceSound(d)
      BY DEF TurnInv
<1>8. QED
      BY <1>5, <1>6, <1>7 DEF Taken, DeviceNeat, DeviceSound, Busy

-----------------------------------------------------------------------------
(* What a handler or a block may dispatch.                                 *)

\* No call to listen.
Mute(s) == \A x \in Elements(s) : x.kind # "listen"

\* A step of device d: the ledger changes only where d has come to write, and d
\* asks to listen only if anyone does.
Accounted(d) ==
    /\ Covers(todo[d]) \subseteq Covers(todo'[d])
    /\ \A l \in Kept \ Covers(todo'[d]) : \A v : Right(ledger, l, v) => Right(ledger', l, v)
    /\ Listening = {} /\ Mute(todo[d]) => Mute(todo'[d])

\* Calls g that hold or write leaves of H only, when the ledger becomes k2.
Fits(k, k2, now, H, g) ==
    /\ Sole(g) /\ Claims(g) \cup Covers(g) \subseteq H /\ Claims(g) \cap Covers(g) = {}
    /\ DisplayName \notin Covers(g)
    /\ PutsRight(k2, g) /\ TagsTimely(k2, now, g)
    /\ \A l \in Kept \ Covers(g) : \A v : Right(k, l, v) => Right(k2, l, v)
    /\ Rewarded(k2) = Rewarded(k) \/ LastVisitedDate \in H
    /\ Listening = {} => Mute(g)

\* The newest of what a queue covers is in it.
LEMMA LatestIsCovered ==
    ASSUME NEW s, NEW l, NEW x \in Latest(s, l)
    PROVE  x \in Elements(s) /\ l \in Cover(x) /\ l \in Covers(s)
<1>1. PICK i \in DOMAIN s : x = s[i] /\ LatestAt(s, i, l)
      BY DEF Latest
<1>2. x \in Elements(s) /\ l \in Cover(x)
      BY <1>1 DEF LatestAt, Elements
<1>3. QED
      BY <1>2, ClaimsOf

\* The day of a claim under way is still timely when nobody else is rewarded.
LEMMA ClaimsStayTimely ==
    ASSUME NEW k, NEW k2, NEW now, NEW s, TagsTimely(k, now, s),
           Rewarded(k2) = Rewarded(k) \/ LastVisitedDate \notin Claims(s)
    PROVE  TagsTimely(k2, now, s)
<1> SUFFICES ASSUME NEW x \in Elements(s), x.kind \in {"get", "reply"}
             PROVE  Timely(k2, now, x.then)
    BY DEF TagsTimely
<1>1. PICK u : u = x.then
      OBVIOUS
<1>2. Timely(k, now, u)
      BY <1>1 DEF TagsTimely
<1>3. CASE Rewarded(k2) = Rewarded(k)
      BY <1>1, <1>2, <1>3 DEF Timely
<1>4. CASE LastVisitedDate \notin Claims(s)
  <2>1. Hold(x) = Holds(u) /\ Hold(x) \subseteq Claims(s)
        BY <1>1, ClaimsOf DEF Hold
  <2>2. u.op = "claimDate" => LastVisitedDate \in Holds(u)
        BY DEF Holds
  <2>3. u.op # "claimDate"
        BY <1>4, <2>1, <2>2
  <2>4. QED
        BY <1>1, <2>3 DEF Timely
<1>5. QED
      BY <1>3, <1>4

\* What is given stays right at the leaves the ledger does not change.
LEMMA GivenStays ==
    ASSUME NEW k, NEW k2, NEW e, NEW N, Claims(e) \cap N = {}, DisplayName \notin N,
           \A l \in Kept \ N : \A v : Right(k, l, v) => Right(k2, l, v),
           RepliesRight(k, e)
    PROVE  RepliesRight(k2, e)
<1> SUFFICES ASSUME NEW x \in Elements(e), x.kind = "reply",
                    NEW l \in Sure(x.then) \cap DOMAIN x.snap
             PROVE  Right(k2, l, x.snap[l])
    BY DEF RepliesRight, Given
<1>1. PICK u : u = x.then
      OBVIOUS
<1>2. Hold(x) = Holds(u) /\ Hold(x) \subseteq Claims(e)
      BY <1>1, ClaimsOf DEF Hold
<1>3. l \in Kept /\ l \in Holds(u) \cup {DisplayName}
  <2>1. Sure(u) \subseteq Kept
        BY HoldsAreKept
  <2>2. QED
        BY <1>1, <2>1 DEF Sure
<1>4. Right(k, l, x.snap[l])
      BY DEF RepliesRight, Given
<1>5. QED
      BY <1>2, <1>3, <1>4

\* A device that is not at work where the ledger changes.
LEMMA SoundStays ==
    ASSUME NEW k, NEW k2, NEW now, NEW a, NEW b, NEW c, NEW e, NEW r,
           Sound(k, now, a, b, c, e, r),
           NEW N, Work(a, b, c, e, r) \cap N = {}, DisplayName \notin N,
           \A l \in Kept \ N : \A v : Right(k, l, v) => Right(k2, l, v),
           Rewarded(k2) = Rewarded(k) \/ Work(a, b, c, e, r) = {}
    PROVE  Sound(k2, now, a, b, c, e, r)
<1>1. /\ Covers(a) \cap N = {} /\ Covers(b) \cap N = {} /\ Covers(r) \cap N = {}
      /\ Claims(e) \cap N = {}
      BY DEF Work, Written, Claimed
<1>2. PutsRight(k2, a)
  <2>1. \A x \in Elements(a) : Cover(x) \subseteq Covers(a)
        BY ClaimsOf
  <2>2. QED
        BY <1>1, <2>1 DEF Sound, PutsRight
<1>3. ASSUME NEW s, SentRight(k, s, a), Covers(s) \cap N = {}
      PROVE  SentRight(k2, s, a)
  <2>1. \A l : \A x \in Latest(s, l) : l \in Covers(s)
        BY LatestIsCovered
  <2>2. QED
        BY <1>3, <2>1 DEF SentRight
<1>4. RepliesRight(k2, e)
      BY <1>1, GivenStays DEF Sound
<1>5. Rewarded(k2) = Rewarded(k) \/
      (Claims(a) = {} /\ Claims(b) = {} /\ Claims(c) = {} /\ Claims(e) = {})
      BY DEF Work, Claimed
<1>6. /\ TagsTimely(k2, now, a) /\ TagsTimely(k2, now, b)
      /\ TagsTimely(k2, now, c) /\ TagsTimely(k2, now, e)
      BY <1>5, ClaimsStayTimely DEF Sound
<1>7. QED
      BY <1>1, <1>2, <1>3, <1>4, <1>6 DEF Sound

\* The device that dispatches the calls.
LEMMA CallsJoin ==
    ASSUME NEW k, NEW k2, NEW now, NEW a, NEW b, NEW c, NEW e, NEW r,
           Neat(a, b, c, e, r), Sound(k, now, a, b, c, e, r),
           NEW H, H \cap (Claimed(a, b, c, e) \cup Covers(a)) = {},
           NEW g, Fits(k, k2, now, H, g), NEW v, Joined(a, g, v)
    PROVE  /\ Neat(v, b, c, e, r) /\ Sound(k2, now, v, b, c, e, r)
           /\ Work(v, b, c, e, r) \subseteq Work(a, b, c, e, r) \cup H
<1>1. /\ Claims(v) = Claims(a) \cup Claims(g) /\ Covers(v) = Covers(a) \cup Covers(g)
      /\ Elements(v) = Elements(a) \cup Elements(g)
      BY JoinedFacts DEF Joined
<1>2. /\ Claims(g) \subseteq H /\ Covers(g) \subseteq H /\ Claims(g) \cap Covers(g) = {}
      /\ DisplayName \notin Covers(g) /\ Sole(g)
      BY DEF Fits
<1>3. Sole(v)
  <2>1. Sole(a) /\ Claims(a) \cap Claims(g) = {}
        BY <1>2 DEF Neat, Tidy, Claimed
  <2>2. QED
        BY <1>2, <2>1 DEF Joined
<1>4. Tidy(v, b, c, e)
      BY <1>1, <1>2, <1>3 DEF Neat, Tidy, Claimed
<1>5. Neat(v, b, c, e, r) /\ Work(v, b, c, e, r) \subseteq Work(a, b, c, e, r) \cup H
      BY <1>1, <1>2, <1>4 DEF Neat, Work, Claimed, Written
<1>6. \A l \in Kept \ Covers(g) : \A w : Right(k, l, w) => Right(k2, l, w)
      BY DEF Fits
<1>7. PutsRight(k2, v)
  <2>1. ASSUME NEW x \in Elements(a), NEW l \in Cover(x) \cap Kept
        PROVE  Right(k2, l, x.write[l])
    <3>1. l \notin Covers(g)
          BY <1>2, <2>1, ClaimsOf
    <3>2. Right(k, l, x.write[l])
          BY <2>1 DEF Sound, PutsRight
    <3>3. QED
          BY <1>6, <2>1, <3>1, <3>2
  <2>2. PutsRight(k2, g)
        BY DEF Fits
  <2>3. QED
        BY <1>1, <2>1, <2>2 DEF PutsRight
<1>8. ASSUME NEW s, SentRight(k, s, a)
      PROVE  SentRight(k2, s, v)
      BY <1>1, <1>6, <1>8 DEF SentRight
<1>9. RepliesRight(k2, e)
  <2>1. Claims(e) \cap Covers(g) = {}
        BY <1>2 DEF Claimed
  <2>2. QED
        BY <1>2, <1>6, <2>1, GivenStays DEF Sound
<1>10. /\ TagsTimely(k2, now, a) /\ TagsTimely(k2, now, b)
       /\ TagsTimely(k2, now, c) /\ TagsTimely(k2, now, e)
  <2>1. \/ Rewarded(k2) = Rewarded(k)
        \/ /\ LastVisitedDate \notin Claims(a) /\ LastVisitedDate \notin Claims(b)
           /\ LastVisitedDate \notin Claims(c) /\ LastVisitedDate \notin Claims(e)
        BY DEF Fits, Claimed
  <2>2. QED
        BY <2>1, ClaimsStayTimely DEF Sound
<1>11. TagsTimely(k2, now, v)
  <2>1. TagsTimely(k2, now, g)
        BY DEF Fits
  <2>2. QED
        BY <1>1, <1>10, <2>1 DEF TagsTimely
<1>12. QED
       BY <1>5, <1>7, <1>8, <1>9, <1>10, <1>11 DEF Sound

\* A handler or a block.
LEMMA CallsAdded ==
    ASSUME NEW G, NEW B, DatabaseInv(G, B), TurnInv, NEW d \in Device,
           NEW S, NEW t \in Seq(S), NEW e, NEW H, Taken(d, t, e, H),
           NEW g \in Seq(S), Fits(ledger, ledger', today, H, g),
           todo' = [todo EXCEPT ![d] = t \o g],
           inbox'[d] = e, \A f \in Device \ {d} : inbox'[f] = inbox[f],
           UNCHANGED <<record, pending, wire, held, up, today>>, Counted'
    PROVE  TurnInv' /\ Accounted(d)
<1>1. PICK v \in Seq(S) : v = t \o g /\ Joined(t, g, v)
      BY ConcatIsJoined
<1>2. todo'[d] = v /\ inbox'[d] = e
      BY <1>1 DEF DatabaseInv
<1>3. \A f \in Device : up[f] /\ DeviceNeat(f) /\ DeviceSound(f)
      BY DEF TurnInv
<1>4. \A f \in Device : Resends(f)' = Resends(f)
      BY DEF Resends
<1>5. /\ \A l \in Kept \ Covers(g) : \A w : Right(ledger, l, w) => Right(ledger', l, w)
      /\ Covers(g) \subseteq H /\ DisplayName \notin Covers(g)
      /\ Rewarded(ledger') = Rewarded(ledger) \/ LastVisitedDate \in H
      BY DEF Fits
<1>6. DeviceNeat(d)' /\ DeviceSound(d)' /\ Busy(d)' \subseteq Busy(d) \cup H
  <2>1. /\ Neat(v, wire[d], held[d], e, Resends(d))
        /\ Sound(ledger', today, v, wire[d], held[d], e, Resends(d))
        /\ Work(v, wire[d], held[d], e, Resends(d)) \subseteq
              Work(t, wire[d], held[d], e, Resends(d)) \cup H
        BY <1>1, CallsJoin DEF Taken
  <2>2. Work(t, wire[d], held[d], e, Resends(d)) \subseteq Busy(d)
        BY DEF Taken
  <2>3. QED
        BY <1>2, <1>4, <2>1, <2>2 DEF DeviceNeat, DeviceSound, Busy
<1>7. ASSUME NEW f \in Device \ {d}
      PROVE  DeviceNeat(f)' /\ DeviceSound(f)' /\ Busy(f)' = Busy(f) /\ Unserved(f)' = Unserved(f)
  <2>1. todo'[f] = todo[f] /\ inbox'[f] = inbox[f]
        BY DEF DatabaseInv
  <2>2. Busy(f) = {} \/ H = {}
        BY DEF Taken
  <2>3. Busy(f) \cap Covers(g) = {}
        BY <1>5, <2>2
  <2>4. Rewarded(ledger') = Rewarded(ledger) \/ Busy(f) = {}
        BY <1>5, <2>2
  <2>5. Sound(ledger', today, todo[f], wire[f], held[f], inbox[f], Resends(f))
    <3>1. Sound(ledger, today, todo[f], wire[f], held[f], inbox[f], Resends(f))
          BY <1>3 DEF DeviceSound
    <3>2. QED
          BY <1>5, <2>3, <2>4, <3>1, SoundStays DEF Busy
  <2>6. QED
        BY <1>3, <1>4, <2>1, <2>5 DEF DeviceNeat, DeviceSound, Busy, Unserved
<1>8. Turns'
  <2>1. ASSUME NEW f \in Device, NEW h \in Device, f # h
        PROVE  Busy(f)' = {} \/ Busy(h)' = {}
    <3>1. CASE H = {}
      <4>1. Busy(f) = {} \/ Busy(h) = {}
            BY <2>1 DEF TurnInv, Turns
      <4>2. \A q \in Device : Busy(q)' \subseteq Busy(q)
            BY <1>6, <1>7, <3>1
      <4>3. QED
            BY <4>1, <4>2
    <3>2. CASE H # {}
          BY <1>7, <2>1, <3>2 DEF Taken
    <3>3. QED
          BY <3>1, <3>2
  <2>2. QED
        BY <2>1 DEF Turns
<1>9. RecordRight'
  <2>1. Unserved(d)' = Covers(todo[d]) \cup Covers(g) \cup Covers(wire[d])
    <3>1. Covers(v) = Covers(t) \cup Covers(g) /\ Covers(t) = Covers(todo[d])
          BY <1>1, JoinedFacts DEF Taken
    <3>2. QED
          BY <1>2, <3>1 DEF Unserved
  <2>2. ASSUME NEW l \in Kept, \A f \in Device : l \notin Unserved(f)'
        PROVE  Right(ledger', l, record'[l])
    <3>1. \A f \in Device : l \notin Unserved(f)
          BY <1>7, <2>1, <2>2 DEF Unserved
    <3>2. Right(ledger, l, record[l])
          BY <3>1 DEF TurnInv, RecordRight
    <3>3. QED
          BY <1>5, <2>1, <2>2, <3>2
  <2>3. QED
        BY <2>2 DEF RecordRight
<1>10. Accounted(d)
  <2>1. /\ Covers(v) = Covers(t) \cup Covers(g) /\ Covers(t) = Covers(todo[d])
        /\ Elements(v) = Elements(t) \cup Elements(g) /\ Elements(t) \subseteq Elements(todo[d])
        BY <1>1, JoinedFacts DEF Taken, Joined
  <2>2. Listening = {} /\ Mute(todo[d]) => Mute(v)
        BY <2>1 DEF Fits, Mute
  <2>3. QED
        BY <1>2, <1>5, <2>1, <2>2 DEF Accounted
<1>11. QED
       BY <1>3, <1>6, <1>7, <1>8, <1>9, <1>10 DEF TurnInv

\* What is right at each leaf.
LEMMA RightAt ==
    ASSUME NEW k, NEW v
    PROVE  /\ Right(k, CurrentLeaves, v) <=> OrZero(v) = k.current
           /\ Right(k, AllTimeLeaves, v) <=> OrZero(v) = k.allTime
           /\ Right(k, LastVisitedDate, v) <=> Dated(k, v)
           /\ Right(k, DisplayName, v) <=> v # Absent
           /\ \A i \in Key : Right(k, Inventory(i), v) <=> (~Reuse => OrZero(v) = k.goods[i])
<1>1. /\ CurrentLeaves # AllTimeLeaves /\ CurrentLeaves # LastVisitedDate
      /\ CurrentLeaves # DisplayName /\ AllTimeLeaves # LastVisitedDate
      /\ AllTimeLeaves # DisplayName /\ LastVisitedDate # DisplayName
      /\ \A l \in {CurrentLeaves, AllTimeLeaves, LastVisitedDate, DisplayName} :
            \A i : l # Inventory(i)
      BY LeavesApart DEF Profile, LastVisitedDate, DisplayName
<1>2. \A i, j : Inventory(i) = Inventory(j) => i = j
      BY LeavesApart
<1>3. QED
      BY <1>1, <1>2 DEF Right

LEMMA RightStays ==
    ASSUME NEW k, NEW k2, NEW l, NEW v, Right(k, l, v),
           l = CurrentLeaves => k2.current = k.current,
           l = AllTimeLeaves => k2.allTime = k.allTime,
           \A i \in Key : l = Inventory(i) => k2.goods[i] = k.goods[i],
           l = LastVisitedDate => Rewarded(k2) = Rewarded(k)
    PROVE  Right(k2, l, v)
BY DEF Right, Dated

\* One call, or two.
LEMMA OneCall ==
    ASSUME NEW x
    PROVE  /\ <<x>> \in Seq({x}) /\ Elements(<<x>>) = {x} /\ Sole(<<x>>)
           /\ Claims(<<x>>) = Hold(x) /\ Covers(<<x>>) = Cover(x)
<1>1. PICK s : s = <<x>>
      OBVIOUS
<1>2. s \in Seq({x}) /\ DOMAIN s = {1} /\ Elements(s) = {x}
      BY <1>1, ElementsOfShort
<1>3. Claims(s) = Hold(x) /\ Covers(s) = Cover(x) /\ Sole(s)
      BY <1>2 DEF Claims, Covers, Sole
<1>4. QED
      BY <1>1, <1>2, <1>3

LEMMA TwoCalls ==
    ASSUME NEW x, NEW y
    PROVE  /\ <<x, y>> \in Seq({x, y}) /\ Elements(<<x, y>>) = {x, y}
           /\ Hold(x) \cap Hold(y) = {} => Sole(<<x, y>>)
           /\ Claims(<<x, y>>) = Hold(x) \cup Hold(y)
           /\ Covers(<<x, y>>) = Cover(x) \cup Cover(y)
<1>1. PICK s : s = <<x, y>>
      OBVIOUS
<1>2. s \in Seq({x, y}) /\ DOMAIN s = {1, 2} /\ s[1] = x /\ s[2] = y
      BY <1>1
<1>3. Elements(s) = {x, y}
      BY <1>1, ElementsOfShort
<1>4. Claims(s) = Hold(x) \cup Hold(y) /\ Covers(s) = Cover(x) \cup Cover(y)
      BY <1>3 DEF Claims, Covers
<1>5. Hold(x) \cap Hold(y) = {} => Sole(s)
      BY <1>2 DEF Sole
<1>6. QED
      BY <1>1, <1>2, <1>3, <1>4, <1>5

LEMMA GetHolds ==
    ASSUME NEW S, NEW t
    PROVE  /\ GetData(S, t).kind = "get" /\ GetData(S, t).then = t
           /\ Hold(GetData(S, t)) = Holds(t) /\ Cover(GetData(S, t)) = {}
BY DEF GetData, Hold, Cover

LEMMA PutCovers ==
    ASSUME NEW w
    PROVE  /\ SetValue(w).kind = "put" /\ SetValue(w).write = w
           /\ Hold(SetValue(w)) = {} /\ Cover(SetValue(w)) = DOMAIN w
BY DEF SetValue, Hold, Cover

\* Calls that fit: none, gets that hold nothing, and a write.
LEMMA InertFits ==
    ASSUME NEW k, NEW now, NEW H, NEW g,
           \A x \in Elements(g) : /\ x.kind # "put" /\ Hold(x) = {}
                                  /\ Listening = {} => x.kind # "listen"
                                  /\ x.kind \in {"get", "reply"} => x.then.op # "claimDate"
    PROVE  Fits(k, k, now, H, g)
<1>1. Covers(g) = {}
      BY NoWrites
<1>2. Claims(g) = {} /\ Sole(g)
  <2>1. \A i \in DOMAIN g : Hold(g[i]) = {}
        BY DEF Elements
  <2>2. QED
        BY <2>1 DEF Claims, Sole
<1>3. PutsRight(k, g)
      BY DEF PutsRight, Cover
<1>4. TagsTimely(k, now, g)
      BY DEF TagsTimely, Timely
<1>5. QED
      BY <1>1, <1>2, <1>3, <1>4 DEF Fits, Mute

LEMMA NothingFits ==
    ASSUME NEW k, NEW now, NEW H
    PROVE  Fits(k, k, now, H, <<>>)
BY ElementsOfShort, InertFits

LEMMA WriteFits ==
    ASSUME NEW k, NEW k2, NEW now, NEW H, NEW w, DOMAIN w \subseteq H, DisplayName \notin DOMAIN w,
           \A l \in DOMAIN w : Right(k2, l, w[l]),
           \A l \in Kept \ DOMAIN w : \A v : Right(k, l, v) => Right(k2, l, v),
           Rewarded(k2) = Rewarded(k)
    PROVE  Fits(k, k2, now, H, <<SetValue(w)>>)
<1>1. PICK x : x = SetValue(w)
      OBVIOUS
<1>2. PICK g : g = <<x>>
      OBVIOUS
<1>3. x.kind = "put" /\ x.write = w /\ Hold(x) = {} /\ Cover(x) = DOMAIN w
      BY <1>1, PutCovers
<1>4. Elements(g) = {x} /\ Sole(g) /\ Claims(g) = {} /\ Covers(g) = DOMAIN w
      BY <1>2, <1>3, OneCall
<1>5. PutsRight(k2, g)
      BY <1>3, <1>4 DEF PutsRight
<1>6. TagsTimely(k2, now, g)
      BY <1>3, <1>4 DEF TagsTimely
<1>7. Fits(k, k2, now, H, g)
      BY <1>3, <1>4, <1>5, <1>6 DEF Fits, Mute
<1>8. QED
      BY <1>1, <1>2, <1>7

\* A block runs.
LEMMA BlockTurns ==
    ASSUME NEW alone, Inv(alone), NEW d \in Device, TurnInv, CacheGood(d),
           NEW a \in Answers(d), NEW S, NEW calls \in Seq(S), Return(d, a, calls),
           Fits(ledger, ledger', today, Holds(a.then), calls), today' = today, Counted'
    PROVE  TurnInv' /\ Accounted(d)
<1>1. PICK G : G = Known(alone, ledger)
      OBVIOUS
<1>2. PICK B : B = Blocks
      OBVIOUS
<1>3. DatabaseInv(G, B) /\ Asks(B) /\ Allows(G)
      BY <1>1, <1>2, KnownAllows, BlocksAsk DEF Inv, WalletInv
<1>4. PICK T : T = Call(G, B[d])
      OBVIOUS
<1>5. a.todo \in Seq(T)
      BY <1>3, <1>4, AnswersAreGood
<1>6. a.todo \in Seq(T \cup S) /\ calls \in Seq(T \cup S)
      BY <1>5
<1>7. Taken(d, a.todo, a.inbox, Holds(a.then))
      BY AnswerTaken
<1>8. PICK t \in Seq(T \cup S) : t = a.todo
      BY <1>6
<1>9. PICK e : e = a.inbox
      OBVIOUS
<1>10. PICK H : H = Holds(a.then)
       OBVIOUS
<1>11. /\ todo' = [todo EXCEPT ![d] = t \o calls]
       /\ inbox'[d] = e /\ \A f \in Device \ {d} : inbox'[f] = inbox[f]
       /\ UNCHANGED <<record, pending, wire, held, up, today>>
       BY <1>3, <1>8, <1>9 DEF Return, linkVars, DatabaseInv
<1>12. Taken(d, t, e, H) /\ Fits(ledger, ledger', today, H, calls)
       BY <1>7, <1>8, <1>9, <1>10
<1>13. QED
       BY <1>3, <1>6, <1>11, <1>12, CallsAdded

\* A handler dispatches, or one that needs nothing to itself.
LEMMA HandlerTurns ==
    ASSUME NEW alone, Inv(alone), NEW d \in Device, TurnInv, NEW H,
           H = {} \/ (H = Leaf /\ Patient(d)),
           NEW S, NEW calls \in Seq(S), Dispatch(d, calls),
           Fits(ledger, ledger, today, H, calls), UNCHANGED <<ledger, today>>
    PROVE  TurnInv' /\ Accounted(d)
<1>1. PICK G : G = Known(alone, ledger)
      OBVIOUS
<1>2. PICK B : B = Blocks
      OBVIOUS
<1>3. DatabaseInv(G, B)
      BY <1>1, <1>2 DEF Inv
<1>4. PICK T : T = Call(G, B[d])
      OBVIOUS
<1>5. todo[d] \in Seq(T)
      BY <1>3, <1>4 DEF DatabaseInv
<1>6. todo[d] \in Seq(T \cup S) /\ calls \in Seq(T \cup S)
      BY <1>5
<1>7. Taken(d, todo[d], inbox[d], H)
  <2>1. CASE H = {}
        BY <2>1 DEF TurnInv, DeviceNeat, DeviceSound, Taken, Busy
  <2>2. QED
        BY <1>3, <2>1, HandlerTaken
<1>8. /\ todo' = [todo EXCEPT ![d] = todo[d] \o calls]
      /\ inbox'[d] = inbox[d] /\ \A f \in Device \ {d} : inbox'[f] = inbox[f]
      /\ UNCHANGED <<record, pending, wire, held, up, today>>
      BY DEF Dispatch, linkVars
<1>9. Counted' /\ Fits(ledger, ledger', today, H, calls)
      BY DEF TurnInv, Counted
<1>10. QED
       BY <1>3, <1>6, <1>7, <1>8, <1>9, CallsAdded

-----------------------------------------------------------------------------
(* The blocks.                                                             *)

LEMMA NameIsApart == DisplayName \notin Ledgered
<1>1. DisplayName # LastVisitedDate
      BY DEF DisplayName, LastVisitedDate
<1>2. \A k : DisplayName # Inventory(k)
      BY LeavesApart DEF Profile
<1>3. QED
      BY <1>1, <1>2, LeavesApart DEF Ledgered, InventoryLeaves

\* A block that writes one of the leaves it holds, and one that writes nothing.
LEMMA LeafWritten ==
    ASSUME NEW alone, Inv(alone), NEW d \in Device, TurnInv, CacheGood(d), NEW a \in Answers(d),
           NEW l \in Holds(a.then), NEW v, Return(d, a, <<SetValue(SetLeaf(l, v))>>),
           Right(ledger', l, v),
           \A m \in Kept \ {l} : \A w : Right(ledger, m, w) => Right(ledger', m, w),
           ledger'.rewards = ledger.rewards, today' = today
    PROVE  TurnInv' /\ Accounted(d)
<1>1. PICK w : w = SetLeaf(l, v)
      OBVIOUS
<1>2. DOMAIN w = {l} /\ w[l] = v
      BY <1>1 DEF SetLeaf
<1>3. PICK u : u = a.then
      OBVIOUS
<1>4. l # DisplayName
  <2>1. /\ Holds(u) \subseteq Ledgered
        /\ DisplayName \notin Ledgered
        BY HoldsAreKept, NameIsApart
  <2>2. QED
        BY <1>3, <2>1
<1>5. Rewarded(ledger') = Rewarded(ledger)
      BY DEF Rewarded
<1>6. Fits(ledger, ledger', today, Holds(a.then), <<SetValue(w)>>)
      BY <1>2, <1>4, <1>5, WriteFits
<1>7. Counted'
      BY DEF TurnInv, Counted
<1>8. PICK x : x = SetValue(w)
      OBVIOUS
<1>9. PICK calls \in Seq({x}) : calls = <<x>>
      BY OneCall
<1>10. /\ Fits(ledger, ledger', today, Holds(a.then), calls)
       /\ Return(d, a, calls)
       BY <1>1, <1>6, <1>8, <1>9
<1>11. QED
       BY <1>7, <1>10, BlockTurns

LEMMA NothingWritten ==
    ASSUME NEW alone, Inv(alone), NEW d \in Device, TurnInv, CacheGood(d), NEW a \in Answers(d),
           Return(d, a, <<>>), UNCHANGED <<ledger, today>>
    PROVE  TurnInv' /\ Accounted(d)
<1>1. Fits(ledger, ledger', today, Holds(a.then), <<>>)
      BY NothingFits
<1>2. Counted'
      BY DEF TurnInv, Counted
<1>3. PICK calls \in Seq({}) : calls = <<>>
      BY EmptySeq
<1>4. Fits(ledger, ledger', today, Holds(a.then), calls) /\ Return(d, a, calls)
      BY <1>1, <1>3
<1>5. QED
      BY <1>2, <1>4, BlockTurns

\* A new sum of current leaves.
LEMMA CurrentWritten ==
    ASSUME NEW alone, Inv(alone), NEW d \in Device, TurnInv, CacheGood(d), NEW a \in Answers(d),
           CurrentLeaves \in Holds(a.then), NEW v \in Int, NEW x,
           Return(d, a, <<SetValue(SetLeaf(CurrentLeaves, v))>>),
           ledger' = [ledger EXCEPT !.current = x], v = x, today' = today
    PROVE  TurnInv' /\ Accounted(d)
<1>1. ledger \in Book
      BY DEF Inv, WalletInv
<1>2. /\ ledger'.current = x /\ ledger'.allTime = ledger.allTime
      /\ ledger'.goods = ledger.goods /\ ledger'.rewards = ledger.rewards
      BY <1>1 DEF Book
<1>3. Right(ledger', CurrentLeaves, v)
  <2>1. OrZero(v) = v
        BY SchemaAssumption DEF OrZero
  <2>2. QED
        BY <1>2, <2>1, RightAt
<1>4. ASSUME NEW m \in Kept \ {CurrentLeaves}, NEW w, Right(ledger, m, w)
      PROVE  Right(ledger', m, w)
      BY <1>2, <1>4, RightStays DEF Rewarded
<1>5. QED
      BY <1>2, <1>3, <1>4, LeafWritten

LEMMA GotBuyLeavesTurns ==
    ASSUME NEW alone, Inv(alone), NEW d \in Device, TurnInv, CacheGood(d), GotBuyLeaves(d)
    PROVE  TurnInv' /\ Accounted(d)
<1>1. PICK a \in AnswersTo(d, "buyLeaves") : \E k \in MayShow(d, a.then.cell) :
            /\ Return(d, a,
                 IF Affords(a.snap[CurrentLeaves], Price(d, a.then.cell))
                 THEN <<SetValue(SetLeaf(CurrentLeaves, a.snap[CurrentLeaves] - Cost[k]))>>
                 ELSE <<>>)
            /\ IF Affords(a.snap[CurrentLeaves], Price(d, a.then.cell))
               THEN ledger' = [ledger EXCEPT !.current = @ - Cost[k]]
               ELSE ledger' = ledger
            /\ today' = today
      BY DEF GotBuyLeaves, historyVars
<1>2. PICK leaves : leaves = a.snap[CurrentLeaves]
      OBVIOUS
<1>3. PICK pays \in BOOLEAN : pays = Affords(leaves, Price(d, a.then.cell))
      BY DEF Affords
<1>4. PICK price :
        /\ \E k \in MayShow(d, a.then.cell) : price = Cost[k]
        /\ Return(d, a, IF pays THEN <<SetValue(SetLeaf(CurrentLeaves, leaves - price))>>
                        ELSE <<>>)
        /\ IF pays THEN ledger' = [ledger EXCEPT !.current = @ - price]
           ELSE ledger' = ledger
        /\ today' = today
      BY <1>1, <1>2, <1>3
<1>5. /\ a \in Answers(d) /\ CurrentLeaves \in Holds(a.then)
      /\ leaves \in Purse \cup {Absent} /\ price \in Nat
      /\ CurrentLeaves \in DOMAIN a.snap
  <2>1. /\ a.then \in Tag /\ a.then.op = "buyLeaves" /\ a \in Answers(d)
        /\ a.snap \in Patch(Known(alone, ledger), Asked(a.then))
        BY BlockFacts DEF AnswersTo
  <2>2. a.snap \in Patch(Known(alone, ledger), {CurrentLeaves}) /\ a.then.cell \in Cell
        BY <2>1, TagFields
  <2>3. leaves \in Known(alone, ledger)[CurrentLeaves] /\ CurrentLeaves \in DOMAIN a.snap
        BY <1>2, <2>2 DEF Patch
  <2>4. price \in Nat
        BY <1>4, <2>2, ShownIsItem DEF Inv
  <2>5. CurrentLeaves \in Holds(a.then)
        BY <2>1 DEF Holds
  <2>6. QED
        BY <2>1, <2>3, <2>4, <2>5, KnownLeaves
<1>6. CASE pays
  <2>1. leaves \in Int
        BY <1>3, <1>5, <1>6, PurseIsInt DEF Affords
  <2>2. leaves = ledger.current
    <3>1. Right(ledger, CurrentLeaves, leaves)
      <4>1. Given(ledger, a)
            BY <1>5, AnswerTaken
      <4>2. CurrentLeaves \in Sure(a.then)
            BY <1>5 DEF Sure
      <4>3. QED
            BY <1>2, <1>5, <4>1, <4>2 DEF Given
    <3>2. OrZero(leaves) = ledger.current
          BY <3>1, RightAt
    <3>3. QED
          BY <2>1, <3>2, SchemaAssumption DEF OrZero
  <2>3. PICK v : v = leaves - price
        OBVIOUS
  <2>4. v \in Int
        BY <1>5, <2>1, <2>3
  <2>5. /\ Return(d, a, <<SetValue(SetLeaf(CurrentLeaves, v))>>)
        /\ ledger' = [ledger EXCEPT !.current = v]
        BY <1>6, <1>4, <2>2, <2>3
  <2>6. QED
        BY <1>5, <1>4, <2>4, <2>5, CurrentWritten
<1>7. CASE ~pays
  <2>1. Return(d, a, <<>>) /\ UNCHANGED <<ledger, today>>
        BY <1>7, <1>4
  <2>2. QED
        BY <1>5, <2>1, NothingWritten
<1>8. QED
      BY <1>6, <1>7

LEMMA RefuseTurns ==
    ASSUME NEW alone, Inv(alone), NEW d \in Device, TurnInv, CacheGood(d), Refuse(d)
    PROVE  TurnInv' /\ Accounted(d)
<1>1. PICK a \in AnswersTo(d, "buyItem") : Return(d, a, <<>>)
      BY DEF Refuse
<1>2. a \in Answers(d) /\ UNCHANGED <<ledger, today>>
      BY DEF AnswersTo, Refuse
<1>3. QED
      BY <1>1, <1>2, NothingWritten

LEMMA DeliverTurns ==
    ASSUME NEW alone, Inv(alone), NEW d \in Device, TurnInv, CacheGood(d), Deliver(d)
    PROVE  TurnInv' /\ Accounted(d)
<1>1. PICK a \in AnswersTo(d, "buyItem") : \E k \in MayShow(d, a.then.cell) :
            /\ Return(d, a, <<SetValue(SetLeaf(Inventory(k), OneMore(a.snap[a.then.leaf])))>>)
            /\ ledger' = [ledger EXCEPT !.goods[k] = @ + 1]
            /\ today' = today
      BY DEF Deliver
<1>2. PICK k \in MayShow(d, a.then.cell) :
            /\ Return(d, a, <<SetValue(SetLeaf(Inventory(k), OneMore(a.snap[a.then.leaf])))>>)
            /\ ledger' = [ledger EXCEPT !.goods[k] = @ + 1]
            /\ today' = today
      BY <1>1
<1>3. PICK m : m = a.then.leaf
      OBVIOUS
<1>4. PICK count : count = a.snap[m]
      OBVIOUS
<1>5. /\ a \in Answers(d) /\ k \in Key /\ m \in InventoryLeaves
      /\ a.snap \in Patch(Known(alone, ledger), {m})
      /\ ~Reuse => m = Inventory(k)
      /\ Holds(a.then) = InventoryLeaves
  <2>1. /\ a.then \in Tag /\ a.then.op = "buyItem" /\ OnShelf(d, a.then) /\ a \in Answers(d)
        /\ a.snap \in Patch(Known(alone, ledger), Asked(a.then))
        BY BlockFacts DEF AnswersTo
  <2>2. /\ a.then.cell \in Cell /\ m \in InventoryLeaves
        /\ a.snap \in Patch(Known(alone, ledger), {m})
        BY <1>3, <2>1, TagFields
  <2>3. k \in Key /\ (~Reuse => k = shelf[d][a.then.cell])
        BY <2>2, ShownIsItem DEF Inv
  <2>4. ~Reuse => m = Inventory(k)
        BY <1>3, <2>1, <2>3 DEF OnShelf
  <2>5. Holds(a.then) = InventoryLeaves
        BY <2>1 DEF Holds
  <2>6. QED
        BY <2>1, <2>2, <2>3, <2>4, <2>5
<1>6. count = Absent \/ count \in Nat
  <2>1. PICK j \in Key : m = Inventory(j)
        BY <1>5 DEF InventoryLeaves
  <2>2. count \in Known(alone, ledger)[Inventory(j)]
        BY <1>4, <1>5, <2>1 DEF Patch
  <2>3. QED
        BY <2>2, KnownLeaves
<1>7. /\ ledger'.current = ledger.current /\ ledger'.allTime = ledger.allTime
      /\ ledger'.rewards = ledger.rewards
      /\ ledger'.goods = [ledger.goods EXCEPT ![k] = @ + 1]
      /\ ledger.goods \in [Key -> Nat]
  <2>1. ledger \in Book
        BY DEF Inv, WalletInv
  <2>2. QED
        BY <1>2, <2>1 DEF Book
<1>8. PICK l : l = Inventory(k)
      OBVIOUS
<1>9. PICK v : v = OneMore(count)
      OBVIOUS
<1>10. OrZero(v) = OrZero(count) + 1
       BY <1>6, <1>9, SchemaAssumption DEF OneMore, OrZero
<1>11. Right(ledger', l, v)
  <2>1. CASE ~Reuse
    <3>1. Right(ledger, l, count)
      <4>1. Given(ledger, a)
            BY <1>5, AnswerTaken
      <4>2. l \in Sure(a.then) /\ l \in DOMAIN a.snap
            BY <1>5, <1>8, <2>1 DEF Sure, Patch
      <4>3. QED
            BY <1>4, <1>5, <1>8, <2>1, <4>1, <4>2 DEF Given
    <3>2. OrZero(count) = ledger.goods[k]
          BY <1>5, <1>8, <2>1, <3>1, RightAt
    <3>3. ledger'.goods[k] = ledger.goods[k] + 1
          BY <1>5, <1>7
    <3>4. QED
          BY <1>5, <1>8, <1>10, <3>2, <3>3, RightAt
  <2>2. CASE Reuse
        BY <1>5, <1>8, <2>2, RightAt
  <2>3. QED
        BY <2>1, <2>2
<1>12. ASSUME NEW j \in Kept \ {l}, NEW w, Right(ledger, j, w)
       PROVE  Right(ledger', j, w)
  <2>1. \A i \in Key : j = Inventory(i) => ledger'.goods[i] = ledger.goods[i]
        BY <1>7, <1>8, <1>12
  <2>2. QED
        BY <1>7, <1>12, <2>1, RightStays DEF Rewarded
<1>13. l \in Holds(a.then)
       BY <1>5, <1>8, LeavesAreLeaves
<1>14. Return(d, a, <<SetValue(SetLeaf(l, v))>>)
       BY <1>2, <1>3, <1>4, <1>8, <1>9
<1>15. QED
       BY <1>2, <1>5, <1>7, <1>11, <1>12, <1>13, <1>14, LeafWritten

LEMMA GotRewardCurrentTurns ==
    ASSUME NEW alone, Inv(alone), NEW d \in Device, TurnInv, CacheGood(d), GotRewardCurrent(d)
    PROVE  TurnInv' /\ Accounted(d)
<1>1. PICK a \in AnswersTo(d, "rewardCurrent") :
            /\ Return(d, a,
                IF a.snap[CurrentLeaves] = Absent THEN <<>>
                ELSE <<SetValue(SetLeaf(CurrentLeaves,
                          PlusTotal(a.snap[CurrentLeaves], a.then.total)))>>)
            /\ ledger' = IF a.snap[CurrentLeaves] = Absent THEN ledger
                         ELSE [ledger EXCEPT !.current = @ + a.then.total]
            /\ today' = today
      BY DEF GotRewardCurrent
<1>2. PICK leaves : leaves = a.snap[CurrentLeaves]
      OBVIOUS
<1>3. PICK total : total = a.then.total
      OBVIOUS
<1>4. /\ a \in Answers(d) /\ CurrentLeaves \in Holds(a.then)
      /\ leaves \in Purse \cup {Absent} /\ total \in Nat
      /\ CurrentLeaves \in DOMAIN a.snap
  <2>1. /\ a.then \in Tag /\ a.then.op = "rewardCurrent" /\ a \in Answers(d)
        /\ a.snap \in Patch(Known(alone, ledger), Asked(a.then))
        BY BlockFacts DEF AnswersTo
  <2>2. a.snap \in Patch(Known(alone, ledger), {CurrentLeaves}) /\ total \in Nat
        BY <1>3, <2>1, TagFields
  <2>3. leaves \in Known(alone, ledger)[CurrentLeaves] /\ CurrentLeaves \in DOMAIN a.snap
        BY <1>2, <2>2 DEF Patch
  <2>4. CurrentLeaves \in Holds(a.then)
        BY <2>1 DEF Holds
  <2>5. QED
        BY <2>1, <2>2, <2>3, <2>4, KnownLeaves
<1>5. CASE leaves # Absent
  <2>1. leaves \in Int
        BY <1>4, <1>5, PurseIsInt
  <2>2. leaves = ledger.current
    <3>1. Right(ledger, CurrentLeaves, leaves)
      <4>1. Given(ledger, a)
            BY <1>4, AnswerTaken
      <4>2. CurrentLeaves \in Sure(a.then)
            BY <1>4 DEF Sure
      <4>3. QED
            BY <1>2, <1>4, <4>1, <4>2 DEF Given
    <3>2. OrZero(leaves) = ledger.current
          BY <3>1, RightAt
    <3>3. QED
          BY <2>1, <3>2, SchemaAssumption DEF OrZero
  <2>3. PICK v : v = leaves + total
        OBVIOUS
  <2>4. v \in Int
        BY <1>4, <2>1, <2>3
  <2>5. /\ Return(d, a, <<SetValue(SetLeaf(CurrentLeaves, v))>>)
        /\ ledger' = [ledger EXCEPT !.current = v]
        BY <1>1, <1>2, <1>3, <1>5, <2>2, <2>3 DEF PlusTotal
  <2>6. QED
        BY <1>1, <1>4, <2>4, <2>5, CurrentWritten
<1>6. CASE leaves = Absent
  <2>1. Return(d, a, <<>>) /\ UNCHANGED <<ledger, today>>
        BY <1>1, <1>2, <1>6
  <2>2. QED
        BY <1>4, <2>1, NothingWritten
<1>7. QED
      BY <1>5, <1>6

LEMMA GotRewardAllTimeTurns ==
    ASSUME NEW alone, Inv(alone), NEW d \in Device, TurnInv, CacheGood(d), GotRewardAllTime(d)
    PROVE  TurnInv' /\ Accounted(d)
<1>1. PICK a \in AnswersTo(d, "rewardAllTime") :
            /\ Return(d, a,
                IF a.snap[AllTimeLeaves] = Absent THEN <<>>
                ELSE <<SetValue(SetLeaf(AllTimeLeaves,
                          PlusTotal(a.snap[AllTimeLeaves], a.then.total)))>>)
            /\ ledger' = IF a.snap[AllTimeLeaves] = Absent THEN ledger
                         ELSE [ledger EXCEPT !.allTime = @ + a.then.total]
            /\ today' = today
      BY DEF GotRewardAllTime
<1>2. PICK leaves : leaves = a.snap[AllTimeLeaves]
      OBVIOUS
<1>3. PICK total : total = a.then.total
      OBVIOUS
<1>4. /\ a \in Answers(d) /\ AllTimeLeaves \in Holds(a.then)
      /\ leaves \in Money \cup {Absent} /\ total \in Nat
      /\ AllTimeLeaves \in DOMAIN a.snap
  <2>1. /\ a.then \in Tag /\ a.then.op = "rewardAllTime" /\ a \in Answers(d)
        /\ a.snap \in Patch(Known(alone, ledger), Asked(a.then))
        BY BlockFacts DEF AnswersTo
  <2>2. a.snap \in Patch(Known(alone, ledger), {AllTimeLeaves}) /\ total \in Nat
        BY <1>3, <2>1, TagFields
  <2>3. leaves \in Known(alone, ledger)[AllTimeLeaves] /\ AllTimeLeaves \in DOMAIN a.snap
        BY <1>2, <2>2 DEF Patch
  <2>4. AllTimeLeaves \in Holds(a.then)
        BY <2>1 DEF Holds
  <2>5. leaves \in Money \cup {Absent}
        BY <2>3, KnownLeaves
  <2>6. QED
        BY <2>1, <2>2, <2>3, <2>4, <2>5
<1>5. CASE leaves # Absent
  <2>1. leaves \in Int
        BY <1>4, <1>5, MoneyIsInt
  <2>2. leaves = ledger.allTime
    <3>1. Right(ledger, AllTimeLeaves, leaves)
      <4>1. Given(ledger, a)
            BY <1>4, AnswerTaken
      <4>2. AllTimeLeaves \in Sure(a.then)
            BY <1>4 DEF Sure
      <4>3. QED
            BY <1>2, <1>4, <4>1, <4>2 DEF Given
    <3>2. OrZero(leaves) = ledger.allTime
          BY <3>1, RightAt
    <3>3. QED
          BY <2>1, <3>2, SchemaAssumption DEF OrZero
  <2>3. PICK v : v = leaves + total
        OBVIOUS
  <2>4. v \in Int
        BY <1>4, <2>1, <2>3
  <2>5. /\ Return(d, a, <<SetValue(SetLeaf(AllTimeLeaves, v))>>)
        /\ ledger' = [ledger EXCEPT !.allTime = v]
        BY <1>1, <1>2, <1>3, <1>5, <2>2, <2>3 DEF PlusTotal
  <2>6. /\ ledger'.allTime = v /\ ledger'.current = ledger.current
        /\ ledger'.goods = ledger.goods /\ ledger'.rewards = ledger.rewards
    <3>1. ledger \in Book
          BY DEF Inv, WalletInv
    <3>2. QED
          BY <2>5, <3>1 DEF Book
  <2>7. Right(ledger', AllTimeLeaves, v)
    <3>1. OrZero(v) = v
          BY <2>4, SchemaAssumption DEF OrZero
    <3>2. QED
          BY <2>6, <3>1, RightAt
  <2>8. ASSUME NEW m \in Kept \ {AllTimeLeaves}, NEW w, Right(ledger, m, w)
        PROVE  Right(ledger', m, w)
        BY <2>6, <2>8, RightStays DEF Rewarded
  <2>9. QED
        BY <1>1, <1>4, <2>5, <2>6, <2>7, <2>8, LeafWritten
<1>6. CASE leaves = Absent
  <2>1. Return(d, a, <<>>) /\ UNCHANGED <<ledger, today>>
        BY <1>1, <1>2, <1>6
  <2>2. QED
        BY <1>4, <2>1, NothingWritten
<1>7. QED
      BY <1>5, <1>6

LEMMA GotUserTurns ==
    ASSUME NEW alone, Inv(alone), NEW d \in Device, TurnInv, CacheGood(d), GotUser(d)
    PROVE  TurnInv' /\ Accounted(d)
<1> DEFINE sums(a) == [l \in {CurrentLeaves, AllTimeLeaves} |->
                (IF l = CurrentLeaves THEN a.snap[CurrentLeaves] ELSE a.snap[AllTimeLeaves])
                + a.then.leaves]
<1>1. PICK a \in AnswersTo(d, "redeem") :
        /\ Exists(a.snap) => a.snap[CurrentLeaves] # Absent /\ a.snap[AllTimeLeaves] # Absent
        /\ Return(d, a, IF Exists(a.snap) THEN <<SetValue(sums(a))>> ELSE <<>>)
        /\ ledger' = IF Exists(a.snap)
                     THEN [ledger EXCEPT !.current = @ + a.then.leaves,
                                         !.allTime = @ + a.then.leaves,
                                         !.redeemed = @ + a.then.leaves]
                     ELSE ledger
        /\ today' = today
      BY DEF GotUser
<1>2. PICK current : current = a.snap[CurrentLeaves]
      OBVIOUS
<1>3. PICK allTime : allTime = a.snap[AllTimeLeaves]
      OBVIOUS
<1>4. PICK gain : gain = a.then.leaves
      OBVIOUS
<1>5. /\ a \in Answers(d) /\ Holds(a.then) = {CurrentLeaves, AllTimeLeaves}
      /\ gain \in Int /\ current \in Int \cup {Absent} /\ allTime \in Int \cup {Absent}
      /\ CurrentLeaves \in DOMAIN a.snap /\ AllTimeLeaves \in DOMAIN a.snap
  <2>1. /\ a.then \in Tag /\ a.then.op = "redeem" /\ a \in Answers(d)
        /\ a.snap \in Patch(Known(alone, ledger), Asked(a.then))
        BY BlockFacts DEF AnswersTo
  <2>2. a.snap \in Patch(Known(alone, ledger), Leaf) /\ gain \in Money
        BY <1>4, <2>1, TagFields
  <2>3. /\ current \in Known(alone, ledger)[CurrentLeaves]
        /\ allTime \in Known(alone, ledger)[AllTimeLeaves]
        /\ CurrentLeaves \in DOMAIN a.snap /\ AllTimeLeaves \in DOMAIN a.snap
        BY <1>2, <1>3, <2>2, LeavesAreLeaves DEF Patch
  <2>4. Holds(a.then) = {CurrentLeaves, AllTimeLeaves}
        BY <2>1 DEF Holds
  <2>5. current \in Int \cup {Absent} /\ allTime \in Int \cup {Absent}
    <3>1. current \in Purse \cup {Absent}
          BY <2>3, KnownLeaves
    <3>2. allTime \in Money \cup {Absent}
          BY <2>3, KnownLeaves
    <3>3. QED
          BY <3>1, <3>2, MoneyIsInt, PurseIsInt
  <2>6. gain \in Int
        BY <2>2, MoneyIsInt
  <2>7. QED
        BY <2>1, <2>3, <2>4, <2>5, <2>6
<1>6. CASE Exists(a.snap)
  <2>1. current \in Int /\ allTime \in Int
        BY <1>1, <1>2, <1>3, <1>5, <1>6
  <2>2. /\ Right(ledger, CurrentLeaves, current)
        /\ Right(ledger, AllTimeLeaves, allTime)
    <3>1. Given(ledger, a)
          BY <1>5, AnswerTaken
    <3>2. CurrentLeaves \in Sure(a.then) /\ AllTimeLeaves \in Sure(a.then)
          BY <1>5 DEF Sure
    <3>3. QED
          BY <1>2, <1>3, <1>5, <3>1, <3>2 DEF Given
  <2>3. current = ledger.current /\ allTime = ledger.allTime
    <3>1. OrZero(current) = ledger.current /\ OrZero(allTime) = ledger.allTime
          BY <2>2, RightAt
    <3>2. QED
          BY <2>1, <3>1, SchemaAssumption DEF OrZero
  <2>4. PICK w : w = sums(a)
        OBVIOUS
  <2>5. /\ DOMAIN w = {CurrentLeaves, AllTimeLeaves}
        /\ w[CurrentLeaves] = current + gain /\ w[AllTimeLeaves] = allTime + gain
        BY <1>2, <1>3, <1>4, <2>4, LeavesApart
  <2>6. /\ ledger'.current = ledger.current + gain /\ ledger'.allTime = ledger.allTime + gain
        /\ ledger'.goods = ledger.goods /\ ledger'.rewards = ledger.rewards
    <3>1. ledger \in Book
          BY DEF Inv, WalletInv
    <3>2. ledger' = [ledger EXCEPT !.current = @ + gain, !.allTime = @ + gain,
                                   !.redeemed = @ + gain]
          BY <1>1, <1>4, <1>6
    <3>3. QED
          BY <3>1, <3>2 DEF Book
  <2>7. \A l \in DOMAIN w : Right(ledger', l, w[l])
    <3>1. w[CurrentLeaves] \in Int /\ w[AllTimeLeaves] \in Int
          BY <1>5, <2>1, <2>5
    <3>2. /\ OrZero(w[CurrentLeaves]) = ledger'.current
          /\ OrZero(w[AllTimeLeaves]) = ledger'.allTime
          BY <2>3, <2>5, <2>6, <3>1, SchemaAssumption DEF OrZero
    <3>3. QED
          BY <2>5, <3>2, RightAt
  <2>8. ASSUME NEW m \in Kept \ DOMAIN w, NEW v, Right(ledger, m, v)
        PROVE  Right(ledger', m, v)
        BY <2>5, <2>6, <2>8, RightStays DEF Rewarded
  <2>9. DisplayName \notin DOMAIN w
        BY <2>5, LeavesApart
  <2>10. Rewarded(ledger') = Rewarded(ledger)
         BY <2>6 DEF Rewarded
  <2>11. Fits(ledger, ledger', today, Holds(a.then), <<SetValue(w)>>)
         BY <1>5, <2>5, <2>7, <2>8, <2>9, <2>10, WriteFits
  <2>12. Counted'
         BY <1>1, <2>6 DEF TurnInv, Counted
  <2>13. PICK x : x = SetValue(w)
         OBVIOUS
  <2>14. PICK calls \in Seq({x}) : calls = <<x>>
         BY OneCall
  <2>15. Return(d, a, calls)
    <3>1. Return(d, a, <<SetValue(sums(a))>>)
          BY <1>1, <1>6
    <3> HIDE DEF sums
    <3>2. QED
          BY <2>4, <2>13, <2>14, <3>1
  <2>16. Fits(ledger, ledger', today, Holds(a.then), calls)
         BY <2>11, <2>13, <2>14
  <2>17. QED
         BY <1>1, <1>5, <2>12, <2>15, <2>16, BlockTurns
<1>7. CASE ~Exists(a.snap)
  <2>1. Return(d, a, <<>>) /\ UNCHANGED <<ledger, today>>
        BY <1>1, <1>7
  <2>2. QED
        BY <1>5, <2>1, NothingWritten
<1>8. QED
      BY <1>6, <1>7

\* What a claim dispatches: the date is written, and the two sums may be read.
OfClaim(v, day) ==
    /\ Sole(v)
    /\ Claims(v) \subseteq {CurrentLeaves, AllTimeLeaves}
    /\ Covers(v) = {LastVisitedDate}
    /\ \A x \in Elements(v) :
          /\ x.kind # "listen"
          /\ x.kind = "put" => x.write = SetLeaf(LastVisitedDate, day)
          /\ x.kind \in {"get", "reply"} => x.then.op # "claimDate"

LEMMA ClaimCallsHold ==
    ASSUME NEW d, NEW last, NEW day
    PROVE  \E S : \E v \in Seq(S) : v = ClaimCalls(d, last, day) /\ OfClaim(v, day)
<1>1. PICK x : x = SetValue(SetLeaf(LastVisitedDate, day))
      OBVIOUS
<1>2. PICK t1 : t1 = [op |-> "rewardCurrent", total |-> Yield(activeItems[d])]
      OBVIOUS
<1>3. PICK t2 : t2 = [op |-> "rewardAllTime", total |-> Yield(activeItems[d])]
      OBVIOUS
<1>4. PICK y : y = GetData({CurrentLeaves}, t1)
      OBVIOUS
<1>5. PICK z : z = GetData({AllTimeLeaves}, t2)
      OBVIOUS
<1>6. /\ x.kind = "put" /\ x.write = SetLeaf(LastVisitedDate, day)
      /\ Hold(x) = {} /\ Cover(x) = {LastVisitedDate}
  <2>1. DOMAIN SetLeaf(LastVisitedDate, day) = {LastVisitedDate}
        BY DEF SetLeaf
  <2>2. QED
        BY <1>1, <2>1, PutCovers
<1>7. /\ y.kind = "get" /\ y.then = t1 /\ Hold(y) = {CurrentLeaves} /\ Cover(y) = {}
      /\ t1.op = "rewardCurrent"
  <2>1. t1.op = "rewardCurrent"
        BY <1>2
  <2>2. Holds(t1) = {CurrentLeaves}
        BY <2>1 DEF Holds
  <2>3. QED
        BY <1>4, <2>1, <2>2, GetHolds
<1>8. /\ z.kind = "get" /\ z.then = t2 /\ Hold(z) = {AllTimeLeaves} /\ Cover(z) = {}
      /\ t2.op = "rewardAllTime"
  <2>1. t2.op = "rewardAllTime"
        BY <1>3
  <2>2. Holds(t2) = {AllTimeLeaves}
        BY <2>1 DEF Holds
  <2>3. QED
        BY <1>5, <2>1, <2>2, GetHolds
<1>9. PICK S : S = {x, y, z}
      OBVIOUS
<1>10. PICK p \in Seq(S) : /\ p = <<x>> /\ Elements(p) = {x} /\ Sole(p)
                           /\ Claims(p) = {} /\ Covers(p) = {LastVisitedDate}
  <2>1. PICK p : p = <<x>>
        OBVIOUS
  <2>2. p \in Seq(S)
        BY <1>9, <2>1
  <2>3. Elements(p) = {x} /\ Sole(p) /\ Claims(p) = Hold(x) /\ Covers(p) = Cover(x)
        BY <2>1, OneCall
  <2>4. QED
        BY <1>6, <2>1, <2>2, <2>3
<1>11. PICK c \in Seq(S) : /\ c = <<y, z>> /\ Elements(c) = {y, z} /\ Sole(c)
                           /\ Claims(c) = {CurrentLeaves, AllTimeLeaves} /\ Covers(c) = {}
  <2>1. PICK c : c = <<y, z>>
        OBVIOUS
  <2>2. c \in Seq(S)
        BY <1>9, <2>1
  <2>3. Hold(y) \cap Hold(z) = {}
        BY <1>7, <1>8, LeavesApart
  <2>4. /\ Elements(c) = {y, z} /\ Sole(c)
        /\ Claims(c) = Hold(y) \cup Hold(z) /\ Covers(c) = Cover(y) \cup Cover(z)
        BY <2>1, <2>3, TwoCalls
  <2>5. Claims(c) = {CurrentLeaves, AllTimeLeaves} /\ Covers(c) = {}
        BY <1>7, <1>8, <2>4
  <2>6. QED
        BY <2>1, <2>2, <2>4, <2>5
<1>12. PICK v1 \in Seq(S) : v1 = p \o c /\ Joined(p, c, v1)
       BY ConcatIsJoined
<1>13. PICK v2 \in Seq(S) : v2 = c \o p /\ Joined(c, p, v2)
       BY ConcatIsJoined
<1>14. /\ Sole(v1) /\ Sole(v2)
       /\ Elements(v1) = {x, y, z} /\ Elements(v2) = {x, y, z}
       /\ Claims(v1) = {CurrentLeaves, AllTimeLeaves}
       /\ Claims(v2) = {CurrentLeaves, AllTimeLeaves}
       /\ Covers(v1) = {LastVisitedDate} /\ Covers(v2) = {LastVisitedDate}
  <2>1. /\ Claims(v1) = Claims(p) \cup Claims(c) /\ Covers(v1) = Covers(p) \cup Covers(c)
        /\ Claims(v2) = Claims(c) \cup Claims(p) /\ Covers(v2) = Covers(c) \cup Covers(p)
        BY <1>12, <1>13, JoinedFacts
  <2>2. QED
        BY <1>10, <1>11, <1>12, <1>13, <2>1 DEF Joined
<1>15. ClaimCalls(d, last, day) \in {v1, v2, p}
  <2>1. Calculate(d) = c
        BY <1>2, <1>3, <1>4, <1>5, <1>11 DEF Calculate
  <2>2. SetDate(day) = p
        BY <1>1, <1>10 DEF SetDate
  <2>3. QED
        BY <1>12, <1>13, <2>1, <2>2 DEF ClaimCalls
<1>16. \A u \in {x, y, z} : /\ u.kind # "listen"
                            /\ u.kind = "put" => u.write = SetLeaf(LastVisitedDate, day)
                            /\ u.kind \in {"get", "reply"} => u.then.op # "claimDate"
       BY <1>6, <1>7, <1>8
<1>17. PICK v : v = ClaimCalls(d, last, day)
       OBVIOUS
<1>18. /\ v \in Seq(S) /\ Sole(v)
       /\ Claims(v) \subseteq {CurrentLeaves, AllTimeLeaves}
       /\ Covers(v) = {LastVisitedDate} /\ Elements(v) \subseteq {x, y, z}
  <2>1. CASE v = v1
        BY <1>14, <2>1
  <2>2. CASE v = v2
        BY <1>14, <2>2
  <2>3. CASE v = p
        BY <1>10, <2>3
  <2>4. QED
        BY <1>15, <1>17, <2>1, <2>2, <2>3
<1>19. QED
       BY <1>16, <1>17, <1>18 DEF OfClaim

\* The reward of a day is granted when the date in the record is another day's:
\* one before it.
LEMMA GotClaimDateTurns ==
    ASSUME NEW alone, Inv(alone), NEW d \in Device, TurnInv, CacheGood(d), GotClaimDate(d)
    PROVE  TurnInv' /\ Accounted(d)
<1>1. PICK a \in AnswersTo(d, "claimDate") :
            /\ Return(d, a, ClaimCalls(d, a.snap[LastVisitedDate], a.then.day))
            /\ ledger' = [ledger EXCEPT !.rewards[a.then.day] =
                            IF a.snap[LastVisitedDate] # a.then.day THEN @ + 1 ELSE @]
            /\ today' = today
      BY DEF GotClaimDate
<1>2. PICK last : last = a.snap[LastVisitedDate]
      OBVIOUS
<1>3. PICK day : day = a.then.day
      OBVIOUS
<1>4. /\ a \in Answers(d) /\ day \in Day
      /\ Holds(a.then) = {LastVisitedDate, CurrentLeaves, AllTimeLeaves}
      /\ LastVisitedDate \in DOMAIN a.snap /\ a.then.op = "claimDate"
  <2>1. /\ a.then \in Tag /\ a.then.op = "claimDate" /\ a \in Answers(d)
        /\ a.snap \in Patch(Known(alone, ledger), Asked(a.then))
        BY BlockFacts DEF AnswersTo
  <2>2. a.snap \in Patch(Known(alone, ledger), {LastVisitedDate}) /\ day \in Day
        BY <1>3, <2>1, TagFields
  <2>3. LastVisitedDate \in DOMAIN a.snap
        BY <2>2 DEF Patch
  <2>4. Holds(a.then) = {LastVisitedDate, CurrentLeaves, AllTimeLeaves}
        BY <2>1 DEF Holds
  <2>5. QED
        BY <2>1, <2>2, <2>3, <2>4
<1>5. PICK R : R = Rewarded(ledger)
      OBVIOUS
<1>6. R \subseteq Day /\ Day \subseteq Int
      BY <1>5 DEF Rewarded, Day
<1>7. /\ day <= today /\ \A s \in R : s <= day
      /\ R # {} => last \in R /\ \A t \in R : t <= last
  <2>1. Given(ledger, a) /\ Timely(ledger, today, a.then)
        BY <1>4, AnswerTaken
  <2>2. LastVisitedDate \in Sure(a.then)
        BY <1>4 DEF Sure
  <2>3. Dated(ledger, last)
        BY <1>2, <1>4, <2>1, <2>2, RightAt DEF Given
  <2>4. QED
        BY <1>3, <1>4, <1>5, <2>1, <2>3 DEF Timely, Dated
<1>8. /\ ledger'.current = ledger.current /\ ledger'.allTime = ledger.allTime
      /\ ledger'.goods = ledger.goods
      /\ ledger'.rewards = [ledger.rewards EXCEPT ![day] = IF last # day THEN @ + 1 ELSE @]
      /\ ledger.rewards \in [Day -> Nat]
  <2>1. ledger \in Book
        BY DEF Inv, WalletInv
  <2>2. QED
        BY <1>1, <1>2, <1>3, <2>1 DEF Book
<1>9. last # day => day \notin R
  <2>1. ASSUME day \in R
        PROVE  last = day
    <3>1. last \in R /\ day <= last /\ last <= day
          BY <1>7, <2>1
    <3>2. QED
          BY <1>4, <1>6, <3>1
  <2>2. QED
        BY <2>1
<1>10. /\ Rewarded(ledger') = IF last # day THEN R \cup {day} ELSE R
       /\ last # day => ledger'.rewards[day] = 1
  <2>1. last # day => ledger.rewards[day] = 0
        BY <1>4, <1>5, <1>8, <1>9 DEF Rewarded
  <2>2. last # day => ledger'.rewards[day] = 1
        BY <1>4, <1>8, <2>1
  <2>3. \A t \in Day \ {day} : ledger'.rewards[t] = ledger.rewards[t]
        BY <1>8
  <2>4. last = day => ledger'.rewards[day] = ledger.rewards[day]
        BY <1>4, <1>8
  <2>5. \A t \in Day : ledger'.rewards[t] >= 1 <=>
                          (ledger.rewards[t] >= 1 \/ (last # day /\ t = day))
        BY <2>2, <2>3, <2>4
  <2>6. QED
        BY <1>4, <1>5, <2>2, <2>5 DEF Rewarded
<1>11. Counted'
  <2> SUFFICES ASSUME NEW t \in Day
               PROVE  ledger'.rewards[t] <= 1 /\ (ledger'.rewards[t] >= 1 => t <= today)
      BY <1>1 DEF Counted
  <2>1. ledger.rewards[t] <= 1 /\ (ledger.rewards[t] >= 1 => t <= today)
        BY DEF TurnInv, Counted
  <2>2. CASE t = day /\ last # day
        BY <1>7, <1>10, <2>2
  <2>3. CASE ~(t = day /\ last # day)
    <3>1. ledger'.rewards[t] = ledger.rewards[t]
          BY <1>4, <1>8, <2>3
    <3>2. QED
          BY <2>1, <3>1
  <2>4. QED
        BY <2>2, <2>3
<1>12. Dated(ledger', day)
  <2>1. CASE last # day
    <3>1. day <= day
          BY <1>4, <1>6
    <3>2. QED
          BY <1>7, <1>10, <2>1, <3>1 DEF Dated
  <2>2. CASE last = day
        BY <1>7, <1>10, <2>2 DEF Dated
  <2>3. QED
        BY <2>1, <2>2
<1>13. PICK S : \E v \in Seq(S) : v = ClaimCalls(d, last, day) /\ OfClaim(v, day)
       BY ClaimCallsHold
<1>14. PICK v \in Seq(S) : v = ClaimCalls(d, last, day) /\ OfClaim(v, day)
       BY <1>13
<1>15. Fits(ledger, ledger', today, Holds(a.then), v)
  <2>1. LastVisitedDate \notin {CurrentLeaves, AllTimeLeaves} /\ LastVisitedDate # DisplayName
        BY LeavesApart DEF LastVisitedDate, DisplayName
  <2>2. PutsRight(ledger', v)
    <3>1. ASSUME NEW x \in Elements(v), NEW l \in Cover(x) \cap Kept
          PROVE  Right(ledger', l, x.write[l])
      <4>1. x.kind = "put" /\ l = LastVisitedDate
            BY <1>14, <3>1, ClaimsOf DEF Cover, OfClaim
      <4>2. x.write[l] = day
            BY <1>14, <4>1 DEF SetLeaf, OfClaim
      <4>3. QED
            BY <1>12, <4>1, <4>2, RightAt
    <3>2. QED
          BY <3>1 DEF PutsRight
  <2>3. TagsTimely(ledger', today, v)
        BY <1>14 DEF TagsTimely, Timely, OfClaim
  <2>4. ASSUME NEW l \in Kept \ {LastVisitedDate}, NEW w, Right(ledger, l, w)
        PROVE  Right(ledger', l, w)
        BY <1>8, <2>4, RightStays
  <2>5. QED
        BY <1>4, <1>10, <1>14, <2>1, <2>2, <2>3, <2>4 DEF Fits, Mute, OfClaim
<1>16. Return(d, a, v)
       BY <1>1, <1>2, <1>3, <1>14
<1>17. QED
       BY <1>1, <1>4, <1>11, <1>15, <1>16, BlockTurns

\* The blocks of the login screen: the account has a name, so none is made.
LEMMA GotDisplayNameTurns ==
    ASSUME NEW alone, Inv(alone), NEW d \in Device, TurnInv, CacheGood(d), GotDisplayName(d),
           UNCHANGED <<ledger, today>>
    PROVE  TurnInv' /\ Accounted(d)
<1>1. PICK y : y = GetData(InventoryLeaves, InventoryAnswer)
      OBVIOUS
<1>2. PICK z : z = GetData(ActiveLeaves, ActiveAnswer)
      OBVIOUS
<1>3. PICK a \in AnswersTo(d, "displayName") :
         Return(d, a, IF Exists(a.snap) THEN <<y, z>> ELSE <<SetValue(NewAccount)>>)
      BY <1>1, <1>2 DEF GotDisplayName
<1>4. a \in Answers(d) /\ DisplayName \in DOMAIN a.snap
  <2>1. /\ a.then \in Tag /\ a.then.op = "displayName" /\ a \in Answers(d)
        /\ a.snap \in Patch(Known(alone, ledger), Asked(a.then))
        BY BlockFacts DEF AnswersTo
  <2>2. DOMAIN a.snap = {DisplayName}
        BY <2>1 DEF Patch, Asked
  <2>3. QED
        BY <2>1, <2>2
<1>5. Exists(a.snap)
  <2>1. Given(ledger, a)
        BY <1>4, AnswerTaken
  <2>2. Right(ledger, DisplayName, a.snap[DisplayName])
        BY <1>4, <2>1 DEF Given, Sure
  <2>3. a.snap[DisplayName] # Absent
        BY <2>2, RightAt
  <2>4. QED
        BY <1>4, <2>3 DEF Exists
<1>6. /\ y.kind = "get" /\ Hold(y) = {} /\ y.then.op = "inventory"
      /\ z.kind = "get" /\ Hold(z) = {} /\ z.then.op = "activeItems"
  <2>1. InventoryAnswer.op = "inventory" /\ ActiveAnswer.op = "activeItems"
        BY DEF InventoryAnswer, ActiveAnswer
  <2>2. Holds(InventoryAnswer) = {} /\ Holds(ActiveAnswer) = {}
        BY <2>1 DEF Holds
  <2>3. QED
        BY <1>1, <1>2, <2>1, <2>2, GetHolds
<1>7. PICK calls \in Seq({y, z}) : calls = <<y, z>> /\ Elements(calls) = {y, z}
      BY TwoCalls
<1>8. Fits(ledger, ledger', today, Holds(a.then), calls)
      BY <1>6, <1>7, InertFits
<1>9. Return(d, a, calls)
      BY <1>3, <1>5, <1>7
<1>10. Counted'
       BY DEF TurnInv, Counted
<1>11. QED
       BY <1>4, <1>8, <1>9, <1>10, BlockTurns

LEMMA SilentBlockTurns ==
    ASSUME NEW alone, Inv(alone), NEW d \in Device, TurnInv, CacheGood(d),
           GotInventory(d) \/ GotActiveItems(d), UNCHANGED <<ledger, today>>
    PROVE  TurnInv' /\ Accounted(d)
<1>1. PICK a \in Answers(d) : Return(d, a, <<>>)
      BY DEF GotInventory, GotActiveItems, AnswersTo
<1>2. QED
      BY <1>1, NothingWritten

-----------------------------------------------------------------------------
(* The handlers.                                                           *)

LEMMA BuyOnClickTurns ==
    ASSUME NEW alone, Inv(alone), NEW d \in Device, TurnInv, ~Overlap, NEW c \in Cell,
           BuyOnClick(d, c)
    PROVE  TurnInv' /\ Accounted(d)
<1>1. PICK t1 : t1 = [op |-> "buyLeaves", n |-> Op(d), cell |-> c]
      OBVIOUS
<1>2. PICK t2 : t2 = [op |-> "buyItem", n |-> Op(d), cell |-> c,
                      leaf |-> Inventory(shelf[d][c])]
      OBVIOUS
<1>3. PICK y : y = GetData({CurrentLeaves}, t1)
      OBVIOUS
<1>4. PICK z : z = GetData({Inventory(shelf[d][c])}, t2)
      OBVIOUS
<1>5. /\ Patient(d) /\ Dispatch(d, <<y, z>>) /\ UNCHANGED <<ledger, today>>
      BY <1>1, <1>2, <1>3, <1>4 DEF BuyOnClick, MayStart, MayAct, LeavesCall, ItemCall,
         historyVars
<1>6. t1.op = "buyLeaves" /\ t2.op = "buyItem"
      BY <1>1, <1>2
<1>7. /\ y.kind = "get" /\ y.then = t1 /\ Hold(y) = {CurrentLeaves} /\ Cover(y) = {}
      /\ z.kind = "get" /\ z.then = t2 /\ Hold(z) = InventoryLeaves /\ Cover(z) = {}
  <2>1. Holds(t1) = {CurrentLeaves} /\ Holds(t2) = InventoryLeaves
        BY <1>6 DEF Holds
  <2>2. QED
        BY <1>3, <1>4, <2>1, GetHolds
<1>8. PICK calls : calls = <<y, z>>
      OBVIOUS
<1>9. calls \in Seq({y, z}) /\ Elements(calls) = {y, z} /\ Sole(calls)
      /\ Claims(calls) = {CurrentLeaves} \cup InventoryLeaves /\ Covers(calls) = {}
  <2>1. CurrentLeaves \notin InventoryLeaves
        BY LeavesApart DEF InventoryLeaves, Profile
  <2>2. QED
        BY <1>7, <1>8, <2>1, TwoCalls
<1>10. Fits(ledger, ledger, today, Leaf, calls)
  <2>1. Claims(calls) \cup Covers(calls) \subseteq Leaf
        BY <1>9, LeavesAreLeaves
  <2>2. PutsRight(ledger, calls)
        BY <1>7, <1>9 DEF PutsRight
  <2>3. TagsTimely(ledger, today, calls)
        BY <1>6, <1>7, <1>9 DEF TagsTimely, Timely
  <2>4. QED
        BY <1>7, <1>9, <2>1, <2>2, <2>3 DEF Fits, Mute
<1>11. QED
       BY <1>5, <1>8, <1>9, <1>10, HandlerTurns

LEMMA ClaimOnClickTurns ==
    ASSUME NEW alone, Inv(alone), NEW d \in Device, TurnInv, ~Overlap, ClaimOnClick(d)
    PROVE  TurnInv' /\ Accounted(d)
<1>1. PICK t : t = [op |-> "claimDate", day |-> today]
      OBVIOUS
<1>2. PICK y : y = GetData({LastVisitedDate}, t)
      OBVIOUS
<1>3. /\ Patient(d) /\ Dispatch(d, <<y>>) /\ UNCHANGED <<ledger, today>>
      BY <1>1, <1>2 DEF ClaimOnClick, MayStart, MayAct, historyVars
<1>4. t.op = "claimDate" /\ t.day = today
      BY <1>1
<1>5. /\ y.kind = "get" /\ y.then = t /\ Cover(y) = {}
      /\ Hold(y) = {LastVisitedDate, CurrentLeaves, AllTimeLeaves}
  <2>1. Holds(t) = {LastVisitedDate, CurrentLeaves, AllTimeLeaves}
        BY <1>4 DEF Holds
  <2>2. QED
        BY <1>2, <2>1, GetHolds
<1>6. PICK calls : calls = <<y>>
      OBVIOUS
<1>7. calls \in Seq({y}) /\ Elements(calls) = {y} /\ Sole(calls)
      /\ Claims(calls) = {LastVisitedDate, CurrentLeaves, AllTimeLeaves} /\ Covers(calls) = {}
      BY <1>5, <1>6, OneCall
<1>8. Fits(ledger, ledger, today, Leaf, calls)
  <2>1. Claims(calls) \cup Covers(calls) \subseteq Leaf
        BY <1>7, LeavesAreLeaves
  <2>2. PutsRight(ledger, calls)
        BY <1>5, <1>7 DEF PutsRight
  <2>3. Timely(ledger, today, t)
    <3>1. today \in Int
          BY DEF Inv, WalletInv, Day
    <3>2. \A s \in Rewarded(ledger) : s <= today
          BY DEF TurnInv, Counted, Rewarded
    <3>3. QED
          BY <1>4, <3>1, <3>2 DEF Timely
  <2>4. TagsTimely(ledger, today, calls)
        BY <1>5, <1>7, <2>3 DEF TagsTimely
  <2>5. QED
        BY <1>5, <1>7, <2>1, <2>2, <2>4 DEF Fits, Mute
<1>9. QED
      BY <1>3, <1>6, <1>7, <1>8, HandlerTurns

\* The rows of the history are nobody's to hold, and no block relies on them.
LEMMA RedeemButtonPressedTurns ==
    ASSUME NEW alone, Inv(alone), NEW d \in Device, TurnInv, ~Overlap,
           NEW form \in [Entry -> Quantity], RedeemButtonPressed(d, form)
    PROVE  TurnInv' /\ Accounted(d)
<1>1. PICK t : t = [op |-> "redeem", leaves |-> Worth(form)]
      OBVIOUS
<1>2. PICK y : y = GetData(Leaf, t)
      OBVIOUS
<1>3. PICK order \in Ascending(Recycled(form)) :
         Dispatch(d,
           [i \in DOMAIN order |->
                SetValue(SetLeaf(History(d, Op(d), order[i]), form[order[i]]))]
           \o (IF Worth(form) = 0 THEN <<>> ELSE <<y>>))
      BY <1>1, <1>2 DEF RedeemButtonPressed
<1>4. PICK puts : puts = [i \in DOMAIN order |->
                SetValue(SetLeaf(History(d, Op(d), order[i]), form[order[i]]))]
      OBVIOUS
<1>5. PICK get : get = IF Worth(form) = 0 THEN <<>> ELSE <<y>>
      OBVIOUS
<1>6. Patient(d) /\ Dispatch(d, puts \o get) /\ UNCHANGED <<ledger, today>>
      BY <1>3, <1>4, <1>5 DEF RedeemButtonPressed, MayStart, MayAct, historyVars
<1>7. Op(d) \in 1..MaxOps
      BY StartKeeps DEF RedeemButtonPressed, Inv
<1>8. order \in Seq(Entry) /\ DOMAIN order = 1..Len(order) /\ Len(order) \in Nat
  <2>1. IsFiniteSet(Recycled(form))
        BY SchemaAssumption, FS_Subset DEF Recycled
  <2>2. order \in Seq(Recycled(form))
        BY <2>1, OrdersAreSequences DEF Ascending
  <2>3. QED
        BY <2>2, SeqMonotonic DEF Recycled
<1>9. ASSUME NEW x \in Elements(puts)
      PROVE  x.kind = "put" /\ Cover(x) \subseteq HistoryLeaves
  <2>1. PICK i \in DOMAIN order :
            x = SetValue(SetLeaf(History(d, Op(d), order[i]), form[order[i]]))
        BY <1>4, <1>9 DEF Elements
  <2>2. PICK l : l = History(d, Op(d), order[i])
        OBVIOUS
  <2>3. PICK w : w = SetLeaf(l, form[order[i]])
        OBVIOUS
  <2>4. order[i] \in Entry
        BY <1>8
  <2>5. l \in HistoryLeaves
        BY <1>7, <2>2, <2>4 DEF HistoryLeaves
  <2>6. DOMAIN w = {l}
        BY <2>3 DEF SetLeaf
  <2>7. QED
        BY <2>1, <2>2, <2>3, <2>5, <2>6, PutCovers
<1>10. /\ Claims(puts) = {} /\ Sole(puts) /\ Covers(puts) \subseteq HistoryLeaves
  <2>1. \A x \in Elements(puts) : x.kind \notin {"get", "reply"}
        BY <1>9
  <2>2. QED
        BY <1>9, <2>1, InertQueue DEF Covers
<1>11. t.op = "redeem"
       BY <1>1
<1>12. y.kind = "get" /\ y.then = t /\ Hold(y) = {CurrentLeaves, AllTimeLeaves} /\ Cover(y) = {}
  <2>1. Holds(t) = {CurrentLeaves, AllTimeLeaves}
        BY <1>11 DEF Holds
  <2>2. QED
        BY <1>2, <2>1, GetHolds
<1>13. /\ Elements(get) \subseteq {y} /\ Claims(get) \subseteq {CurrentLeaves, AllTimeLeaves}
       /\ Covers(get) = {} /\ Sole(get) /\ get \in Seq({y})
  <2>1. CASE get = <<>>
        BY <2>1, NothingQueued, EmptySeq
  <2>2. CASE get = <<y>>
        BY <1>12, <2>2, OneCall
  <2>3. QED
        BY <1>5, <2>1, <2>2
<1>14. PICK S : S = Elements(puts) \cup {y}
       OBVIOUS
<1>15. puts \in Seq(S) /\ get \in Seq(S)
  <2>1. \A i \in DOMAIN puts : puts[i] \in S
        BY <1>14 DEF Elements
  <2>2. puts \in Seq(S)
        BY <1>4, <1>8, <2>1
  <2>3. get \in Seq(S)
        BY <1>13, <1>14
  <2>4. QED
        BY <2>2, <2>3
<1>16. PICK calls \in Seq(S) : calls = puts \o get /\ Joined(puts, get, calls)
       BY <1>15, ConcatIsJoined
<1>17. /\ Elements(calls) = Elements(puts) \cup Elements(get) /\ Sole(calls)
       /\ Claims(calls) \subseteq {CurrentLeaves, AllTimeLeaves}
       /\ Covers(calls) \subseteq HistoryLeaves
  <2>1. Claims(calls) = Claims(puts) \cup Claims(get) /\ Covers(calls) = Covers(puts) \cup Covers(get)
        BY <1>16, JoinedFacts
  <2>2. QED
        BY <1>10, <1>13, <1>16, <2>1 DEF Joined
<1>18. HistoryLeaves \cap (Kept \cup {CurrentLeaves, AllTimeLeaves}) = {}
  <2>1. ASSUME NEW l \in HistoryLeaves
        PROVE  l \notin Profile \cup InventoryLeaves
    <3>1. PICK e \in Device, n \in 1..MaxOps, i \in Entry : l = History(e, n, i)
          BY <2>1 DEF HistoryLeaves
    <3>2. QED
          BY <3>1, LeavesApart DEF InventoryLeaves
  <2>2. Kept \cup {CurrentLeaves, AllTimeLeaves} \subseteq Profile \cup InventoryLeaves
        BY DEF Kept, Ledgered, Profile
  <2>3. QED
        BY <2>1, <2>2
<1>19. Fits(ledger, ledger, today, Leaf, calls)
  <2>1. Claims(calls) \cup Covers(calls) \subseteq Leaf
        BY <1>17, LeavesAreLeaves DEF Leaf
  <2>2. \A x \in Elements(calls) : Cover(x) \cap Kept = {}
    <3>1. \A x \in Elements(calls) : Cover(x) \subseteq HistoryLeaves
          BY <1>17, ClaimsOf
    <3>2. QED
          BY <1>18, <3>1
  <2>3. PutsRight(ledger, calls)
        BY <2>2 DEF PutsRight
  <2>4. ASSUME NEW x \in Elements(calls), x.kind \in {"get", "reply"}
        PROVE  Timely(ledger, today, x.then)
    <3>1. x = y
          BY <1>9, <1>13, <1>17, <2>4
    <3>2. QED
          BY <1>11, <1>12, <3>1 DEF Timely
  <2>5. TagsTimely(ledger, today, calls)
        BY <2>4 DEF TagsTimely
  <2>6. DisplayName \notin Covers(calls) /\ Claims(calls) \cap Covers(calls) = {}
        BY <1>17, <1>18 DEF Kept
  <2>7. Mute(calls)
        BY <1>9, <1>12, <1>13, <1>17 DEF Mute
  <2>8. QED
        BY <1>17, <2>1, <2>3, <2>5, <2>6, <2>7 DEF Fits
<1>20. QED
       BY <1>6, <1>16, <1>19, HandlerTurns

LEMMA DidSignInTurns ==
    ASSUME NEW alone, Inv(alone), NEW d \in Device, TurnInv, DidSignIn(d),
           UNCHANGED <<ledger, today>>
    PROVE  TurnInv' /\ Accounted(d)
<1>1. PICK y : y = GetData({DisplayName}, NameAnswer)
      OBVIOUS
<1>2. PICK o : o = ObserveUsers(d)
      OBVIOUS
<1>3. Dispatch(d, <<y>> \o o)
      BY <1>1, <1>2 DEF DidSignIn, SignIn
<1>4. y.kind = "get" /\ y.then.op = "displayName" /\ Hold(y) = {}
  <2>1. NameAnswer.op = "displayName"
        BY DEF NameAnswer
  <2>2. Holds(NameAnswer) = {}
        BY <2>1 DEF Holds
  <2>3. QED
        BY <1>1, <2>1, <2>2, GetHolds
<1>5. PICK S : S = {y, Observe}
      OBVIOUS
<1>6. /\ o \in Seq(S) /\ Elements(o) \subseteq {Observe}
      /\ Listening = {} => Elements(o) = {}
  <2>1. CASE o = <<>>
        BY <2>1, EmptySeq, ElementsOfShort
  <2>2. CASE o = <<Observe>> /\ d \in Listening
        BY <1>5, <2>2, ElementsOfShort
  <2>3. QED
        BY <1>2, <2>1, <2>2 DEF ObserveUsers
<1>7. PICK g : g = <<y>>
      OBVIOUS
<1>8. g \in Seq(S) /\ Elements(g) = {y}
      BY <1>5, <1>7, ElementsOfShort
<1>9. PICK calls \in Seq(S) : calls = g \o o /\ Joined(g, o, calls)
      BY <1>6, <1>8, ConcatIsJoined
<1>10. Elements(calls) \subseteq {y, Observe} /\ (Listening = {} => Elements(calls) = {y})
       BY <1>6, <1>8, <1>9 DEF Joined
<1>11. Observe.kind = "listen" /\ Hold(Observe) = {}
       BY DEF Observe, Hold
<1>12. PICK H : H = {}
       OBVIOUS
<1>13. Fits(ledger, ledger, today, H, calls)
       BY <1>4, <1>10, <1>11, InertFits
<1>14. Dispatch(d, calls)
       BY <1>3, <1>7, <1>9
<1>15. QED
       BY <1>12, <1>13, <1>14, HandlerTurns

-----------------------------------------------------------------------------
(* The other steps.                                                        *)

\* Whatever waits for an answer has a tag of the app.
LEMMA TagsAreTags ==
    ASSUME NEW alone, Inv(alone), NEW d \in Device,
           NEW x \in Elements(todo[d]) \cup Elements(wire[d]) \cup Elements(held[d])
                     \cup Elements(inbox[d]),
           x.kind \in {"get", "reply"}
    PROVE  x.then \in Tag
<1>1. PICK G : G = Known(alone, ledger)
      OBVIOUS
<1>2. PICK B : B = Blocks
      OBVIOUS
<1>3. DatabaseInv(G, B)
      BY <1>1, <1>2 DEF Inv
<1>4. DOMAIN B[d] \subseteq Tag
      BY <1>2, BlocksAreTags
<1>5. ASSUME NEW s \in Seq(Call(G, B[d])), x \in Elements(s)
      PROVE  x.then \in Tag
  <2>1. x \in Call(G, B[d])
        BY <1>5 DEF Elements
  <2>2. x.kind # "reply"
        BY <2>1 DEF Call, GetData, SetValue, Observe
  <2>3. QED
        BY <1>4, <2>1, <2>2, CallKinds
<1>6. ASSUME x \in Elements(inbox[d])
      PROVE  x.then \in Tag
  <2>1. inbox[d] \in Seq(Message(G, B[d]))
        BY <1>3 DEF DatabaseInv
  <2>2. x \in Message(G, B[d])
        BY <1>6, <2>1 DEF Elements
  <2>3. x.kind # "get"
        BY <2>2 DEF Message, Ack, Event, Reply
  <2>4. QED
        BY <1>4, <2>2, <2>3, MessageKinds
<1>7. /\ todo[d] \in Seq(Call(G, B[d])) /\ wire[d] \in Seq(Call(G, B[d]))
      /\ held[d] \in Seq(Call(G, B[d]))
      BY <1>3 DEF DatabaseInv
<1>8. QED
      BY <1>5, <1>6, <1>7

\* A day passes.
LEMMA NextDayTurns ==
    ASSUME NEW alone, Inv(alone), TurnInv, NextDay
    PROVE  TurnInv'
<1>1. /\ UNCHANGED <<record, todo, pending, wire, held, inbox, up, ledger>>
      /\ today \in Int /\ today' = today + 1
      BY DEF NextDay, dbVars, clientVars, linkVars, historyVars, Inv, WalletInv, Day
<1>2. ASSUME NEW d \in Device,
             NEW s, Elements(s) \subseteq Elements(todo[d]) \cup Elements(wire[d])
                                         \cup Elements(held[d]) \cup Elements(inbox[d]),
             TagsTimely(ledger, today, s)
      PROVE  TagsTimely(ledger, today', s)
  <2>1. ASSUME NEW x \in Elements(s), x.kind \in {"get", "reply"}
        PROVE  Timely(ledger, today', x.then)
    <3>1. PICK t : t = x.then
          OBVIOUS
    <3>2. t \in Tag
          BY <1>2, <2>1, <3>1, TagsAreTags
    <3>3. t.op = "claimDate" => t.day \in Int
          BY <3>2, TagFields DEF Day
    <3>4. Timely(ledger, today, t)
          BY <1>2, <2>1, <3>1 DEF TagsTimely
    <3>5. Timely(ledger, today', t)
          BY <1>1, <3>3, <3>4 DEF Timely
    <3>6. QED
          BY <3>1, <3>5
  <2>2. QED
        BY <2>1 DEF TagsTimely
<1>3. ASSUME NEW d \in Device
      PROVE  /\ up'[d] /\ DeviceNeat(d)' /\ DeviceSound(d)' /\ Busy(d)' = Busy(d)
             /\ Unserved(d)' = Unserved(d)
  <2>1. up[d] /\ DeviceNeat(d) /\ DeviceSound(d)
        BY DEF TurnInv
  <2>2. Resends(d)' = Resends(d)
        BY <1>1 DEF Resends
  <2>3. /\ TagsTimely(ledger, today', todo[d]) /\ TagsTimely(ledger, today', wire[d])
        /\ TagsTimely(ledger, today', held[d]) /\ TagsTimely(ledger, today', inbox[d])
        BY <1>2, <2>1 DEF DeviceSound, Sound
  <2>4. DeviceSound(d)'
        BY <1>1, <2>1, <2>2, <2>3 DEF DeviceSound, Sound
  <2>5. QED
        BY <1>1, <2>1, <2>2, <2>4 DEF DeviceNeat, Busy, Unserved
<1>4. Turns'
      BY <1>3 DEF TurnInv, Turns
<1>5. RecordRight'
      BY <1>1, <1>3 DEF TurnInv, RecordRight
<1>6. Counted'
  <2>1. \A t \in Day : t \in Int
        BY DEF Day
  <2>2. QED
        BY <1>1, <2>1 DEF TurnInv, Counted
<1>7. QED
      BY <1>3, <1>4, <1>5, <1>6 DEF TurnInv

\* A step that moves neither the client nor the ledger.
LEMMA NothingTurns ==
    ASSUME TurnInv, UNCHANGED <<dbVars, ledger, today>>
    PROVE  TurnInv'
<1>1. UNCHANGED <<record, todo, pending, wire, held, inbox, up>>
      BY DEF dbVars, clientVars, linkVars
<1>2. ASSUME NEW d \in Device
      PROVE  /\ up'[d] /\ DeviceNeat(d)' /\ DeviceSound(d)' /\ Busy(d)' = Busy(d)
             /\ Unserved(d)' = Unserved(d)
  <2>1. up[d] /\ DeviceNeat(d) /\ DeviceSound(d) /\ Unmoved(d)
        BY <1>1 DEF TurnInv, Unmoved
  <2>2. QED
        BY <2>1, UnmovedStays DEF Unmoved
<1>3. Turns'
      BY <1>2 DEF TurnInv, Turns
<1>4. RecordRight'
      BY <1>1, <1>2 DEF TurnInv, RecordRight
<1>5. Counted'
      BY DEF TurnInv, Counted
<1>6. QED
      BY <1>2, <1>3, <1>4, <1>5 DEF TurnInv

\* What has been lost, and that it stays lost.
FaultsType == faults \in [drops : Nat, kills : Nat, crashed : BOOLEAN]

LEMMA EndIsSeen ==
    ASSUME FaultsType, NEW d, Kill(d) \/ Crash(d)
    PROVE  ProcessHasEnded'
BY DEF FaultsType, Kill, Crash, ProcessHasEnded

\* No step of the app's own touches the faults unless it is a crash.
LEMMA WhatGoesWrong ==
    ASSUME [WalletNext]_vars
    PROVE  UNCHANGED faults \/ \E d : Kill(d) \/ Crash(d) \/ Disconnect(d)
<1>1. ASSUME NEW d, NEW calls, Dispatch(d, calls)
      PROVE  UNCHANGED faults
      BY <1>1 DEF Dispatch, linkVars
<1>2. ASSUME NEW d, NEW a, NEW calls, Return(d, a, calls)
      PROVE  UNCHANGED faults
      BY <1>2 DEF Return, linkVars
<1>3. ASSUME NEW d, StoreStep(d)
      PROVE  UNCHANGED faults \/ Crash(d)
      BY <1>1, <1>2, <1>3 DEF StoreStep, BuyOnClick, CellForRow, GotBuyLeaves, Deliver,
         Refuse, CrashOnNilLeaves, dbVars, linkVars
<1>4. ASSUME NEW d, RewardStep(d)
      PROVE  UNCHANGED faults
      BY <1>1, <1>2, <1>4 DEF RewardStep, ClaimOnClick, GotClaimDate, GotRewardCurrent,
         GotRewardAllTime
<1>5. ASSUME NEW d, RedeemStep(d)
      PROVE  UNCHANGED faults \/ Crash(d)
      BY <1>1, <1>2, <1>5 DEF RedeemStep, RedeemButtonPressed, GotUser, CrashOnPartialUser
<1>6. ASSUME NEW d, DidSignIn(d) \/ SessionAnswer(d)
      PROVE  UNCHANGED faults \/ Crash(d)
      BY <1>1, <1>2, <1>6 DEF DidSignIn, SignIn, SessionAnswer, GotDisplayName, GotInventory,
         GotActiveItems, CrashOnActiveItems, LeaderboardChanged, CrashOnPartialRow,
         ReceiveEvent, linkVars
<1>7. ASSUME NEW d, EnvironmentStep(d)
      PROVE  UNCHANGED faults \/ Kill(d) \/ Disconnect(d)
  <2>1. ClientStep(d) => UNCHANGED faults
        BY DEF ClientStep, ExecuteWrite, ExecuteGet, HoldGet, ExecuteListen, TimeOut,
           ReceiveAck, linkVars
  <2>2. ServerStep(d) => UNCHANGED faults
        BY DEF ServerStep, ServeWrite, ServeGet, ServeListen, linkVars
  <2>3. Reconnect(d) \/ Launch(d) => UNCHANGED faults
        BY DEF Reconnect, Launch, ProcessStarts
  <2>4. QED
        BY <1>7, <2>1, <2>2, <2>3 DEF EnvironmentStep
<1>8. CASE NextDay \/ UNCHANGED vars
  <2>1. UNCHANGED dbVars
        BY <1>8 DEF NextDay, vars
  <2>2. QED
        BY <2>1 DEF dbVars, linkVars
<1>9. QED
      BY <1>3, <1>4, <1>5, <1>6, <1>7, <1>8 DEF WalletNext

LEMMA WalletFaults ==
    ASSUME FaultsType, [WalletNext]_vars
    PROVE  /\ FaultsType'
           /\ ProcessHasEnded => ProcessHasEnded'
           /\ faults.drops <= faults'.drops
<1>1. CASE UNCHANGED faults
      BY <1>1 DEF FaultsType, ProcessHasEnded
<1>2. ASSUME NEW d, Kill(d) \/ Crash(d) \/ Disconnect(d)
      PROVE  /\ FaultsType'
             /\ ProcessHasEnded => ProcessHasEnded'
             /\ faults.drops <= faults'.drops
  <2>1. /\ Kill(d) => faults' = [faults EXCEPT !.kills = @ + 1]
        /\ Crash(d) => faults' = [faults EXCEPT !.crashed = TRUE]
        /\ Disconnect(d) => faults' = [faults EXCEPT !.drops = @ + 1]
        BY DEF Kill, Crash, Disconnect
  <2>2. /\ faults.drops \in Nat /\ faults.kills \in Nat /\ faults.crashed \in BOOLEAN
        BY DEF FaultsType
  <2>3. CASE Kill(d)
        BY <2>1, <2>2, <2>3 DEF FaultsType, ProcessHasEnded
  <2>4. CASE Crash(d)
    <3>1. faults' = [drops |-> faults.drops, kills |-> faults.kills, crashed |-> TRUE]
          BY <2>1, <2>4 DEF FaultsType
    <3>2. QED
          BY <2>2, <3>1 DEF FaultsType, ProcessHasEnded
  <2>5. CASE Disconnect(d)
        BY <2>1, <2>2, <2>5 DEF FaultsType, ProcessHasEnded
  <2>6. QED
        BY <1>2, <2>3, <2>4, <2>5
<1>3. QED
      BY <1>1, <1>2, WhatGoesWrong

\* What a step is to the client: a handler dispatches or a block returns, the
\* client, the server or the network moves, or nothing does.
Acted(d) ==
    /\ Accounted(d)
    /\ (\E calls : Dispatch(d, calls)) \/ (\E a \in Answers(d) : \E calls : Return(d, a, calls))

Outside(d) ==
    /\ \/ ClientStep(d) \/ ServerStep(d) \/ Disconnect(d) \/ Reconnect(d)
       \/ ReceiveEvent(d)
    /\ UNCHANGED ledger

Unseen == UNCHANGED <<dbVars, ledger>>

\* Every step, unless a process ends by it.
LEMMA StoreTurns ==
    ASSUME NEW alone, Inv(alone), FaultsType, ~Overlap, TurnInv, NEW d \in Device, CacheGood(d),
           StoreStep(d)
    PROVE  (TurnInv' /\ (Acted(d) \/ Unseen)) \/ ProcessHasEnded'
<1>1. ASSUME NEW c \in Cell, BuyOnClick(d, c)
      PROVE  TurnInv' /\ Acted(d)
  <2>1. TurnInv' /\ Accounted(d)
        BY <1>1, BuyOnClickTurns
  <2>2. \E calls : Dispatch(d, calls)
        BY <1>1 DEF BuyOnClick
  <2>3. QED
        BY <2>1, <2>2 DEF Acted
<1>2. ASSUME NEW c \in Cell, NEW k \in Key, CellForRow(d, c, k)
      PROVE  TurnInv' /\ Unseen
      BY <1>2, NothingTurns DEF CellForRow, historyVars, Unseen
<1>3. CASE GotBuyLeaves(d) \/ Deliver(d) \/ Refuse(d)
  <2>1. TurnInv' /\ Accounted(d)
        BY <1>3, GotBuyLeavesTurns, DeliverTurns, RefuseTurns
  <2>2. \E a \in Answers(d) : \E calls : Return(d, a, calls)
        BY <1>3 DEF GotBuyLeaves, Deliver, Refuse, AnswersTo
  <2>3. QED
        BY <2>1, <2>2 DEF Acted
<1>4. CASE CrashOnNilLeaves(d)
      BY <1>4, EndIsSeen DEF CrashOnNilLeaves
<1>5. QED
      BY <1>1, <1>2, <1>3, <1>4 DEF StoreStep

LEMMA RedeemTurns ==
    ASSUME NEW alone, Inv(alone), FaultsType, ~Overlap, TurnInv, NEW d \in Device, CacheGood(d),
           RedeemStep(d)
    PROVE  (TurnInv' /\ Acted(d)) \/ ProcessHasEnded'
<1>1. ASSUME NEW form \in [Entry -> Quantity], RedeemButtonPressed(d, form)
      PROVE  TurnInv' /\ Acted(d)
  <2>1. TurnInv' /\ Accounted(d)
        BY <1>1, RedeemButtonPressedTurns
  <2>2. \E calls : Dispatch(d, calls)
        BY <1>1 DEF RedeemButtonPressed
  <2>3. QED
        BY <2>1, <2>2 DEF Acted
<1>2. CASE GotUser(d)
  <2>1. TurnInv' /\ Accounted(d)
        BY <1>2, GotUserTurns
  <2>2. \E a \in Answers(d) : \E calls : Return(d, a, calls)
        BY <1>2 DEF GotUser, AnswersTo
  <2>3. QED
        BY <2>1, <2>2 DEF Acted
<1>3. CASE CrashOnPartialUser(d)
      BY <1>3, EndIsSeen DEF CrashOnPartialUser
<1>4. QED
      BY <1>1, <1>2, <1>3 DEF RedeemStep

LEMMA RewardTurns ==
    ASSUME NEW alone, Inv(alone), ~Overlap, TurnInv, NEW d \in Device, CacheGood(d),
           RewardStep(d)
    PROVE  TurnInv' /\ Acted(d)
<1>1. TurnInv' /\ Accounted(d)
      BY ClaimOnClickTurns, GotClaimDateTurns, GotRewardCurrentTurns, GotRewardAllTimeTurns
         DEF RewardStep
<1>2. CASE ClaimOnClick(d)
  <2>1. \E calls : Dispatch(d, calls)
        BY <1>2 DEF ClaimOnClick
  <2>2. QED
        BY <1>1, <2>1 DEF Acted
<1>3. CASE GotClaimDate(d) \/ GotRewardCurrent(d) \/ GotRewardAllTime(d)
  <2>1. \E a \in Answers(d) : \E calls : Return(d, a, calls)
        BY <1>3 DEF GotClaimDate, GotRewardCurrent, GotRewardAllTime, AnswersTo
  <2>2. QED
        BY <1>1, <2>1 DEF Acted
<1>4. QED
      BY <1>2, <1>3 DEF RewardStep

LEMMA SessionTurns ==
    ASSUME NEW alone, Inv(alone), FaultsType, QueueInv, TurnInv, NEW d \in Device, CacheGood(d),
           DidSignIn(d) \/ SessionAnswer(d), UNCHANGED walletVars
    PROVE  (TurnInv' /\ (Acted(d) \/ Outside(d))) \/ ProcessHasEnded'
<1>1. PICK G : G = Known(alone, ledger)
      OBVIOUS
<1>2. DatabaseInv(G, Blocks)
      BY <1>1 DEF Inv
<1>3. UNCHANGED <<ledger, today>>
      BY DEF walletVars, historyVars
<1>4. CASE DidSignIn(d)
  <2>1. TurnInv' /\ Accounted(d)
        BY <1>3, <1>4, DidSignInTurns
  <2>2. \E calls : Dispatch(d, calls)
        BY <1>4 DEF DidSignIn, SignIn
  <2>3. QED
        BY <2>1, <2>2 DEF Acted
<1>5. CASE GotDisplayName(d) \/ GotInventory(d) \/ GotActiveItems(d)
  <2>1. TurnInv' /\ Accounted(d)
        BY <1>3, <1>5, GotDisplayNameTurns, SilentBlockTurns
  <2>2. \E a \in Answers(d) : \E calls : Return(d, a, calls)
        BY <1>5 DEF GotDisplayName, GotInventory, GotActiveItems, AnswersTo
  <2>3. QED
        BY <2>1, <2>2 DEF Acted
<1>6. CASE LeaderboardChanged(d)
      BY <1>2, <1>3, <1>6, EnvironmentTurns DEF LeaderboardChanged, Outside
<1>7. CASE CrashOnActiveItems(d) \/ CrashOnPartialRow(d)
      BY <1>7, EndIsSeen DEF CrashOnActiveItems, CrashOnPartialRow
<1>8. QED
      BY <1>4, <1>5, <1>6, <1>7 DEF SessionAnswer

LEMMA OutsideTurns ==
    ASSUME NEW alone, Inv(alone), FaultsType, QueueInv, TurnInv, NEW d \in Device,
           EnvironmentStep(d), UNCHANGED walletVars
    PROVE  (TurnInv' /\ Outside(d)) \/ ProcessHasEnded'
<1>1. PICK G : G = Known(alone, ledger)
      OBVIOUS
<1>2. DatabaseInv(G, Blocks)
      BY <1>1 DEF Inv
<1>3. UNCHANGED <<ledger, today>>
      BY DEF walletVars, historyVars
<1>4. CASE Kill(d)
      BY <1>4, EndIsSeen
<1>5. ~Launch(d)
      BY DEF Launch, ProcessStarts, TurnInv
<1>6. CASE ClientStep(d) \/ ServerStep(d) \/ Disconnect(d) \/ Reconnect(d)
      BY <1>2, <1>3, <1>6, EnvironmentTurns DEF Outside
<1>7. QED
      BY <1>4, <1>5, <1>6 DEF EnvironmentStep

LEMMA WalletTurns ==
    ASSUME Inv(TRUE), FaultsType, QueueInv, ~Overlap, TurnInv,
           \A d \in Device : CacheGood(d), [WalletNext]_vars
    PROVE  \/ TurnInv' /\ (Unseen \/ \E d \in Device : Acted(d) \/ Outside(d))
           \/ ProcessHasEnded'
<1>1. CASE UNCHANGED vars
      BY <1>1, NothingTurns DEF vars, walletVars, historyVars, Unseen
<1>2. CASE NextDay
      BY <1>2, NextDayTurns DEF NextDay, historyVars, Unseen
<1>3. ASSUME NEW d \in Device, StoreStep(d) \/ RewardStep(d) \/ RedeemStep(d)
      PROVE  (TurnInv' /\ (Unseen \/ Acted(d))) \/ ProcessHasEnded'
      BY <1>3, StoreTurns, RewardTurns, RedeemTurns
<1>4. ASSUME NEW d \in Device, DidSignIn(d) \/ SessionAnswer(d) \/ EnvironmentStep(d),
             UNCHANGED walletVars
      PROVE  (TurnInv' /\ (Acted(d) \/ Outside(d))) \/ ProcessHasEnded'
      BY <1>4, SessionTurns, OutsideTurns
<1>5. QED
      BY <1>1, <1>2, <1>3, <1>4 DEF WalletNext

-----------------------------------------------------------------------------
(* The beginning.                                                          *)

\* No account is without a name.
Named == \A opening \in Openings : opening[DisplayName] # Absent

LEMMA InitTurns ==
    ASSUME Named, WalletInit
    PROVE  TurnInv
<1>1. PICK opening \in Openings : SessionInit(opening)
      BY DEF WalletInit, UsersInit
<1>2. /\ record = opening /\ record[DisplayName] # Absent
      /\ \A d \in Device : /\ todo[d] = <<>> /\ pending[d] = <<>> /\ wire[d] = <<>>
                           /\ held[d] = <<>> /\ inbox[d] = <<>> /\ up[d]
      BY <1>1 DEF SessionInit, DatabaseInit, Named
<1>3. ASSUME NEW d \in Device
      PROVE  up[d] /\ DeviceNeat(d) /\ DeviceSound(d) /\ Busy(d) = {}
  <2>1. PICK r : r = Resends(d)
        OBVIOUS
  <2>2. DOMAIN r = {}
        BY <1>2, <2>1 DEF Resends
  <2>3. Elements(r) = {} /\ Covers(r) = {} /\ \A l : Latest(r, l) = {}
        BY <2>2 DEF Elements, Covers, Latest
  <2>4. PICK z : z = <<>>
        OBVIOUS
  <2>5. /\ Elements(z) = {} /\ Claims(z) = {} /\ Covers(z) = {} /\ Sole(z) /\ Behind(z)
        /\ \A l : Latest(z, l) = {}
    <3>1. DOMAIN z = {}
          BY <2>4
    <3>2. QED
          BY <3>1, <2>4, NothingQueued DEF Behind, Latest
  <2>6. Neat(z, z, z, z, r) /\ Work(z, z, z, z, r) = {}
        BY <2>3, <2>5 DEF Neat, Tidy, Work, Claimed, Written
  <2>7. Sound(ledger, today, z, z, z, z, r)
        BY <2>3, <2>5 DEF Sound, PutsRight, SentRight, RepliesRight, TagsTimely
  <2>8. QED
        BY <1>2, <2>1, <2>4, <2>6, <2>7 DEF DeviceNeat, DeviceSound, Busy
<1>4. /\ ledger.current = OrZero(record[CurrentLeaves])
      /\ ledger.allTime = OrZero(record[AllTimeLeaves])
      /\ \A k \in Key : ledger.goods[k] = OrZero(record[Inventory(k)])
      /\ \A t \in Day : ledger.rewards[t] = 0
      BY DEF WalletInit
<1>5. Counted
      BY <1>4 DEF Counted
<1>6. RecordRight
  <2>1. Rewarded(ledger) = {}
        BY <1>4 DEF Rewarded
  <2>2. ASSUME NEW l
        PROVE  Right(ledger, l, record[l])
        BY <1>2, <1>4, <2>1 DEF Right, Dated
  <2>3. QED
        BY <2>2 DEF RecordRight
<1>7. QED
      BY <1>3, <1>5, <1>6 DEF TurnInv, Turns

LEMMA InitFaults ==
    ASSUME WalletInit
    PROVE  FaultsType
BY DEF WalletInit, UsersInit, SessionInit, DatabaseInit, FaultsType

-----------------------------------------------------------------------------
(* Where no Dashboard shows the account, no client listens to it.          *)

HearsNothing(d) ==
    /\ cache[d] = Absent /\ ~watching[d] /\ ~listens[d]
    /\ Mute(todo[d]) /\ Mute(wire[d])
    /\ \A x \in Elements(inbox[d]) : x.kind # "event"

Deaf == DOMAIN listens = Device /\ \A d \in Device : HearsNothing(d)

\* The elements of a queue that has lost its first, or gained some.
LEMMA ElementsOfTail ==
    ASSUME NEW S, NEW s \in Seq(S), First(s) # {}
    PROVE  Elements(Tail(s)) \subseteq Elements(s) /\ First(s) \subseteq Elements(s)
<1>1. s # <<>> /\ First(s) = {Head(s)}
      BY DEF First
<1>2. PICK t \in Seq(S) : t = Tail(s) /\ FirstOff(s, Head(s), t)
      BY <1>1, TailIsFirstOff
<1>3. QED
      BY <1>1, <1>2 DEF FirstOff

LEMMA ElementsOfAppend ==
    ASSUME NEW S, NEW s \in Seq(S), NEW x \in S
    PROVE  Elements(Append(s, x)) = Elements(s) \cup {x}
<1>1. PICK t \in Seq(S) : t = Append(s, x) /\ LastOn(s, x, t)
      BY AppendIsLastOn
<1>2. QED
      BY <1>1 DEF LastOn

LEMMA ElementsOfConcat ==
    ASSUME NEW S, NEW s \in Seq(S), NEW g \in Seq(S)
    PROVE  Elements(s \o g) = Elements(s) \cup Elements(g)
<1>1. PICK t \in Seq(S) : t = s \o g /\ Joined(s, g, t)
      BY ConcatIsJoined
<1>2. QED
      BY <1>1 DEF Joined

\* The client's steps.
LEMMA ClientDeaf ==
    ASSUME NEW G, NEW B, DatabaseInv(G, B), QueueInv, NEW d \in Device, Deaf,
           ClientStep(d) \/ ReceiveEvent(d)
    PROVE  Deaf'
<1> DEFINE C == Call(G, B[d])
           M == Message(G, B[d])
<1>1. /\ todo[d] \in Seq(C) /\ wire[d] \in Seq(C) /\ held[d] \in Seq(C) /\ inbox[d] \in Seq(M)
      /\ DOMAIN todo = Device /\ DOMAIN wire = Device /\ DOMAIN inbox = Device
      BY DEF DatabaseInv
<1> HIDE DEF C, M
<1>2. HearsNothing(d)
      BY DEF Deaf
<1>3. ASSUME First(todo[d]) # {}, todo' = [todo EXCEPT ![d] = Tail(@)]
      PROVE  Mute(todo'[d])
      BY <1>1, <1>2, <1>3, ElementsOfTail DEF HearsNothing, Mute
<1>4. ASSUME NEW c \in First(todo[d]), wire' = [wire EXCEPT ![d] = Append(@, c)]
      PROVE  Mute(wire'[d])
  <2>1. c \in Elements(todo[d])
        BY <1>1, <1>4, ElementsOfTail
  <2>2. c \in C
        BY <1>1, <2>1 DEF Elements
  <2>3. Elements(wire'[d]) = Elements(wire[d]) \cup {c}
        BY <1>1, <1>4, <2>2, ElementsOfAppend
  <2>4. QED
        BY <1>2, <2>1, <2>3 DEF HearsNothing, Mute
<1>5. \A c \in First(todo[d]) : c.kind # "listen"
      BY <1>1, <1>2, ElementsOfTail DEF HearsNothing, Mute
<1>6. \A m \in First(inbox[d]) : m.kind # "event"
      BY <1>1, <1>2, ElementsOfTail DEF HearsNothing
<1>7. ~ExecuteListen(d) /\ ~ReceiveEvent(d)
      BY <1>5, <1>6 DEF ExecuteListen, ReceiveEvent
<1>8. CASE ExecuteWrite(d) \/ ExecuteGet(d)
      BY <1>1, <1>3, <1>4, <1>8 DEF ExecuteWrite, ExecuteGet, linkVars, Deaf, HearsNothing
<1>9. CASE HoldGet(d)
      BY <1>1, <1>3, <1>9 DEF HoldGet, linkVars, Deaf, HearsNothing
<1>10. CASE TimeOut(d)
       BY <1>10 DEF TimeOut, linkVars, Deaf, HearsNothing
<1>11. CASE ReceiveAck(d)
  <2>1. First(inbox[d]) # {} /\ inbox' = [inbox EXCEPT ![d] = Tail(@)]
        BY <1>11 DEF ReceiveAck
  <2>2. Elements(inbox'[d]) \subseteq Elements(inbox[d])
        BY <1>1, <2>1, ElementsOfTail
  <2>3. QED
        BY <1>1, <1>11, <2>1, <2>2 DEF ReceiveAck, linkVars, Deaf, HearsNothing
<1>12. QED
       BY <1>7, <1>8, <1>9, <1>10, <1>11 DEF ClientStep

\* The server's steps.
LEMMA ServerDeaf ==
    ASSUME NEW G, NEW B, DatabaseInv(G, B), QueueInv, NEW d \in Device, Deaf, ServerStep(d)
    PROVE  Deaf'
<1> DEFINE C == Call(G, B[d])
           M(e) == Message(G, B[e])
<1>1. /\ wire[d] \in Seq(C) /\ wire[d] # <<>> /\ \A e \in Device : inbox[e] \in Seq(M(e))
      /\ DOMAIN wire = Device /\ DOMAIN inbox = Device
      BY DEF DatabaseInv, ServerStep, ServeWrite, ServeGet, ServeListen, Reachable
<1> HIDE DEF C, M
<1>2. \A e \in Device : HearsNothing(e)
      BY DEF Deaf
<1>3. Head(wire[d]) \in Elements(wire[d]) /\ Elements(Tail(wire[d])) \subseteq Elements(wire[d])
      BY <1>1, ElementsOfTail DEF First
<1>4. ~ServeListen(d)
      BY <1>2, <1>3 DEF ServeListen, HearsNothing, Mute
<1>5. wire' = [wire EXCEPT ![d] = Tail(@)] => \A e \in Device : Mute(wire'[e])
      BY <1>1, <1>2, <1>3 DEF HearsNothing, Mute
<1>6. CASE ServeWrite(d)
  <2>1. PICK w : /\ inbox' = [e \in Device |-> inbox[e] \o Notices(e, d, w)]
                 /\ wire' = [wire EXCEPT ![d] = Tail(@)]
                 /\ UNCHANGED <<todo, cache, listens, watching>>
        BY <1>6 DEF ServeWrite, linkVars
  <2>2. ASSUME NEW e \in Device
        PROVE  \A x \in Elements(inbox'[e]) : x.kind # "event"
    <3>1. PICK n : n = IF e = d /\ up[d] THEN <<Ack>> ELSE <<>>
          OBVIOUS
    <3>2. PICK S : S = M(e) \cup {Ack}
          OBVIOUS
    <3>3. n \in Seq(S) /\ inbox[e] \in Seq(S)
      <4>1. Ack \in S /\ M(e) \subseteq S
            BY <3>2
      <4>2. <<>> \in Seq(S) /\ <<Ack>> \in Seq(S)
            BY <4>1
      <4>3. QED
            BY <1>1, <3>1, <4>1, <4>2
    <3>4. Elements(n) \subseteq {Ack}
          BY <3>1, ElementsOfShort
    <3>5. Notices(e, d, w) = n
      <4>1. Notices(e, d, w) = <<>> \o n
            BY <1>2, <3>1 DEF Notices, HearsNothing
      <4>2. QED
            BY <3>3, <4>1
    <3>6. Elements(inbox'[e]) = Elements(inbox[e]) \cup Elements(n)
          BY <2>1, <3>3, <3>5, ElementsOfConcat
    <3>7. Ack.kind # "event"
          BY DEF Ack
    <3>8. QED
          BY <1>2, <3>4, <3>6, <3>7 DEF HearsNothing
  <2>3. QED
        BY <1>2, <1>5, <2>1, <2>2 DEF Deaf, HearsNothing
<1>7. CASE ServeGet(d)
  <2>1. PICK x : /\ inbox' = IF up[d] THEN [inbox EXCEPT ![d] = Append(@, x)] ELSE inbox
                 /\ x.kind = "reply"
    <3>1. PICK x : x = Reply(Head(wire[d]).then,
                             [l \in Head(wire[d]).leaves |-> record[l]])
          OBVIOUS
    <3>2. x.kind = "reply"
          BY <3>1 DEF Reply
    <3>3. QED
          BY <1>7, <3>1, <3>2 DEF ServeGet
  <2>2. ASSUME NEW e \in Device
        PROVE  Elements(inbox'[e]) \subseteq Elements(inbox[e]) \cup {x}
    <3>1. PICK S : S = M(e) \cup {x}
          OBVIOUS
    <3>2. inbox[e] \in Seq(S) /\ x \in S
          BY <1>1, <3>1
    <3>3. Elements(Append(inbox[e], x)) = Elements(inbox[e]) \cup {x}
          BY <3>2, ElementsOfAppend
    <3>4. QED
          BY <1>1, <2>1, <3>3
  <2>3. wire' = [wire EXCEPT ![d] = Tail(@)] /\ UNCHANGED <<todo, cache, listens, watching>>
        BY <1>7 DEF ServeGet, linkVars
  <2>4. QED
        BY <1>2, <1>5, <2>1, <2>2, <2>3 DEF Deaf, HearsNothing
<1>8. QED
      BY <1>4, <1>6, <1>7 DEF ServerStep

\* A connection is lost or restored.
LEMMA LinkDeaf ==
    ASSUME NEW G, NEW B, DatabaseInv(G, B), QueueInv, NEW d \in Device, Deaf,
           Disconnect(d) \/ Reconnect(d)
    PROVE  Deaf'
<1> DEFINE C == Call(G, B[d])
<1>1. /\ wire[d] \in Seq(C) /\ held[d] \in Seq(C)
      /\ DOMAIN wire = Device /\ DOMAIN inbox = Device
      BY DEF DatabaseInv
<1> HIDE DEF C
<1>2. HearsNothing(d) /\ watching \in [Device -> BOOLEAN]
      BY DEF Deaf, QueueInv
<1>3. CASE Disconnect(d)
  <2>1. Mute(Resends(d)) /\ Elements(<<>>) = {}
        BY ResendsAreCalls, NothingQueued DEF Mute
  <2>2. QED
        BY <1>1, <1>2, <1>3, <2>1 DEF Disconnect, Deaf, HearsNothing
<1>4. CASE Reconnect(d)
  <2>1. wire' = [wire EXCEPT ![d] = wire[d] \o held[d]]
    <3>1. wire' = [wire EXCEPT ![d] = <<>> \o wire[d] \o held[d]]
          BY <1>2, <1>4 DEF Reconnect, HearsNothing
    <3>2. <<>> \o wire[d] = wire[d]
          BY <1>1
    <3>3. QED
          BY <3>1, <3>2
  <2>2. Elements(wire[d] \o held[d]) = Elements(wire[d]) \cup Elements(held[d])
        BY <1>1, ElementsOfConcat
  <2>3. \A x \in Elements(held[d]) : x.kind = "get"
        BY DEF QueueInv, QueueOf, Elements
  <2>4. Mute(wire'[d])
        BY <1>1, <1>2, <2>1, <2>2, <2>3 DEF HearsNothing, Mute
  <2>5. QED
        BY <1>1, <1>4, <2>1, <2>4 DEF Reconnect, Deaf, HearsNothing
<1>5. QED
      BY <1>3, <1>4

\* What a block leaves of the messages.
LEMMA InboxOfAnswer ==
    ASSUME NEW G, NEW B, DatabaseInv(G, B), NEW d \in Device, NEW a \in Answers(d)
    PROVE  \/ a.inbox = inbox[d]
           \/ /\ First(inbox[d]) # {} /\ Head(inbox[d]).kind = "reply"
              /\ a.inbox = Tail(inbox[d])
<1>1. CASE \E c \in First(todo[d]) : a = [then  |-> c.then,
                                          snap  |-> [l \in c.leaves |-> LocalView(d)[l]],
                                          todo  |-> Tail(todo[d]),
                                          inbox |-> inbox[d]]
      BY <1>1
<1>2. CASE \E m \in First(inbox[d]) : /\ m.kind = "reply"
                                      /\ a = [then  |-> m.then,
                                              snap  |-> m.snap,
                                              todo  |-> todo[d],
                                              inbox |-> Tail(inbox[d])]
  <2>1. PICK m \in First(inbox[d]) : /\ m.kind = "reply"
                                     /\ a = [then  |-> m.then,
                                             snap  |-> m.snap,
                                             todo  |-> todo[d],
                                             inbox |-> Tail(inbox[d])]
        BY <1>2
  <2>2. a.inbox = Tail(inbox[d])
        BY <2>1
  <2>3. m = Head(inbox[d])
        BY <2>1 DEF First
  <2>4. QED
        BY <2>1, <2>2, <2>3
<1>3. QED
      BY <1>1, <1>2 DEF Answers

\* The app's own steps.
LEMMA ActedDeaf ==
    ASSUME NEW G, NEW B, DatabaseInv(G, B), NEW d \in Device, Deaf, Listening = {}, Acted(d)
    PROVE  Deaf'
<1>1. /\ DOMAIN todo = Device /\ DOMAIN inbox = Device
      /\ inbox[d] \in Seq(Message(G, B[d]))
      BY DEF DatabaseInv
<1>2. HearsNothing(d)
      BY DEF Deaf
<1>3. Mute(todo'[d])
      BY <1>2 DEF Acted, Accounted, HearsNothing
<1>4. ASSUME NEW calls, Dispatch(d, calls)
      PROVE  Deaf'
      BY <1>1, <1>3, <1>4 DEF Dispatch, linkVars, Deaf, HearsNothing
<1>5. ASSUME NEW a \in Answers(d), NEW calls, Return(d, a, calls)
      PROVE  Deaf'
  <2>1. Elements(a.inbox) \subseteq Elements(inbox[d])
        BY <1>1, InboxOfAnswer, ElementsOfTail
  <2>2. inbox' = [inbox EXCEPT ![d] = a.inbox]
        BY <1>5 DEF Return
  <2>3. QED
        BY <1>1, <1>2, <1>3, <1>5, <2>1, <2>2 DEF Return, linkVars, Deaf, HearsNothing
<1>6. QED
      BY <1>4, <1>5 DEF Acted

LEMMA StaysDeaf ==
    ASSUME Inv(TRUE), QueueInv, Deaf, Listening = {},
           Unseen \/ \E d \in Device : Acted(d) \/ Outside(d)
    PROVE  Deaf'
<1>1. PICK G : G = Known(TRUE, ledger)
      OBVIOUS
<1>2. DatabaseInv(G, Blocks)
      BY <1>1 DEF Inv
<1>3. CASE Unseen
  <2>1. UNCHANGED <<cache, watching, listens, todo, wire, inbox>>
        BY <1>3 DEF Unseen, dbVars, clientVars, linkVars
  <2>2. QED
        BY <2>1 DEF Deaf, HearsNothing
<1>4. ASSUME NEW d \in Device, Acted(d)
      PROVE  Deaf'
      BY <1>2, <1>4, ActedDeaf
<1>5. ASSUME NEW d \in Device, Outside(d)
      PROVE  Deaf'
      BY <1>2, <1>5, ClientDeaf, ServerDeaf, LinkDeaf DEF Outside
<1>6. QED
      BY <1>3, <1>4, <1>5

LEMMA InitDeaf ==
    ASSUME WalletInit
    PROVE  Deaf
<1>1. PICK opening \in Openings : SessionInit(opening)
      BY DEF WalletInit, UsersInit
<1>2. QED
      BY <1>1, NothingQueued DEF SessionInit, DatabaseInit, Deaf, HearsNothing, Mute

LEMMA DeafIsGood ==
    ASSUME Deaf, NEW d \in Device
    PROVE  CacheGood(d)
BY DEF Deaf, HearsNothing, CacheGood

-----------------------------------------------------------------------------
(* What a listener will be shown, message by message.                      *)

\* An event that tells of leaf l.
Tells(x, l) == x.kind = "event" /\ l \in DOMAIN x.write

\* Once the first i messages of e are processed, some write of p to leaf l is
\* not acknowledged yet.
Open(e, p, i, l) ==
    \E j \in DOMAIN p : j > Cardinality(Upto(e, "ack", i)) /\ l \in DOMAIN p[j]

\* Once they are, the listener that has seen row c shows value v at leaf l.
Shows(c, e, i, l, v) ==
    \/ \E k \in 1..i : /\ Tells(e[k], l) /\ v = e[k].write[l]
                       /\ \A j \in 1..i : j > k => ~Tells(e[j], l)
    \/ c # Absent /\ v = c[l] /\ \A j \in 1..i : ~Tells(e[j], l)

\* What will be shown is right whenever no write to the leaf is open.
Fresh(k, c, e, p, T) ==
    \A i \in 0..Len(e) : \A l \in Kept \ T :
        ~Open(e, p, i, l) => \A v : Shows(c, e, i, l, v) => Right(k, l, v)

\* The ledger grows, and more is to be written.
LEMMA FreshStays ==
    ASSUME NEW k, NEW c, NEW e, NEW p, NEW T, Fresh(k, c, e, p, T),
           NEW k2, NEW U, T \subseteq U,
           \A l \in Kept \ U : \A v : Right(k, l, v) => Right(k2, l, v)
    PROVE  Fresh(k2, c, e, p, U)
BY DEF Fresh

\* The oldest message is processed.
LEMMA FreshLater ==
    ASSUME NEW S, NEW e \in Seq(S), NEW t \in Seq(S), Shorter(e, t),
           NEW k, NEW c, NEW p, NEW T, Fresh(k, c, e, p, T), NEW c2, NEW q,
           \A i \in 0..Len(t) : \A l : Open(e, p, i + 1, l) => Open(t, q, i, l),
           \A l \in Kept : IF Tells(e[1], l) THEN c2[l] = e[1].write[l]
                           ELSE c2 # Absent => c # Absent /\ c2[l] = c[l]
    PROVE  Fresh(k, c2, t, q, T)
<1>1. /\ Len(e) \in Nat /\ Len(t) = Len(e) - 1 /\ Len(t) \in Nat
      /\ \A i \in 1..Len(t) : t[i] = e[i + 1]
      BY LenProperties DEF Shorter
<1>2. ASSUME NEW i \in 0..Len(t), NEW l \in Kept \ T, ~Open(t, q, i, l),
             NEW v, Shows(c2, t, i, l, v)
      PROVE  Right(k, l, v)
  <2>1. i + 1 \in 0..Len(e) /\ ~Open(e, p, i + 1, l)
    <3>1. i + 1 \in 0..Len(e)
          BY <1>1
    <3>2. Open(e, p, i + 1, l) => Open(t, q, i, l)
          OBVIOUS
    <3>3. QED
          BY <1>2, <3>1, <3>2
  <2>2. \A j \in 1..i : t[j] = e[j + 1]
        BY <1>1
  <2> SUFFICES Shows(c, e, i + 1, l, v)
      BY <1>2, <2>1 DEF Fresh
  <2>3. CASE \E m \in 1..i : /\ Tells(t[m], l) /\ v = t[m].write[l]
                             /\ \A j \in 1..i : j > m => ~Tells(t[j], l)
    <3>1. PICK m \in 1..i : /\ Tells(t[m], l) /\ v = t[m].write[l]
                            /\ \A j \in 1..i : j > m => ~Tells(t[j], l)
          BY <2>3
    <3>2. PICK n \in 1..(i + 1) : n = m + 1
          OBVIOUS
    <3>3. Tells(e[n], l) /\ v = e[n].write[l]
          BY <2>2, <3>1, <3>2
    <3>4. ASSUME NEW j \in 1..(i + 1), j > n
          PROVE  ~Tells(e[j], l)
      <4>1. PICK h \in 1..i : h > m /\ j = h + 1
            BY <3>2, <3>4
      <4>2. QED
            BY <2>2, <3>1, <4>1
    <3>5. QED
          BY <3>3, <3>4 DEF Shows
  <2>4. CASE c2 # Absent /\ v = c2[l] /\ \A j \in 1..i : ~Tells(t[j], l)
    <3>1. ASSUME NEW j \in 1..(i + 1), j > 1
          PROVE  ~Tells(e[j], l)
      <4>1. PICK h \in 1..i : j = h + 1
            BY <3>1
      <4>2. QED
            BY <2>2, <2>4, <4>1
    <3>2. 1 \in 1..(i + 1)
          OBVIOUS
    <3>3. CASE Tells(e[1], l)
      <4>1. v = e[1].write[l]
            BY <1>2, <2>4, <3>3
      <4>2. QED
            BY <3>1, <3>2, <3>3, <4>1 DEF Shows
    <3>4. CASE ~Tells(e[1], l)
      <4>1. \A j \in 1..(i + 1) : ~Tells(e[j], l)
        <5>1. \A j \in 1..(i + 1) : j = 1 \/ j > 1
              OBVIOUS
        <5>2. QED
              BY <3>1, <3>4, <5>1
      <4>2. c # Absent /\ v = c[l]
            BY <1>2, <2>4, <3>4
      <4>3. QED
            BY <4>1, <4>2 DEF Shows
    <3>5. QED
          BY <3>3, <3>4
  <2>5. QED
        BY <1>2, <2>3, <2>4 DEF Shows
<1>3. QED
      BY <1>2 DEF Fresh

\* It is one that acknowledges nothing.
LEMMA OpenLater ==
    ASSUME NEW S, NEW e \in Seq(S), NEW t \in Seq(S), Shorter(e, t), e[1].kind # "ack",
           NEW p, NEW i \in 0..Len(t), NEW l
    PROVE  Open(e, p, i + 1, l) <=> Open(t, p, i, l)
<1>1. Cardinality(Upto(t, "ack", i)) = Cardinality(Upto(e, "ack", i + 1)) - One(e, "ack")
      BY UptoOfTail
<1>2. Cardinality(Upto(e, "ack", i + 1)) \in Nat
      BY CallsAreCounted
<1>3. Cardinality(Upto(t, "ack", i)) = Cardinality(Upto(e, "ack", i + 1))
      BY <1>1, <1>2 DEF One
<1>4. QED
      BY <1>3 DEF Open

\* It acknowledges the oldest write.
LEMMA OpenAcked ==
    ASSUME NEW S, NEW e \in Seq(S), NEW t \in Seq(S), Shorter(e, t), e[1].kind = "ack",
           NEW P, NEW p \in Seq(P), NEW q \in Seq(P), Shorter(p, q),
           NEW i \in 0..Len(t), NEW l, Open(e, p, i + 1, l)
    PROVE  Open(t, q, i, l)
<1>1. PICK n \in Nat : n = Cardinality(Upto(t, "ack", i))
      BY CallsAreCounted
<1>2. Cardinality(Upto(e, "ack", i + 1)) = n + 1
  <2>1. Cardinality(Upto(t, "ack", i)) = Cardinality(Upto(e, "ack", i + 1)) - One(e, "ack")
        BY UptoOfTail
  <2>2. Cardinality(Upto(e, "ack", i + 1)) \in Nat /\ One(e, "ack") = 1
        BY CallsAreCounted DEF One
  <2>3. QED
        BY <1>1, <2>1, <2>2
<1>3. PICK j \in DOMAIN p : j > n + 1 /\ l \in DOMAIN p[j]
      BY <1>2 DEF Open
<1>4. /\ DOMAIN p = 1..Len(p) /\ Len(q) = Len(p) - 1 /\ Len(p) \in Nat
      /\ DOMAIN q = 1..Len(q) /\ \A m \in 1..Len(q) : q[m] = p[m + 1]
      BY LenProperties DEF Shorter
<1>5. j - 1 \in DOMAIN q /\ j - 1 > n /\ (j - 1) + 1 = j
      BY <1>3, <1>4
<1>6. q[j - 1] = p[j]
      BY <1>4, <1>5
<1>7. QED
      BY <1>1, <1>3, <1>5, <1>6 DEF Open

\* A message arrives: it is enough to look at what is shown after it.
LEMMA FreshWithOneMore ==
    ASSUME NEW S, NEW e \in Seq(S), NEW x \in S, NEW t \in Seq(S), Longer(e, x, t),
           NEW k, NEW c, NEW p, NEW T, Fresh(k, c, e, p, T),
           \A l \in Kept \ T : ~Open(t, p, Len(t), l) =>
               \A v : Shows(c, t, Len(t), l, v) => Right(k, l, v)
    PROVE  Fresh(k, c, t, p, T)
<1>1. PICK n \in Nat : n = Len(e)
      BY LenProperties
<1>2. Len(t) = n + 1 /\ DOMAIN e = 1..n /\ DOMAIN t = 1..(n + 1) /\ \A i \in 1..n : t[i] = e[i]
      BY <1>1, LenProperties DEF Longer
<1>3. ASSUME NEW i \in 0..n, NEW l
      PROVE  /\ Open(e, p, i, l) <=> Open(t, p, i, l)
             /\ \A v : Shows(c, t, i, l, v) => Shows(c, e, i, l, v)
  <2>1. Upto(t, "ack", i) = Upto(e, "ack", i)
        BY <1>2 DEF Upto, Calls
  <2>2. \A j \in 1..i : t[j] = e[j]
        BY <1>2
  <2>3. Open(e, p, i, l) <=> Open(t, p, i, l)
        BY <2>1 DEF Open
  <2>4. \A v : Shows(c, t, i, l, v) => Shows(c, e, i, l, v)
        BY <2>2 DEF Shows
  <2>5. QED
        BY <2>3, <2>4
<1>4. ASSUME NEW i \in 0..(n + 1), NEW l \in Kept \ T, ~Open(t, p, i, l),
             NEW v, Shows(c, t, i, l, v)
      PROVE  Right(k, l, v)
  <2>1. CASE i = n + 1
        BY <1>2, <1>4, <2>1
  <2>2. CASE i # n + 1
    <3>1. i \in 0..n
          BY <2>2
    <3>2. QED
          BY <1>1, <1>3, <1>4, <3>1 DEF Fresh
  <2>3. QED
        BY <2>1, <2>2
<1>5. QED
      BY <1>2, <1>4 DEF Fresh

\* What is open and what is shown once all messages are processed.
LEMMA OpenAtEnd ==
    ASSUME NEW S, NEW e \in Seq(S), NEW p, NEW l
    PROVE  Open(e, p, Len(e), l) <=> \E j \in DOMAIN p : j > Acks(e) /\ l \in DOMAIN p[j]
<1>1. Upto(e, "ack", Len(e)) = Calls(e, "ack")
      BY CallsAreCounted DEF Upto
<1>2. QED
      BY <1>1 DEF Open, Acks

LEMMA ShownAtEnd ==
    ASSUME NEW S, NEW e \in Seq(S), NEW x \in S, NEW t \in Seq(S), Longer(e, x, t),
           NEW c, NEW l, NEW v, Shows(c, t, Len(t), l, v)
    PROVE  IF Tells(x, l) THEN v = x.write[l] ELSE Shows(c, e, Len(e), l, v)
<1>1. PICK n \in Nat : n = Len(e)
      BY LenProperties
<1>2. Len(t) = n + 1 /\ t[n + 1] = x /\ \A i \in 1..n : t[i] = e[i]
      BY <1>1 DEF Longer
<1>3. n + 1 \in 1..(n + 1) /\ \A j \in 1..n : j \in 1..(n + 1) /\ n + 1 > j
      OBVIOUS
<1>4. CASE Tells(x, l)
  <2>1. \A k \in 1..(n + 1) : k # n + 1 => k \in 1..n
        OBVIOUS
  <2>2. Shows(c, t, n + 1, l, v)
        BY <1>2
  <2>3. QED
        BY <1>2, <1>3, <1>4, <2>1, <2>2 DEF Shows
<1>5. CASE ~Tells(x, l)
  <2>1. \A k \in 1..(n + 1) : Tells(t[k], l) => k \in 1..n
        BY <1>2, <1>5
  <2>2. Shows(c, t, n + 1, l, v)
        BY <1>2
  <2>3. QED
        BY <1>1, <1>2, <1>3, <1>5, <2>1, <2>2 DEF Shows
<1>6. QED
      BY <1>4, <1>5

\* A write is remembered.
LEMMA FreshWithWrite ==
    ASSUME NEW S, NEW e \in Seq(S), NEW P, NEW p \in Seq(P), NEW w \in P,
           NEW q \in Seq(P), Longer(p, w, q), Acks(e) <= Len(p),
           NEW k, NEW c, NEW U, Fresh(k, c, e, p, U \cup DOMAIN w)
    PROVE  Fresh(k, c, e, q, U)
<1>1. PICK n \in Nat : n = Len(p)
      BY LenProperties
<1>2. /\ DOMAIN p = 1..n /\ DOMAIN q = 1..(n + 1) /\ q[n + 1] = w
      /\ \A i \in 1..n : q[i] = p[i]
      BY <1>1, LenProperties DEF Longer
<1>3. ASSUME NEW i \in 0..Len(e), NEW l \in Kept \ U, ~Open(e, q, i, l),
             NEW v, Shows(c, e, i, l, v)
      PROVE  Right(k, l, v)
  <2>1. PICK m \in Nat : m = Cardinality(Upto(e, "ack", i))
        BY CallsAreCounted
  <2>2. m <= n
    <3>1. /\ Upto(e, "ack", i) \subseteq Calls(e, "ack") /\ IsFiniteSet(Calls(e, "ack"))
          /\ Acks(e) \in Nat
          BY CallsAreCounted DEF Upto, Acks
    <3>2. m <= Acks(e)
          BY <2>1, <3>1, FS_Subset DEF Acks
    <3>3. QED
          BY <1>1, <3>1, <3>2
  <2>3. \A j \in 1..(n + 1) : j > m => l \notin DOMAIN q[j]
        BY <1>2, <1>3, <2>1 DEF Open
  <2>4. l \notin DOMAIN w
        BY <1>2, <2>2, <2>3
  <2>5. \A j \in 1..n : j > m => l \notin DOMAIN p[j]
        BY <1>2, <2>3
  <2>6. ~Open(e, p, i, l)
        BY <1>2, <2>1, <2>5 DEF Open
  <2>7. QED
        BY <1>3, <2>4, <2>6 DEF Fresh
<1>4. QED
      BY <1>3 DEF Fresh

-----------------------------------------------------------------------------
(* The one device that listens.                                            *)

\* The request to listen goes before every write.
ListenLeads(w) ==
    \E j \in DOMAIN w : /\ w[j].kind = "listen"
                        /\ \A i \in DOMAIN w : w[i].kind = "put" => j < i

Told(e) == \E i \in DOMAIN e : e[i].kind = "event"

\* The first event is of the whole row.
FullFirst(e) ==
    \A i \in DOMAIN e :
        /\ e[i].kind = "event"
        /\ \A j \in DOMAIN e : j < i => e[j].kind # "event"
        => DOMAIN e[i].write = Leaf

\* A listener that is not registered hears nothing, and one that has seen the
\* row before will be registered before its next write is applied; one that has
\* not will first be sent all of it.
Attends(on, ls, wt, c, w, e) ==
    /\ ~ls => c = Absent /\ ~wt /\ Mute(w)
    /\ ~wt => ~Told(e)
    /\ on /\ ~wt /\ c # Absent => ListenLeads(w)
    /\ c = Absent => (wt => Told(e)) /\ FullFirst(e)

Sees(d) == Fresh(ledger, cache[d], inbox[d], pending[d], Covers(todo[d]))
Watches(d) == Attends(online[d], listens[d], watching[d], cache[d], wire[d], inbox[d])

Attentive ==
    /\ DOMAIN listens = Device /\ DOMAIN online = Device
    /\ \A d \in Device : Sees(d) /\ Watches(d)

Solo == \A d, e \in Device : d = e

\* So what it has seen can be relied on.
LEMMA AttentiveIsGood ==
    ASSUME NEW G, NEW B, DatabaseInv(G, B), Attentive, NEW d \in Device
    PROVE  CacheGood(d)
<1>1. /\ pending[d] \in Seq(Write(G)) /\ inbox[d] \in Seq(Message(G, B[d])) /\ Sees(d)
      BY DEF DatabaseInv, Attentive
<1>2. ASSUME cache[d] # Absent,
             NEW l \in Kept \ (Covers(todo[d]) \cup Covers(Resends(d)))
      PROVE  Right(ledger, l, cache[d][l])
  <2>1. ~Open(inbox[d], pending[d], 0, l)
        BY <1>1, <1>2, PendingIsResent DEF Open
  <2>2. Shows(cache[d], inbox[d], 0, l, cache[d][l])
        BY <1>2 DEF Shows
  <2>3. 0 \in 0..Len(inbox[d])
    <3>1. Len(inbox[d]) \in Nat
          BY <1>1, LenProperties
    <3>2. QED
          BY <3>1
  <2>4. QED
        BY <1>1, <1>2, <2>1, <2>2, <2>3 DEF Sees, Fresh
<1>3. QED
      BY <1>2 DEF CacheGood

\* One more request, or one less.
LEMMA MoreAfterListen ==
    ASSUME NEW S, NEW w \in Seq(S), NEW x \in S, NEW v \in Seq(S), Longer(w, x, v),
           ListenLeads(w)
    PROVE  ListenLeads(v)
<1>1. PICK n \in Nat : n = Len(w)
      BY LenProperties
<1>2. DOMAIN w = 1..n /\ DOMAIN v = 1..(n + 1) /\ \A i \in 1..n : v[i] = w[i]
      BY <1>1, LenProperties DEF Longer
<1>3. PICK j \in 1..n : /\ w[j].kind = "listen"
                        /\ \A i \in 1..n : w[i].kind = "put" => j < i
      BY <1>2 DEF ListenLeads
<1>4. j \in 1..(n + 1) /\ v[j].kind = "listen"
      BY <1>2, <1>3
<1>5. ASSUME NEW i \in 1..(n + 1), v[i].kind = "put"
      PROVE  j < i
  <2>1. CASE i = n + 1
        BY <1>3, <2>1
  <2>2. CASE i # n + 1
    <3>1. i \in 1..n
          BY <2>2
    <3>2. QED
          BY <1>2, <1>3, <1>5, <3>1
  <2>3. QED
        BY <2>1, <2>2
<1>6. QED
      BY <1>2, <1>4, <1>5 DEF ListenLeads

LEMMA ListenIsNext ==
    ASSUME NEW S, NEW w \in Seq(S), NEW v \in Seq(S), Shorter(w, v), ListenLeads(w),
           w[1].kind # "listen"
    PROVE  w[1].kind # "put" /\ ListenLeads(v)
<1>1. PICK n \in Nat : n = Len(v)
      BY LenProperties
<1>2. /\ DOMAIN w = 1..(n + 1) /\ DOMAIN v = 1..n /\ \A i \in 1..n : v[i] = w[i + 1]
  <2>1. Len(w) \in Nat /\ Len(v) = Len(w) - 1
        BY LenProperties DEF Shorter
  <2>2. Len(w) = n + 1
        BY <1>1, <2>1
  <2>3. QED
        BY <1>1, <2>2, LenProperties DEF Shorter
<1>3. PICK j \in 1..(n + 1) : /\ w[j].kind = "listen"
                              /\ \A i \in 1..(n + 1) : w[i].kind = "put" => j < i
      BY <1>2 DEF ListenLeads
<1>4. PICK h \in 1..n : j = h + 1
      BY <1>3
<1>5. v[h].kind = "listen"
      BY <1>2, <1>3, <1>4
<1>6. ASSUME NEW i \in 1..n, v[i].kind = "put"
      PROVE  h < i
  <2>1. i + 1 \in 1..(n + 1) /\ w[i + 1].kind = "put"
        BY <1>2, <1>6
  <2>2. j < i + 1
        BY <1>3, <2>1
  <2>3. QED
        BY <1>4, <2>2
<1>7. w[1].kind # "put"
  <2>1. 1 \in 1..(n + 1) /\ ~(j < 1)
        BY <1>3
  <2>2. QED
        BY <1>3, <2>1
<1>8. QED
      BY <1>2, <1>5, <1>6, <1>7 DEF ListenLeads

\* One more message, or one less.
LEMMA MoreTold ==
    ASSUME NEW S, NEW e \in Seq(S), NEW x \in S, NEW t \in Seq(S), Longer(e, x, t)
    PROVE  /\ Told(t) <=> Told(e) \/ x.kind = "event"
           /\ FullFirst(e) /\ (x.kind # "event" \/ Told(e) \/ DOMAIN x.write = Leaf)
              => FullFirst(t)
<1>1. PICK n \in Nat : n = Len(e)
      BY LenProperties
<1>2. /\ DOMAIN e = 1..n /\ DOMAIN t = 1..(n + 1) /\ t[n + 1] = x
      /\ \A i \in 1..n : t[i] = e[i]
      BY <1>1, LenProperties DEF Longer
<1>3. \A i \in 1..(n + 1) : i = n + 1 \/ (i \in 1..n /\ ~(n + 1 < i))
      OBVIOUS
<1>4. n + 1 \in 1..(n + 1) /\ \A i \in 1..n : i \in 1..(n + 1) /\ i < n + 1
      OBVIOUS
<1>5. Told(t) <=> Told(e) \/ x.kind = "event"
      BY <1>2, <1>3, <1>4 DEF Told
<1>6. ASSUME FullFirst(e), x.kind # "event" \/ Told(e) \/ DOMAIN x.write = Leaf,
             NEW i \in 1..(n + 1), t[i].kind = "event",
             \A j \in 1..(n + 1) : j < i => t[j].kind # "event"
      PROVE  DOMAIN t[i].write = Leaf
  <2>1. CASE i = n + 1
    <3>1. \A j \in 1..n : e[j].kind # "event"
          BY <1>2, <1>4, <1>6, <2>1
    <3>2. ~Told(e)
          BY <1>2, <3>1 DEF Told
    <3>3. QED
          BY <1>2, <1>6, <2>1, <3>2
  <2>2. CASE i \in 1..n
    <3>1. e[i].kind = "event" /\ \A j \in 1..n : j < i => e[j].kind # "event"
          BY <1>2, <1>4, <1>6, <2>2
    <3>2. DOMAIN e[i].write = Leaf
          BY <1>2, <1>6, <2>2, <3>1 DEF FullFirst
    <3>3. QED
          BY <1>2, <2>2, <3>2
  <2>3. QED
        BY <1>3, <2>1, <2>2
<1>7. QED
      BY <1>2, <1>5, <1>6 DEF FullFirst

LEMMA LessTold ==
    ASSUME NEW S, NEW e \in Seq(S), NEW t \in Seq(S), Shorter(e, t)
    PROVE  /\ Told(t) => Told(e)
           /\ e[1].kind # "event" => (Told(t) <=> Told(e)) /\ (FullFirst(e) => FullFirst(t))
           /\ e[1].kind = "event" => Told(e) /\ (FullFirst(e) => DOMAIN e[1].write = Leaf)
<1>1. PICK n \in Nat : n = Len(t)
      BY LenProperties
<1>2. /\ DOMAIN e = 1..(n + 1) /\ DOMAIN t = 1..n /\ \A i \in 1..n : t[i] = e[i + 1]
  <2>1. Len(e) \in Nat /\ Len(t) = Len(e) - 1
        BY LenProperties DEF Shorter
  <2>2. Len(e) = n + 1
        BY <1>1, <2>1
  <2>3. QED
        BY <1>1, <2>2, LenProperties DEF Shorter
<1>3. /\ 1 \in 1..(n + 1) /\ \A j \in 1..(n + 1) : ~(j < 1)
      /\ \A i \in 1..n : i + 1 \in 1..(n + 1)
      OBVIOUS
<1>4. ASSUME NEW j \in 1..(n + 1), j # 1
      PROVE  \E i \in 1..n : j = i + 1
  <2>1. j - 1 \in 1..n /\ j = (j - 1) + 1
        BY <1>4
  <2>2. QED
        BY <2>1
<1>5. Told(t) => Told(e)
      BY <1>2, <1>3 DEF Told
<1>6. ASSUME e[1].kind = "event"
      PROVE  Told(e) /\ (FullFirst(e) => DOMAIN e[1].write = Leaf)
      BY <1>2, <1>3, <1>6 DEF Told, FullFirst
<1>7. ASSUME e[1].kind # "event", Told(e)
      PROVE  Told(t)
  <2>1. PICK j \in 1..(n + 1) : e[j].kind = "event"
        BY <1>2, <1>7 DEF Told
  <2>2. PICK i \in 1..n : j = i + 1
        BY <1>7, <1>4, <2>1
  <2>3. QED
        BY <1>2, <2>1, <2>2 DEF Told
<1>8. ASSUME e[1].kind # "event", FullFirst(e), NEW i \in 1..n, t[i].kind = "event",
             \A j \in 1..n : j < i => t[j].kind # "event"
      PROVE  DOMAIN t[i].write = Leaf
  <2>1. ASSUME NEW j \in 1..(n + 1), j < i + 1
        PROVE  e[j].kind # "event"
    <3>1. CASE j = 1
          BY <1>8, <3>1
    <3>2. ASSUME NEW h \in 1..n, j = h + 1
          PROVE  e[j].kind # "event"
      <4>1. h < i
            BY <2>1, <3>2
      <4>2. QED
            BY <1>2, <1>8, <3>2, <4>1
    <3>3. QED
          BY <1>4, <3>1, <3>2
  <2>2. e[i + 1].kind = "event" /\ i + 1 \in 1..(n + 1)
        BY <1>2, <1>3, <1>8
  <2>3. DOMAIN e[i + 1].write = Leaf
        BY <1>2, <1>8, <2>1, <2>2 DEF FullFirst
  <2>4. QED
        BY <1>2, <2>3
<1>9. QED
      BY <1>2, <1>5, <1>6, <1>7, <1>8 DEF FullFirst

\* It is enough to look at the one device.
LEMMA OnlyOne ==
    ASSUME Solo, NEW d \in Device, Sees(d)', Watches(d)',
           DOMAIN listens' = Device, DOMAIN online' = Device
    PROVE  Attentive'
BY DEF Solo, Attentive

\* The app's own steps.
LEMMA ActedAttends ==
    ASSUME NEW G, NEW B, DatabaseInv(G, B), NEW d \in Device, Solo, Attentive, Acted(d)
    PROVE  Attentive'
<1> DEFINE M == Message(G, B[d])
<1>1. /\ DOMAIN todo = Device /\ DOMAIN inbox = Device /\ inbox[d] \in Seq(M)
      BY DEF DatabaseInv
<1> HIDE DEF M
<1>2. Sees(d) /\ Watches(d) /\ DOMAIN listens = Device /\ DOMAIN online = Device
      BY DEF Attentive
<1>3. /\ Covers(todo[d]) \subseteq Covers(todo'[d])
      /\ \A l \in Kept \ Covers(todo'[d]) : \A v : Right(ledger, l, v) => Right(ledger', l, v)
      BY DEF Acted, Accounted
<1>4. ASSUME NEW e, Fresh(ledger, cache[d], e, pending[d], Covers(todo[d]))
      PROVE  Fresh(ledger', cache[d], e, pending[d], Covers(todo'[d]))
      BY <1>3, <1>4, FreshStays
<1>5. ASSUME inbox'[d] = inbox[d], UNCHANGED <<pending, wire, cache, linkVars>>
      PROVE  Attentive'
  <2>1. Sees(d)' /\ Watches(d)'
        BY <1>2, <1>4, <1>5 DEF Sees, Watches, linkVars
  <2>2. QED
        BY <1>2, <1>5, <2>1, OnlyOne DEF linkVars
<1>6. ASSUME First(inbox[d]) # {}, Head(inbox[d]).kind = "reply",
             inbox' = [inbox EXCEPT ![d] = Tail(inbox[d])],
             UNCHANGED <<pending, wire, cache, linkVars>>
      PROVE  Attentive'
  <2>1. inbox[d] # <<>>
        BY <1>6 DEF First
  <2>2. PICK t \in Seq(M) : t = Tail(inbox[d]) /\ Shorter(inbox[d], t)
        BY <1>1, <2>1, TailIsShorter
  <2>3. inbox[d][1].kind = "reply"
        BY <1>1, <1>6, <2>1, TailIsShorter
  <2>4. inbox'[d] = t
        BY <1>1, <1>6, <2>2
  <2>5. Fresh(ledger, cache[d], t, pending[d], Covers(todo[d]))
    <3>1. \A i \in 0..Len(t) : \A l :
              Open(inbox[d], pending[d], i + 1, l) => Open(t, pending[d], i, l)
          BY <1>1, <2>2, <2>3, OpenLater
    <3>2. \A l : ~Tells(inbox[d][1], l)
          BY <2>3 DEF Tells
    <3>3. Fresh(ledger, cache[d], inbox[d], pending[d], Covers(todo[d]))
          BY <1>2 DEF Sees
    <3>4. QED
          BY <1>1, <2>2, <3>1, <3>2, <3>3, FreshLater
  <2>6. Sees(d)'
        BY <1>4, <1>6, <2>4, <2>5 DEF Sees
  <2>7. (Told(t) <=> Told(inbox[d])) /\ (FullFirst(inbox[d]) => FullFirst(t))
        BY <1>1, <2>2, <2>3, LessTold
  <2>8. Watches(d)'
        BY <1>2, <1>6, <2>4, <2>7 DEF Watches, Attends, linkVars
  <2>9. QED
        BY <1>2, <1>6, <2>6, <2>8, OnlyOne DEF linkVars
<1>7. ASSUME NEW a \in Answers(d), NEW calls, Return(d, a, calls)
      PROVE  Attentive'
  <2>1. inbox' = [inbox EXCEPT ![d] = a.inbox]
        BY <1>7 DEF Return
  <2>2. UNCHANGED <<pending, wire, cache, linkVars>>
        BY <1>7 DEF Return
  <2>3. CASE a.inbox = inbox[d]
    <3>1. inbox'[d] = inbox[d]
          BY <1>1, <2>1, <2>3
    <3>2. QED
          BY <1>5, <2>2, <3>1
  <2>4. QED
        BY <1>6, <2>1, <2>2, <2>3, InboxOfAnswer
<1>8. ASSUME NEW calls, Dispatch(d, calls)
      PROVE  Attentive'
      BY <1>5, <1>8 DEF Dispatch
<1>9. QED
      BY <1>7, <1>8 DEF Acted

\* Calls are executed.
LEMMA ExecutedAttends ==
    ASSUME NEW G, NEW B, DatabaseInv(G, B), QueueInv, TurnInv, NEW d \in Device, Solo,
           Attentive, UNCHANGED ledger,
           ExecuteWrite(d) \/ ExecuteGet(d) \/ HoldGet(d) \/ TimeOut(d) \/ ExecuteListen(d)
    PROVE  Attentive'
<1> DEFINE C == Call(G, B[d])
<1>1. /\ DOMAIN todo = Device /\ DOMAIN pending = Device /\ DOMAIN wire = Device
      /\ todo[d] \in Seq(C) /\ wire[d] \in Seq(C) /\ inbox[d] \in Seq(Message(G, B[d]))
      /\ pending[d] \in Seq(Write(G))
      BY DEF DatabaseInv
<1>2. \A c \in C : c.kind = "put" => c.write \in Write(G)
      BY CallKinds
<1>3. Observe \in C
      BY ObserveIsCall
<1> HIDE DEF C
<1>4. Sees(d) /\ Watches(d) /\ DOMAIN listens = Device /\ DOMAIN online = Device
      BY DEF Attentive
<1>5. Fresh(ledger, cache[d], inbox[d], pending[d], Covers(todo[d]))
      BY <1>4 DEF Sees
\* The call that is taken.
<1>6. ASSUME NEW c \in First(todo[d])
      PROVE  /\ c \in C /\ Covers(todo[d]) \subseteq Covers(Tail(todo[d])) \cup Cover(c)
  <2>1. todo[d] # <<>> /\ c = Head(todo[d])
        BY DEF First
  <2>2. PICK t \in Seq(C) : t = Tail(todo[d]) /\ FirstOff(todo[d], c, t)
        BY <1>1, <2>1, TailIsFirstOff
  <2>3. c \in Elements(todo[d]) /\ Covers(todo[d]) = Covers(t) \cup Cover(c)
        BY <2>2, FirstOffFacts
  <2>4. QED
        BY <1>1, <2>2, <2>3 DEF Elements
\* What goes on the wire comes after the request to listen.
<1>7. ASSUME NEW c \in C, c.kind # "listen"
      PROVE  Attends(online[d], listens[d], watching[d], cache[d], Append(wire[d], c), inbox[d])
  <2>1. PICK v \in Seq(C) : v = Append(wire[d], c) /\ Longer(wire[d], c, v)
        BY <1>1, AppendIsLonger
  <2>2. ListenLeads(wire[d]) => ListenLeads(v)
        BY <1>1, <2>1, MoreAfterListen
  <2>3. Mute(wire[d]) => Mute(v)
    <3>1. Elements(v) = Elements(wire[d]) \cup {c}
          BY <1>1, <2>1, ElementsOfAppend
    <3>2. QED
          BY <1>7, <3>1 DEF Mute
  <2>4. QED
        BY <1>4, <2>1, <2>2, <2>3 DEF Watches, Attends
<1>8. ASSUME todo' = [todo EXCEPT ![d] = Tail(@)], NEW c \in First(todo[d]), c.kind # "put",
             UNCHANGED <<pending, inbox, cache>>
      PROVE  Sees(d)'
  <2>1. Cover(c) = {}
        BY <1>8, KindsHold
  <2>2. todo'[d] = Tail(todo[d]) /\ Covers(todo[d]) \subseteq Covers(todo'[d])
        BY <1>1, <1>6, <1>8, <2>1
  <2>3. Fresh(ledger', cache[d], inbox[d], pending[d], Covers(todo'[d]))
        BY <1>5, <2>2, FreshStays
  <2>4. QED
        BY <1>8, <2>3 DEF Sees
<1>9. CASE ExecuteWrite(d)
  <2>1. PICK c \in First(todo[d]) :
            /\ c.kind = "put"
            /\ pending' = [pending EXCEPT ![d] = Append(@, c.write)]
            /\ wire' = [wire EXCEPT ![d] = Append(@, c)]
        BY <1>9 DEF ExecuteWrite
  <2>2. /\ todo'[d] = Tail(todo[d]) /\ UNCHANGED <<inbox, cache, listens, watching, online>>
        BY <1>1, <1>9 DEF ExecuteWrite, linkVars
  <2>3. c \in C /\ c.write \in Write(G) /\ Cover(c) = DOMAIN c.write
        BY <1>2, <1>6, <2>1, KindsHold
  <2>4. PICK W : W = Write(G)
        OBVIOUS
  <2>5. PICK q \in Seq(W) : q = Append(pending[d], c.write) /\ Longer(pending[d], c.write, q)
        BY <1>1, <2>3, <2>4, AppendIsLonger
  <2>6. Acks(inbox[d]) <= Len(pending[d])
    <3>1. up[d] /\ UnderWay(wire[d], pending[d], Acks(inbox[d]))
          BY DEF QueueInv, QueueOf, TurnInv
    <3>2. /\ Cardinality(Calls(wire[d], "put")) \in Nat /\ Len(pending[d]) \in Nat
          /\ Acks(inbox[d]) \in Nat
          BY <1>1, CallsAreCounted, LenProperties DEF Acks
    <3>3. QED
          BY <3>1, <3>2 DEF UnderWay
  <2>7. Covers(todo[d]) \subseteq Covers(todo'[d]) \cup DOMAIN c.write
        BY <1>6, <2>1, <2>2, <2>3
  <2>8. Fresh(ledger, cache[d], inbox[d], q, Covers(todo'[d]))
    <3>1. PICK U : U = Covers(todo'[d])
          OBVIOUS
    <3>2. Fresh(ledger, cache[d], inbox[d], pending[d], U \cup DOMAIN c.write)
          BY <1>5, <2>7, <3>1, FreshStays
    <3>3. PICK e : e = inbox[d]
          OBVIOUS
    <3>4. PICK M : M = Message(G, B[d])
          OBVIOUS
    <3>5. e \in Seq(M) /\ Acks(e) <= Len(pending[d])
          BY <1>1, <2>6, <3>3, <3>4
    <3>6. pending[d] \in Seq(W) /\ c.write \in W
          BY <1>1, <2>3, <2>4
    <3>7. q \in Seq(W) /\ Longer(pending[d], c.write, q)
          BY <2>5
    <3>8. Fresh(ledger, cache[d], e, q, U)
          BY <3>2, <3>3, <3>5, <3>6, <3>7, FreshWithWrite
    <3>9. QED
          BY <3>1, <3>3, <3>8
  <2>9. pending'[d] = q /\ wire'[d] = Append(wire[d], c)
        BY <1>1, <2>1, <2>5
  <2>10. Sees(d)'
        BY <2>2, <2>8, <2>9 DEF Sees
  <2>11. Watches(d)'
         BY <1>7, <2>1, <2>2, <2>3, <2>9 DEF Watches
  <2>12. QED
         BY <1>4, <2>2, <2>10, <2>11, OnlyOne
<1>10. CASE ExecuteGet(d)
  <2>1. PICK c \in First(todo[d]) : c.kind = "get" /\ wire' = [wire EXCEPT ![d] = Append(@, c)]
        BY <1>10 DEF ExecuteGet
  <2>2. /\ todo' = [todo EXCEPT ![d] = Tail(@)]
        /\ UNCHANGED <<pending, inbox, cache, listens, watching, online>>
        BY <1>10 DEF ExecuteGet, linkVars
  <2>3. Sees(d)'
        BY <1>8, <2>1, <2>2
  <2>4. c \in C /\ wire'[d] = Append(wire[d], c)
        BY <1>1, <1>6, <2>1
  <2>5. Watches(d)'
        BY <1>7, <2>1, <2>2, <2>4 DEF Watches
  <2>6. QED
        BY <1>4, <2>2, <2>3, <2>5, OnlyOne
<1>11. CASE HoldGet(d)
  <2>1. PICK c \in First(todo[d]) : c.kind = "get"
        BY <1>11 DEF HoldGet
  <2>2. /\ todo' = [todo EXCEPT ![d] = Tail(@)]
        /\ UNCHANGED <<pending, inbox, cache, wire, listens, watching, online>>
        BY <1>11 DEF HoldGet, linkVars
  <2>3. Sees(d)'
        BY <1>8, <2>1, <2>2
  <2>4. Watches(d)'
        BY <1>4, <2>2 DEF Watches
  <2>5. QED
        BY <1>4, <2>2, <2>3, <2>4, OnlyOne
<1>12. CASE TimeOut(d)
       BY <1>12 DEF TimeOut, linkVars, Attentive, Sees, Watches
<1>13. CASE ExecuteListen(d)
  <2>1. PICK c \in First(todo[d]) : c.kind = "listen"
        BY <1>13 DEF ExecuteListen
  <2>2. /\ todo' = [todo EXCEPT ![d] = Tail(@)] /\ listens' = [listens EXCEPT ![d] = TRUE]
        /\ wire' = IF online[d] /\ ~listens[d]
                   THEN [wire EXCEPT ![d] = Append(@, Observe)] ELSE wire
        /\ UNCHANGED <<pending, inbox, cache, watching, online>>
        BY <1>13 DEF ExecuteListen
  <2>3. Sees(d)'
        BY <1>8, <2>1, <2>2
  <2>4. listens'[d] = TRUE
        BY <1>4, <2>2
  <2>5. CASE listens[d]
    <3>1. wire' = wire
          BY <2>2, <2>5
    <3>2. Watches(d)'
          BY <1>4, <2>2, <2>4, <2>5, <3>1 DEF Watches, Attends
    <3>3. QED
          BY <1>4, <2>2, <2>3, <3>2, OnlyOne
  <2>6. CASE ~listens[d]
    <3>1. Watches(d)'
          BY <1>4, <2>2, <2>4, <2>6 DEF Watches, Attends
    <3>2. QED
          BY <1>4, <2>2, <2>3, <3>1, OnlyOne
  <2>7. QED
        BY <2>5, <2>6
<1>14. QED
       BY <1>9, <1>10, <1>11, <1>12, <1>13

\* A message is processed that is no reply.
LEMMA ReceiveAckAttends ==
    ASSUME NEW G, NEW B, DatabaseInv(G, B), QueueInv, NEW d \in Device, Solo, Attentive,
           ReceiveAck(d), UNCHANGED ledger
    PROVE  Attentive'
<1> DEFINE M == Message(G, B[d])
<1>1. PICK m \in First(inbox[d]) : m.kind = "ack"
      BY DEF ReceiveAck
<1>2. /\ inbox[d] \in Seq(M) /\ inbox[d] # <<>> /\ m = Head(inbox[d])
      /\ pending[d] \in Seq(Write(G)) /\ Len(pending[d]) > 0
      BY <1>1, AckIsOfWrite DEF DatabaseInv, First
<1> HIDE DEF M
<1>3. PICK W : W = Write(G)
      OBVIOUS
<1>4. PICK t \in Seq(M) : t = Tail(inbox[d]) /\ Shorter(inbox[d], t)
      BY <1>2, TailIsShorter
<1>5. PICK q \in Seq(W) : q = SubSeq(pending[d], 2, Len(pending[d])) /\ Shorter(pending[d], q)
      BY <1>2, <1>3, RestIsShorter
<1>6. /\ inbox'[d] = t /\ pending'[d] = q
      /\ UNCHANGED <<todo, wire, cache, listens, watching, online>>
      BY <1>4, <1>5 DEF ReceiveAck, DatabaseInv, linkVars
<1>7. inbox[d][1].kind = "ack"
      BY <1>1, <1>2, TailIsShorter
<1>8. Sees(d) /\ Watches(d) /\ DOMAIN listens = Device /\ DOMAIN online = Device
      BY DEF Attentive
<1>9. Sees(d)'
  <2>1. PICK e : e = inbox[d]
        OBVIOUS
  <2>2. PICK p : p = pending[d]
        OBVIOUS
  <2>3. e \in Seq(M) /\ e[1].kind = "ack" /\ p \in Seq(W)
        BY <1>2, <1>3, <1>7, <2>1, <2>2
  <2>4. t \in Seq(M) /\ Shorter(e, t)
        BY <1>4, <2>1
  <2>5. q \in Seq(W) /\ Shorter(p, q)
        BY <1>5, <2>2
  <2>6. ASSUME NEW i \in 0..Len(t), NEW l, Open(e, p, i + 1, l)
        PROVE  Open(t, q, i, l)
        BY <2>3, <2>4, <2>5, <2>6, OpenAcked
  <2>7. \A l : ~Tells(e[1], l)
        BY <2>3 DEF Tells
  <2>8. Fresh(ledger, cache[d], e, p, Covers(todo[d]))
        BY <1>8, <2>1, <2>2 DEF Sees
  <2>9. Fresh(ledger, cache[d], t, q, Covers(todo[d]))
        BY <2>3, <2>4, <2>6, <2>7, <2>8, FreshLater
  <2>10. QED
         BY <1>6, <2>9 DEF Sees
<1>10. Watches(d)'
  <2>1. (Told(t) <=> Told(inbox[d])) /\ (FullFirst(inbox[d]) => FullFirst(t))
        BY <1>2, <1>4, <1>7, LessTold
  <2>2. QED
        BY <1>6, <1>8, <2>1 DEF Watches, Attends
<1>11. QED
       BY <1>6, <1>8, <1>9, <1>10, OnlyOne

LEMMA ReceiveEventAttends ==
    ASSUME NEW G, NEW B, Allows(G), DatabaseInv(G, B), NEW d \in Device, Solo, Attentive,
           ReceiveEvent(d), UNCHANGED ledger
    PROVE  Attentive'
<1> DEFINE M == Message(G, B[d])
<1>1. PICK m \in First(inbox[d]) :
          m.kind = "event" /\ cache' = [cache EXCEPT ![d] = Overlay(Row(d), m.write)]
      BY DEF ReceiveEvent
<1>2. /\ inbox[d] \in Seq(M) /\ inbox[d] # <<>> /\ m = Head(inbox[d])
      BY <1>1 DEF DatabaseInv, First
<1>3. m.write \in Write(G)
      BY <1>1, FirstMessage, MessageKinds
<1>4. PICK c : c = Overlay(Row(d), m.write)
      OBVIOUS
<1>5. /\ c # Absent
      /\ \A l \in Leaf : c[l] = IF l \in DOMAIN m.write THEN m.write[l] ELSE Row(d)[l]
  <2>1. Row(d) \in Patch(G, Leaf)
        BY RowIsPatch
  <2>2. c \in Patch(G, Leaf)
        BY <1>3, <1>4, <2>1, OverlayIsPatch
  <2>3. c # Absent
        BY <2>2, ClientAssumption DEF Patch
  <2>4. DOMAIN Row(d) = Leaf
        BY <2>1 DEF Patch
  <2>5. QED
        BY <1>4, <2>3, <2>4 DEF Overlay
<1> HIDE DEF M
<1>6. PICK t \in Seq(M) : t = Tail(inbox[d]) /\ Shorter(inbox[d], t)
      BY <1>2, TailIsShorter
<1>7. /\ inbox'[d] = t /\ cache'[d] = c
      /\ UNCHANGED <<todo, wire, pending, listens, watching, online>>
      BY <1>1, <1>4, <1>6 DEF ReceiveEvent, DatabaseInv, linkVars
<1>8. inbox[d][1] = m
      BY <1>2, TailIsShorter
<1>9. Sees(d) /\ Watches(d) /\ DOMAIN listens = Device /\ DOMAIN online = Device
      BY DEF Attentive
<1>10. Told(inbox[d]) /\ (cache[d] = Absent => DOMAIN m.write = Leaf)
  <2>1. Told(inbox[d]) /\ (FullFirst(inbox[d]) => DOMAIN inbox[d][1].write = Leaf)
        BY <1>1, <1>2, <1>6, <1>8, LessTold
  <2>2. QED
        BY <1>8, <1>9, <2>1 DEF Watches, Attends
<1>11. Sees(d)'
  <2>1. PICK e : e = inbox[d]
        OBVIOUS
  <2>2. PICK b : b = cache[d]
        OBVIOUS
  <2>3. e \in Seq(M) /\ e[1] = m /\ e[1].kind # "ack"
        BY <1>1, <1>2, <1>8, <2>1
  <2>4. t \in Seq(M) /\ Shorter(e, t)
        BY <1>6, <2>1
  <2>5. \A i \in 0..Len(t) : \A l : Open(e, pending[d], i + 1, l) => Open(t, pending[d], i, l)
        BY <2>3, <2>4, OpenLater
  <2>6. ASSUME NEW l \in Kept
        PROVE  IF Tells(e[1], l) THEN c[l] = e[1].write[l]
               ELSE c # Absent => b # Absent /\ c[l] = b[l]
    <3>1. l \in Leaf
          BY LeavesAreLeaves DEF Kept, Ledgered
    <3>2. CASE l \in DOMAIN m.write
          BY <1>1, <1>5, <2>3, <3>1, <3>2 DEF Tells
    <3>3. CASE l \notin DOMAIN m.write
      <4>1. b # Absent
            BY <1>10, <2>2, <3>1, <3>3
      <4>2. Row(d) = b
            BY <2>2, <4>1 DEF Row
      <4>3. QED
            BY <1>5, <2>3, <3>1, <3>3, <4>1, <4>2 DEF Tells
    <3>4. QED
          BY <3>2, <3>3
  <2>7. Fresh(ledger, b, e, pending[d], Covers(todo[d]))
        BY <1>9, <2>1, <2>2 DEF Sees
  <2>8. Fresh(ledger, c, t, pending[d], Covers(todo[d]))
        BY <2>3, <2>4, <2>5, <2>6, <2>7, FreshLater
  <2>9. QED
        BY <1>7, <2>8 DEF Sees
<1>12. Watches(d)'
  <2>1. watching[d] /\ listens[d]
        BY <1>9, <1>10 DEF Watches, Attends
  <2>2. QED
        BY <1>5, <1>7, <2>1 DEF Watches, Attends
<1>13. QED
       BY <1>7, <1>9, <1>11, <1>12, OnlyOne

\* Nothing has been shown, and nothing will be.
LEMMA UnshownIsFresh ==
    ASSUME NEW S, NEW e \in Seq(S), ~Told(e), NEW k, NEW p, NEW T
    PROVE  Fresh(k, Absent, e, p, T)
<1>1. Len(e) \in Nat /\ DOMAIN e = 1..Len(e)
      BY LenProperties
<1>2. ASSUME NEW i \in 0..Len(e), NEW l, NEW v
      PROVE  ~Shows(Absent, e, i, l, v)
  <2>1. \A j \in 1..i : j \in DOMAIN e
        BY <1>1, <1>2
  <2>2. \A j \in 1..i : ~Tells(e[j], l)
        BY <2>1 DEF Told, Tells
  <2>3. QED
        BY <2>2 DEF Shows
<1>3. QED
      BY <1>2 DEF Fresh

\* What write n + 1 of p writes is right, unless a later one writes the same leaf.
Due(k, p, n, T) ==
    \A l \in Kept \ T :
        /\ l \in DOMAIN p[n + 1]
        /\ \A j \in DOMAIN p : j > n + 1 => l \notin DOMAIN p[j]
        => Right(k, l, p[n + 1][l])

\* The oldest write that is not acknowledged is applied, shown and acknowledged.
LEMMA FreshWhenServed ==
    ASSUME NEW S, NEW e \in Seq(S), NEW x \in S, NEW t \in Seq(S), Longer(e, x, t),
           NEW y \in S, NEW u \in Seq(S), Longer(t, y, u),
           NEW p, NEW n \in Nat, n = Acks(e), n + 1 \in DOMAIN p, DOMAIN p \subseteq Nat,
           x.kind = "event", x.write = p[n + 1], y.kind = "ack",
           NEW k, NEW c, NEW T, Fresh(k, c, e, p, T), Due(k, p, n, T)
    PROVE  Fresh(k, c, u, p, T)
<1>1. Acks(t) = n /\ Acks(u) = n + 1
  <2>1. AckAdded(e, x, t) /\ AckAdded(t, y, u)
        BY MoreAcks
  <2>2. QED
        BY <2>1 DEF AckAdded
<1>2. Len(e) \in Nat
      BY LenProperties
<1>3. ASSUME NEW l \in Kept \ T, \A j \in DOMAIN p : j > n => l \notin DOMAIN p[j],
             NEW v, Shows(c, e, Len(e), l, v)
      PROVE  Right(k, l, v)
  <2>1. ~Open(e, p, Len(e), l)
        BY <1>3, OpenAtEnd
  <2>2. Len(e) \in 0..Len(e)
        BY <1>2
  <2>3. QED
        BY <1>3, <2>1, <2>2 DEF Fresh
<1>4. Fresh(k, c, t, p, T)
  <2>1. ASSUME NEW l \in Kept \ T, ~Open(t, p, Len(t), l), NEW v, Shows(c, t, Len(t), l, v)
        PROVE  Right(k, l, v)
    <3>1. \A j \in DOMAIN p : j > n => l \notin DOMAIN p[j]
          BY <1>1, <2>1, OpenAtEnd
    <3>2. l \notin DOMAIN x.write
          BY <3>1
    <3>3. Shows(c, e, Len(e), l, v)
          BY <2>1, <3>2, ShownAtEnd DEF Tells
    <3>4. QED
          BY <1>3, <3>1, <3>3
  <2>2. QED
        BY <2>1, FreshWithOneMore
<1>5. ASSUME NEW l \in Kept \ T, ~Open(u, p, Len(u), l), NEW v, Shows(c, u, Len(u), l, v)
      PROVE  Right(k, l, v)
  <2>1. \A j \in DOMAIN p : j > n + 1 => l \notin DOMAIN p[j]
        BY <1>1, <1>5, OpenAtEnd
  <2>2. Shows(c, t, Len(t), l, v)
        BY <1>5, ShownAtEnd DEF Tells
  <2>3. IF Tells(x, l) THEN v = x.write[l] ELSE Shows(c, e, Len(e), l, v)
        BY <2>2, ShownAtEnd
  <2>4. CASE l \in DOMAIN p[n + 1]
        BY <2>1, <2>3, <2>4 DEF Tells, Due
  <2>5. CASE l \notin DOMAIN p[n + 1]
    <3>1. \A j \in DOMAIN p : j > n => j = n + 1 \/ j > n + 1
          OBVIOUS
    <3>2. \A j \in DOMAIN p : j > n => l \notin DOMAIN p[j]
          BY <2>1, <2>5, <3>1
    <3>3. Shows(c, e, Len(e), l, v)
          BY <2>3, <2>5 DEF Tells
    <3>4. QED
          BY <1>3, <3>2, <3>3
  <2>6. QED
        BY <2>4, <2>5
<1>6. QED
      BY <1>4, <1>5, FreshWithOneMore

\* It is the one that is applied next; what it writes is right unless a later one
\* writes the same leaf.
LEMMA NextIsPending ==
    ASSUME NEW G, NEW B, DatabaseInv(G, B), QueueInv, NEW d \in Device, TurnInv,
           wire[d] # <<>>, Head(wire[d]).kind = "put"
    PROVE  \E n \in Nat :
               /\ n = Acks(inbox[d]) /\ n + 1 \in DOMAIN pending[d]
               /\ Head(wire[d]).write = pending[d][n + 1]
               /\ Due(ledger, pending[d], n, Covers(todo[d]))
<1>1. PICK w : w = wire[d]
      OBVIOUS
<1>2. PICK p : p = pending[d]
      OBVIOUS
<1>3. PICK n : n = Acks(inbox[d])
      OBVIOUS
<1>4. /\ w \in Seq(Call(G, B[d])) /\ inbox[d] \in Seq(Message(G, B[d]))
      /\ p \in Seq(Write(G)) /\ Len(p) \in Nat /\ DOMAIN p = 1..Len(p)
      BY <1>1, <1>2, LenProperties DEF DatabaseInv
<1>5. n \in Nat
      BY <1>3, <1>4, CallsAreCounted DEF Acks
<1>6. UnderWay(w, p, n) /\ SentRight(ledger, Resends(d), todo[d])
      BY <1>1, <1>2, <1>3 DEF QueueInv, QueueOf, TurnInv, DeviceSound, Sound
<1>7. Head(wire[d]) = w[1] /\ w[1].kind = "put" /\ 1 \in DOMAIN w /\ DOMAIN w \subseteq Nat \ {0}
  <2>1. Len(w) \in Nat /\ Len(w) > 0 /\ DOMAIN w = 1..Len(w)
        BY <1>1, <1>4, EmptySeq, LenProperties
  <2>2. Head(wire[d]) = w[1]
        BY <1>1, <1>4, TailIsShorter
  <2>3. QED
        BY <2>1, <2>2
<1>8. 1 \in Calls(w, "put")
      BY <1>7 DEF Calls
<1>9. Cardinality(Upto(w, "put", 1)) = 1
  <2>1. Upto(w, "put", 1) = {1}
        BY <1>7, <1>8 DEF Upto, Calls
  <2>2. QED
        BY <2>1, FS_Singleton
<1>10. n + 1 \in DOMAIN p /\ w[1].write = p[n + 1]
  <2>1. 1 \in 1..Cardinality(Calls(w, "put")) /\ Cardinality(Calls(w, "put")) \in Nat
        BY <1>4, <1>8, <1>9, CallsAreCounted
  <2>2. Cardinality(Calls(w, "put")) = Len(p) - n /\ w[1].write = p[n + 1]
        BY <1>6, <1>8, <1>9 DEF UnderWay
  <2>3. QED
        BY <1>4, <1>5, <2>1, <2>2
<1>11. ASSUME NEW l \in Kept \ Covers(todo[d]), l \in DOMAIN p[n + 1],
              \A j \in DOMAIN p : j > n + 1 => l \notin DOMAIN p[j]
       PROVE  Right(ledger, l, p[n + 1][l])
  <2>1. PICK r : r = Resends(d)
        OBVIOUS
  <2>2. DOMAIN r = DOMAIN p /\ \A j \in DOMAIN p : r[j] = SetValue(p[j])
        BY <1>2, <1>4, <2>1 DEF Resends
  <2>3. \A j \in DOMAIN p : Cover(r[j]) = DOMAIN p[j]
        BY <2>2 DEF Cover, SetValue
  <2>4. PICK x : x = r[n + 1]
        OBVIOUS
  <2>5. x \in Latest(r, l)
        BY <1>10, <1>11, <2>2, <2>3, <2>4 DEF Latest, LatestAt
  <2>6. x.write = p[n + 1]
        BY <1>10, <2>2, <2>4 DEF SetValue
  <2>7. QED
        BY <1>6, <1>11, <2>1, <2>5, <2>6 DEF SentRight
<1>12. Due(ledger, p, n, Covers(todo[d]))
       BY <1>11 DEF Due
<1>13. QED
       BY <1>1, <1>2, <1>3, <1>5, <1>7, <1>10, <1>12

\* A reply is sent: nothing is shown.
LEMMA FreshWithSilent ==
    ASSUME NEW S, NEW e \in Seq(S), NEW x \in S, NEW t \in Seq(S), Longer(e, x, t),
           x.kind = "reply",
           NEW k, NEW c, NEW p, NEW T, Fresh(k, c, e, p, T)
    PROVE  Fresh(k, c, t, p, T)
<1>1. Acks(t) = Acks(e)
  <2>1. AckAdded(e, x, t)
        BY MoreAcks
  <2>2. QED
        BY <2>1 DEF AckAdded
<1>2. Len(e) \in Nat
      BY LenProperties
<1>3. ASSUME NEW l \in Kept \ T, ~Open(t, p, Len(t), l), NEW v, Shows(c, t, Len(t), l, v)
      PROVE  Right(k, l, v)
  <2>1. ~Open(e, p, Len(e), l)
        BY <1>1, <1>3, OpenAtEnd
  <2>2. Shows(c, e, Len(e), l, v)
        BY <1>3, ShownAtEnd DEF Tells
  <2>3. Len(e) \in 0..Len(e)
        BY <1>2
  <2>4. QED
        BY <1>3, <2>1, <2>2, <2>3 DEF Fresh
<1>4. QED
      BY <1>3, FreshWithOneMore

\* The server sends what it is told to and takes the next request.
LEMMA ServedAttends ==
    ASSUME NEW C, NEW w \in Seq(C), NEW v \in Seq(C), Shorter(w, v), w[1].kind # "listen",
           Mute(w) => Mute(v),
           NEW on, NEW ls, NEW wt, NEW c, NEW e, Attends(on, ls, wt, c, w, e)
    PROVE  /\ Attends(on, ls, wt, c, v, e)
           /\ on /\ ~wt /\ w[1].kind = "put" => c = Absent /\ ~Told(e)
<1>1. ListenLeads(w) => w[1].kind # "put" /\ ListenLeads(v)
      BY ListenIsNext
<1>2. QED
      BY <1>1 DEF Attends

LEMMA AttendsSilent ==
    ASSUME NEW S, NEW e \in Seq(S), NEW x \in S, NEW t \in Seq(S), Longer(e, x, t),
           x.kind # "event",
           NEW on, NEW ls, NEW wt, NEW c, NEW w, Attends(on, ls, wt, c, w, e)
    PROVE  Attends(on, ls, wt, c, w, t)
<1>1. (Told(t) <=> Told(e)) /\ (FullFirst(e) => FullFirst(t))
      BY MoreTold
<1>2. QED
      BY <1>1 DEF Attends

\* An event is sent to a client that is registered.
LEMMA AttendsTold ==
    ASSUME NEW S, NEW e \in Seq(S), NEW x \in S, NEW t \in Seq(S), Longer(e, x, t),
           x.kind = "event",
           NEW on, NEW ls, NEW wt, NEW c, NEW w, Attends(on, ls, wt, c, w, e), wt
    PROVE  Attends(on, ls, wt, c, w, t)
<1>1. Told(t) /\ (FullFirst(e) /\ Told(e) => FullFirst(t))
      BY MoreTold
<1>2. QED
      BY <1>1 DEF Attends

LEMMA ServeWriteAttends ==
    ASSUME NEW G, NEW B, DatabaseInv(G, B), QueueInv, TurnInv, NEW d \in Device, Solo,
           Attentive, ServeWrite(d), UNCHANGED ledger
    PROVE  Attentive'
<1> DEFINE C == Call(G, B[d])
           N == Message(G, B[d])
<1>1. PICK h : h = Head(wire[d]).write
      OBVIOUS
<1>2. /\ wire[d] # <<>> /\ Head(wire[d]).kind = "put" /\ h \in Write(G)
      /\ wire' = [wire EXCEPT ![d] = Tail(@)]
      /\ inbox' = [e \in Device |-> inbox[e] \o Notices(e, d, h)]
      /\ UNCHANGED <<todo, pending, cache, listens, watching, online>>
      BY <1>1, RequestIsCall, CallKinds DEF ServeWrite, Reachable, linkVars
<1>3. online[d] /\ up[d] /\ watching[d] \in BOOLEAN
      BY DEF ServeWrite, Reachable, TurnInv, QueueInv
<1>4. wire[d] \in Seq(C) /\ inbox[d] \in Seq(N) /\ DOMAIN wire = Device
      BY DEF DatabaseInv
<1>5. PICK x : x = Event(h) /\ x.kind = "event" /\ x.write = h
  <2>1. PICK x : x = Event(h)
        OBVIOUS
  <2>2. x.kind = "event" /\ x.write = h
        BY <2>1 DEF Event
  <2>3. QED
        BY <2>1, <2>2
<1>6. PICK y : y = Ack /\ y.kind = "ack"
  <2>1. Ack.kind = "ack"
        BY DEF Ack
  <2>2. QED
        BY <2>1
<1>7. PICK M : M = N \cup {x, y}
      OBVIOUS
<1> HIDE DEF C, N
<1>8. inbox[d] \in Seq(M) /\ x \in M /\ y \in M
      BY <1>4, <1>7
<1>9. PICK e \in Seq(M) : e = inbox[d]
      BY <1>8
<1>10. PICK v \in Seq(C) : v = Tail(wire[d]) /\ Shorter(wire[d], v)
       BY <1>2, <1>4, TailIsShorter
<1>11. wire'[d] = v /\ wire[d][1].kind = "put" /\ (Mute(wire[d]) => Mute(v))
  <2>1. wire'[d] = v
        BY <1>2, <1>4, <1>10
  <2>2. wire[d][1].kind = "put"
        BY <1>2, <1>4, TailIsShorter
  <2>3. Elements(v) \subseteq Elements(wire[d])
        BY <1>2, <1>4, <1>10, ElementsOfTail DEF First
  <2>4. QED
        BY <2>1, <2>2, <2>3 DEF Mute
<1>12. PICK t \in Seq(M) : t = Append(e, x) /\ Longer(e, x, t)
       BY <1>8, <1>9, AppendIsLonger
<1>13. PICK u \in Seq(M) : u = Append(t, y) /\ Longer(t, y, u)
       BY <1>8, <1>12, AppendIsLonger
<1>14. PICK s \in Seq(M) : s = Append(e, y) /\ Longer(e, y, s)
       BY <1>8, <1>9, AppendIsLonger
<1>15. inbox'[d] = IF watching[d] THEN u ELSE s
  <2>1. inbox'[d] = e \o ((IF watching[d] THEN <<x>> ELSE <<>>) \o <<y>>)
        BY <1>2, <1>3, <1>5, <1>6, <1>9 DEF Notices
  <2>2. <<x>> \in Seq(M) /\ <<y>> \in Seq(M)
        BY <1>8
  <2>3. t = e \o <<x>> /\ u = t \o <<y>> /\ s = e \o <<y>>
        BY <1>12, <1>13, <1>14, AppendIsConcat
  <2>4. (e \o <<x>>) \o <<y>> = e \o (<<x>> \o <<y>>)
        BY <2>2, ConcatAssociative
  <2>5. <<>> \o <<y>> = <<y>>
        BY <2>2, ConcatEmptySeq
  <2>6. QED
        BY <2>1, <2>3, <2>4, <2>5
<1>16. Sees(d) /\ Watches(d) /\ DOMAIN listens = Device /\ DOMAIN online = Device
       BY DEF Attentive
<1>17. /\ Attends(online[d], listens[d], watching[d], cache[d], v, e)
       /\ ~watching[d] => cache[d] = Absent /\ ~Told(e)
  <2>1. Attends(online[d], listens[d], watching[d], cache[d], wire[d], e)
        BY <1>9, <1>16 DEF Watches
  <2>2. PICK w \in Seq(C) : w = wire[d]
        BY <1>4
  <2>3. v \in Seq(C) /\ Shorter(w, v)
        BY <1>10, <2>2
  <2>4. w[1].kind = "put" /\ w[1].kind # "listen" /\ (Mute(w) => Mute(v))
        BY <1>11, <2>2
  <2>5. PICK wt : wt = watching[d]
        OBVIOUS
  <2>6. PICK c : c = cache[d]
        OBVIOUS
  <2>7. Attends(online[d], listens[d], wt, c, w, e)
        BY <2>1, <2>2, <2>5, <2>6
  <2>8. /\ Attends(online[d], listens[d], wt, c, v, e)
        /\ online[d] /\ ~wt /\ w[1].kind = "put" => c = Absent /\ ~Told(e)
        BY <2>3, <2>4, <2>7, ServedAttends
  <2>9. QED
        BY <1>3, <2>4, <2>5, <2>6, <2>8
<1>18. CASE watching[d]
  <2>1. inbox'[d] = u
        BY <1>15, <1>18
  <2>2. t \in Seq(M) /\ Longer(e, x, t)
        BY <1>12
  <2>3. u \in Seq(M) /\ Longer(t, y, u)
        BY <1>13
  <2>4. Fresh(ledger, cache[d], u, pending[d], Covers(todo[d]))
    <3>1. PICK p : p = pending[d]
          OBVIOUS
    <3>2. PICK T : T = Covers(todo[d])
          OBVIOUS
    <3>3. PICK n \in Nat :
              /\ n = Acks(e) /\ n + 1 \in DOMAIN p /\ h = p[n + 1]
              /\ Due(ledger, p, n, T)
          BY <1>1, <1>2, <1>9, <3>1, <3>2, NextIsPending
    <3>4. DOMAIN p \subseteq Nat
      <4>1. pending[d] \in Seq(Write(G))
            BY DEF DatabaseInv
      <4>2. DOMAIN p = 1..Len(p)
            BY <3>1, <4>1, LenProperties
      <4>3. QED
            BY <4>2
    <3>5. x.write = p[n + 1]
          BY <1>5, <3>3
    <3>6. PICK c : c = cache[d]
          OBVIOUS
    <3>7. Fresh(ledger, c, e, p, T)
          BY <1>9, <1>16, <3>1, <3>2, <3>6 DEF Sees
    <3>8. x \in M /\ x.kind = "event" /\ y \in M /\ y.kind = "ack"
          BY <1>5, <1>6, <1>8
    <3>9. n = Acks(e) /\ n + 1 \in DOMAIN p /\ Due(ledger, p, n, T)
          BY <3>3
    <3>10. Fresh(ledger, c, u, p, T)
           BY <2>2, <2>3, <3>4, <3>5, <3>7, <3>8, <3>9, FreshWhenServed
    <3>11. QED
           BY <3>1, <3>2, <3>6, <3>10
  <2>5. Sees(d)'
        BY <1>2, <2>1, <2>4 DEF Sees
  <2>6. Attends(online[d], listens[d], watching[d], cache[d], v, t)
        BY <1>5, <1>8, <1>17, <1>18, <2>2, AttendsTold
  <2>7. Attends(online[d], listens[d], watching[d], cache[d], v, u)
        BY <1>6, <1>8, <2>2, <2>3, <2>6, AttendsSilent
  <2>8. Watches(d)'
        BY <1>2, <1>11, <2>1, <2>7 DEF Watches
  <2>9. QED
        BY <1>2, <1>16, <2>5, <2>8, OnlyOne
<1>19. CASE ~watching[d]
  <2>1. inbox'[d] = s
        BY <1>15, <1>19
  <2>2. s \in Seq(M) /\ Longer(e, y, s)
        BY <1>14
  <2>3. cache[d] = Absent /\ ~Told(s)
    <3>1. Told(s) <=> Told(e)
          BY <1>6, <1>8, <2>2, MoreTold
    <3>2. QED
          BY <1>17, <1>19, <3>1
  <2>4. Fresh(ledger, Absent, s, pending[d], Covers(todo[d]))
        BY <2>2, <2>3, UnshownIsFresh
  <2>5. Sees(d)'
        BY <1>2, <2>1, <2>3, <2>4 DEF Sees
  <2>6. Attends(online[d], listens[d], watching[d], cache[d], v, s)
        BY <1>6, <1>8, <1>17, <2>2, AttendsSilent
  <2>7. Watches(d)'
        BY <1>2, <1>11, <2>1, <2>6 DEF Watches
  <2>8. QED
        BY <1>2, <1>16, <2>5, <2>7, OnlyOne
<1>20. QED
       BY <1>3, <1>18, <1>19

LEMMA ServeGetAttends ==
    ASSUME NEW G, NEW B, DatabaseInv(G, B), TurnInv, NEW d \in Device, Solo, Attentive,
           ServeGet(d), UNCHANGED ledger
    PROVE  Attentive'
<1> DEFINE C == Call(G, B[d])
           N == Message(G, B[d])
<1>1. PICK x : x = Reply(Head(wire[d]).then, [l \in Head(wire[d]).leaves |-> record[l]])
      OBVIOUS
<1>2. /\ wire[d] # <<>> /\ Head(wire[d]).kind = "get"
      /\ wire' = [wire EXCEPT ![d] = Tail(@)] /\ inbox' = [inbox EXCEPT ![d] = Append(@, x)]
      /\ UNCHANGED <<todo, pending, cache, listens, watching, online>>
      BY <1>1 DEF ServeGet, Reachable, TurnInv, linkVars
<1>3. /\ wire[d] \in Seq(C) /\ inbox[d] \in Seq(N)
      /\ DOMAIN wire = Device /\ DOMAIN inbox = Device
      BY DEF DatabaseInv
<1>4. x.kind = "reply"
      BY <1>1 DEF Reply
<1>5. PICK M : M = N \cup {x}
      OBVIOUS
<1> HIDE DEF C, N
<1>6. inbox[d] \in Seq(M) /\ x \in M
      BY <1>3, <1>5
<1>7. PICK e \in Seq(M) : e = inbox[d]
      BY <1>6
<1>8. PICK w \in Seq(C) : w = wire[d]
      BY <1>3
<1>9. PICK v \in Seq(C) : v = Tail(wire[d]) /\ Shorter(w, v)
      BY <1>2, <1>3, <1>8, TailIsShorter
<1>10. PICK t \in Seq(M) : t = Append(e, x) /\ Longer(e, x, t)
       BY <1>6, <1>7, AppendIsLonger
<1>11. wire'[d] = v /\ inbox'[d] = t
       BY <1>2, <1>3, <1>7, <1>9, <1>10
<1>12. w[1].kind # "listen" /\ (Mute(w) => Mute(v))
  <2>1. w[1].kind = "get"
        BY <1>2, <1>3, <1>8, TailIsShorter
  <2>2. Elements(v) \subseteq Elements(w)
        BY <1>2, <1>3, <1>8, <1>9, ElementsOfTail DEF First
  <2>3. QED
        BY <2>1, <2>2 DEF Mute
<1>13. Sees(d) /\ Watches(d) /\ DOMAIN listens = Device /\ DOMAIN online = Device
       BY DEF Attentive
<1>14. Sees(d)'
  <2>1. t \in Seq(M) /\ Longer(e, x, t)
        BY <1>10
  <2>2. Fresh(ledger, cache[d], e, pending[d], Covers(todo[d]))
        BY <1>7, <1>13 DEF Sees
  <2>3. Fresh(ledger, cache[d], t, pending[d], Covers(todo[d]))
        BY <1>4, <1>6, <2>1, <2>2, FreshWithSilent
  <2>4. QED
        BY <1>2, <1>11, <2>3 DEF Sees
<1>15. Watches(d)'
  <2>1. PICK wt : wt = watching[d]
        OBVIOUS
  <2>2. PICK c : c = cache[d]
        OBVIOUS
  <2>3. Attends(online[d], listens[d], wt, c, w, e)
        BY <1>7, <1>8, <1>13, <2>1, <2>2 DEF Watches
  <2>4. v \in Seq(C) /\ Shorter(w, v)
        BY <1>9
  <2>5. Attends(online[d], listens[d], wt, c, v, e)
        BY <1>12, <2>3, <2>4, ServedAttends
  <2>6. t \in Seq(M) /\ Longer(e, x, t)
        BY <1>10
  <2>7. Attends(online[d], listens[d], wt, c, v, t)
        BY <1>4, <1>6, <2>5, <2>6, AttendsSilent
  <2>8. QED
        BY <1>2, <1>11, <2>1, <2>2, <2>7 DEF Watches
<1>16. QED
       BY <1>2, <1>13, <1>14, <1>15, OnlyOne

LEMMA ServeListenAttends ==
    ASSUME NEW G, NEW B, DatabaseInv(G, B), QueueInv, TurnInv, NEW d \in Device, Solo,
           Attentive, ServeListen(d), UNCHANGED ledger
    PROVE  Attentive'
<1> DEFINE N == Message(G, B[d])
<1>1. PICK x : x = Event(record)
      OBVIOUS
<1>2. /\ wire[d] # <<>> /\ Head(wire[d]).kind = "listen"
      /\ inbox' = [inbox EXCEPT ![d] = Append(@, x)]
      /\ watching' = [watching EXCEPT ![d] = TRUE]
      /\ UNCHANGED <<todo, pending, cache, listens, online>>
      BY <1>1 DEF ServeListen, Reachable, TurnInv
<1>3. inbox[d] \in Seq(N) /\ DOMAIN inbox = Device /\ DOMAIN record = Leaf
      BY DEF DatabaseInv, Patch
<1>4. x.kind = "event" /\ x.write = record
      BY <1>1 DEF Event
<1>5. PICK M : M = N \cup {x}
      OBVIOUS
<1> HIDE DEF N
<1>6. inbox[d] \in Seq(M) /\ x \in M
      BY <1>3, <1>5
<1>7. PICK e \in Seq(M) : e = inbox[d]
      BY <1>6
<1>8. PICK t \in Seq(M) : t = Append(e, x) /\ Longer(e, x, t)
      BY <1>6, <1>7, AppendIsLonger
<1>9. t \in Seq(M) /\ Longer(e, x, t)
      BY <1>8
<1>10. inbox'[d] = t /\ watching'[d] = TRUE
       BY <1>2, <1>3, <1>7, <1>8 DEF QueueInv
<1>11. Sees(d) /\ Watches(d) /\ DOMAIN listens = Device /\ DOMAIN online = Device
       BY DEF Attentive
<1>12. listens[d]
  <2>1. wire[d] \in Seq(Call(G, B[d]))
        BY DEF DatabaseInv
  <2>2. Head(wire[d]) \in Elements(wire[d])
        BY <1>2, <2>1, ElementsOfTail DEF First
  <2>3. ~Mute(wire[d])
        BY <1>2, <2>2 DEF Mute
  <2>4. QED
        BY <1>11, <2>3 DEF Watches, Attends
<1>13. ASSUME NEW l \in Kept \ Covers(todo[d]), ~Open(t, pending[d], Len(t), l)
       PROVE  l \in DOMAIN record /\ Right(ledger, l, record[l])
  <2>1. Acks(t) = Acks(inbox[d])
    <3>1. AckAdded(e, x, t)
          BY <1>6, <1>9, MoreAcks
    <3>2. QED
          BY <1>4, <1>7, <3>1 DEF AckAdded
  <2>2. \A j \in DOMAIN pending[d] : j > Acks(inbox[d]) => l \notin DOMAIN pending[d][j]
        BY <1>9, <1>13, <2>1, OpenAtEnd
  <2>3. up[d]
        BY DEF TurnInv
  <2>4. l \notin Covers(wire[d])
        BY <2>2, <2>3, SentIsPending
  <2>5. \A f \in Device : l \notin Unserved(f)
        BY <1>13, <2>4 DEF Solo, Unserved
  <2>6. RecordRight
        BY DEF TurnInv
  <2>7. Right(ledger, l, record[l])
        BY <1>13, <2>5, <2>6 DEF RecordRight
  <2>8. l \in Leaf
        BY <1>13, LeavesAreLeaves DEF Kept, Ledgered
  <2>9. QED
        BY <1>3, <2>7, <2>8
<1>14. Sees(d)'
  <2>1. ASSUME NEW l \in Kept \ Covers(todo[d]), ~Open(t, pending[d], Len(t), l),
               NEW v, Shows(cache[d], t, Len(t), l, v)
        PROVE  Right(ledger, l, v)
    <3>1. l \in DOMAIN record /\ Right(ledger, l, record[l])
          BY <1>13, <2>1
    <3>2. Tells(x, l)
          BY <1>4, <3>1 DEF Tells
    <3>3. v = x.write[l]
          BY <1>6, <1>9, <2>1, <3>2, ShownAtEnd
    <3>4. QED
          BY <1>4, <3>1, <3>3
  <2>2. Fresh(ledger, cache[d], e, pending[d], Covers(todo[d]))
        BY <1>7, <1>11 DEF Sees
  <2>3. Fresh(ledger, cache[d], t, pending[d], Covers(todo[d]))
        BY <1>6, <1>9, <2>1, <2>2, FreshWithOneMore
  <2>4. QED
        BY <1>2, <1>10, <2>3 DEF Sees
<1>15. Watches(d)'
  <2>1. Told(t) /\ (FullFirst(e) => FullFirst(t))
        BY <1>3, <1>4, <1>6, <1>9, MoreTold
  <2>2. QED
        BY <1>2, <1>7, <1>10, <1>11, <1>12, <2>1 DEF Watches, Attends
<1>16. QED
       BY <1>2, <1>11, <1>14, <1>15, OnlyOne

\* A connection is lost: what was on its way is, but not the writes.
LEMMA DisconnectAttends ==
    ASSUME NEW G, NEW B, DatabaseInv(G, B), QueueInv, NEW d \in Device, Solo, Attentive,
           Disconnect(d), UNCHANGED ledger
    PROVE  Attentive'
<1>1. PICK z : z = <<>>
      OBVIOUS
<1>2. /\ inbox'[d] = z /\ wire'[d] = Resends(d) /\ watching'[d] = FALSE
      /\ online' = [online EXCEPT ![d] = FALSE]
      /\ UNCHANGED <<todo, pending, cache, listens>>
      BY <1>1 DEF Disconnect, DatabaseInv, QueueInv
<1>3. Sees(d) /\ Watches(d) /\ DOMAIN listens = Device /\ DOMAIN online = Device
      BY DEF Attentive
<1>4. online'[d] = FALSE /\ DOMAIN online' = Device
      BY <1>2, <1>3
<1>5. Len(z) = 0 /\ DOMAIN z = {}
      BY <1>1
<1>6. Fresh(ledger, cache[d], z, pending[d], Covers(todo[d]))
  <2>1. ASSUME NEW l
        PROVE  /\ Open(inbox[d], pending[d], 0, l) <=> Open(z, pending[d], 0, l)
               /\ \A v : Shows(cache[d], z, 0, l, v) => Shows(cache[d], inbox[d], 0, l, v)
    <3>1. inbox[d] \in Seq(Message(G, B[d]))
          BY DEF DatabaseInv
    <3>2. Upto(inbox[d], "ack", 0) = {} /\ Upto(z, "ack", 0) = {}
      <4>1. DOMAIN inbox[d] \subseteq Nat \ {0}
            BY <3>1, LenProperties
      <4>2. QED
            BY <1>5, <4>1 DEF Upto, Calls
    <3>3. QED
          BY <3>2 DEF Open, Shows
  <2>2. 0 \in 0..Len(inbox[d])
    <3>1. Len(inbox[d]) \in Nat
          BY LenProperties DEF DatabaseInv
    <3>2. QED
          BY <3>1
  <2>3. \A i \in 0..Len(z) : i = 0
        BY <1>5
  <2>4. QED
        BY <1>3, <2>1, <2>2, <2>3 DEF Sees, Fresh
<1>7. Sees(d)'
      BY <1>2, <1>6 DEF Sees
<1>8. Watches(d)'
  <2>1. ~Told(z) /\ FullFirst(z)
        BY <1>5 DEF Told, FullFirst
  <2>2. Mute(Resends(d))
        BY ResendsAreCalls DEF Mute
  <2>3. QED
        BY <1>2, <1>3, <1>4, <2>1, <2>2 DEF Watches, Attends
<1>9. QED
      BY <1>2, <1>3, <1>4, <1>7, <1>8, OnlyOne

\* It is restored: what a client listens to comes first.
LEMMA ReconnectAttends ==
    ASSUME NEW G, NEW B, DatabaseInv(G, B), QueueInv, NEW d \in Device, Solo, Attentive,
           Reconnect(d), UNCHANGED ledger
    PROVE  Attentive'
<1> DEFINE C == Call(G, B[d])
<1>1. /\ wire[d] \in Seq(C) /\ held[d] \in Seq(C) /\ Observe \in C
      BY ObserveIsCall DEF DatabaseInv
<1> HIDE DEF C
<1>2. PICK o \in Seq(C) : o = IF listens[d] THEN <<Observe>> ELSE <<>>
  <2>1. <<Observe>> \in Seq(C) /\ <<>> \in Seq(C)
        BY <1>1
  <2>2. QED
        BY <2>1
<1>3. PICK g \in Seq(C) : g = wire[d] \o held[d] /\ Joined(wire[d], held[d], g)
      BY <1>1, ConcatIsJoined
<1>4. PICK v \in Seq(C) : v = o \o g
  <2>1. PICK v \in Seq(C) : v = o \o g /\ Joined(o, g, v)
        BY ConcatIsJoined
  <2>2. QED
        BY <2>1
<1>5. /\ wire'[d] = v /\ online' = [online EXCEPT ![d] = TRUE]
      /\ UNCHANGED <<todo, pending, inbox, cache, listens, watching>>
  <2>1. o \o g = (o \o wire[d]) \o held[d]
    <3>1. PICK a \in Seq(C) : a = wire[d]
          BY <1>1
    <3>2. PICK b \in Seq(C) : b = held[d]
          BY <1>1
    <3>3. (o \o a) \o b = o \o (a \o b)
          BY ConcatAssociative
    <3>4. QED
          BY <1>3, <3>1, <3>2, <3>3
  <2>2. wire' = [wire EXCEPT ![d] = (o \o wire[d]) \o held[d]]
        BY <1>2 DEF Reconnect
  <2>3. wire'[d] = v
        BY <1>4, <2>1, <2>2 DEF DatabaseInv
  <2>4. QED
        BY <2>3 DEF Reconnect
<1>6. Sees(d) /\ Watches(d) /\ DOMAIN listens = Device /\ DOMAIN online = Device
      BY DEF Attentive
<1>7. Sees(d)'
      BY <1>5, <1>6 DEF Sees
<1>8. CASE listens[d]
  <2>1. ListenLeads(v)
    <3>1. v = <<Observe>> \o g
          BY <1>2, <1>4, <1>8
    <3>2. 1 \in DOMAIN v /\ v[1] = Observe /\ DOMAIN v \subseteq Nat \ {0}
      <4>1. <<Observe>> \in Seq(C) /\ Len(<<Observe>>) = 1 /\ <<Observe>>[1] = Observe
            BY <1>1
      <4>2. /\ Len(<<Observe>> \o g) = 1 + Len(g)
            /\ \A i \in 1..(1 + Len(g)) :
                  (<<Observe>> \o g)[i] = IF i <= 1 THEN <<Observe>>[i] ELSE g[i - 1]
            BY <4>1, ConcatProperties
      <4>3. Len(g) \in Nat /\ DOMAIN v = 1..Len(v)
            BY LenProperties
      <4>4. QED
            BY <3>1, <4>1, <4>2, <4>3
    <3>3. ASSUME NEW i \in DOMAIN v, v[i].kind = "put"
          PROVE  1 < i
      <4>1. i # 1
            BY <3>2, <3>3 DEF Observe
      <4>2. QED
            BY <3>2, <4>1
    <3>4. QED
          BY <3>2, <3>3 DEF ListenLeads, Observe
  <2>2. Watches(d)'
        BY <1>5, <1>6, <1>8, <2>1 DEF Watches, Attends
  <2>3. QED
        BY <1>5, <1>6, <1>7, <2>2, OnlyOne
<1>9. CASE ~listens[d]
  <2>1. v = g
        BY <1>2, <1>4, <1>9, ConcatEmptySeq
  <2>2. \A x \in Elements(held[d]) : x.kind = "get"
        BY DEF QueueInv, QueueOf, Elements
  <2>3. Mute(wire[d]) => Mute(v)
        BY <1>3, <2>1, <2>2 DEF Mute, Joined
  <2>4. Watches(d)'
        BY <1>5, <1>6, <1>9, <2>3 DEF Watches, Attends
  <2>5. QED
        BY <1>5, <1>6, <1>7, <2>4, OnlyOne
<1>10. QED
       BY <1>8, <1>9

LEMMA StaysAttentive ==
    ASSUME Inv(TRUE), QueueInv, TurnInv, Solo, Attentive,
           Unseen \/ \E d \in Device : Acted(d) \/ Outside(d)
    PROVE  Attentive'
<1>1. PICK G : G = Known(TRUE, ledger)
      OBVIOUS
<1>2. DatabaseInv(G, Blocks) /\ Allows(G)
      BY <1>1, KnownAllows DEF Inv, WalletInv
<1>3. CASE Unseen
  <2>1. UNCHANGED <<ledger, cache, watching, listens, online, todo, pending, wire, inbox>>
        BY <1>3 DEF Unseen, dbVars, clientVars, linkVars
  <2>2. QED
        BY <2>1 DEF Attentive, Sees, Watches
<1>4. ASSUME NEW d \in Device, Acted(d)
      PROVE  Attentive'
      BY <1>2, <1>4, ActedAttends
<1>5. ASSUME NEW d \in Device, Outside(d)
      PROVE  Attentive'
  <2>1. UNCHANGED ledger
        BY <1>5 DEF Outside
  <2>2. CASE ClientStep(d)
        BY <1>2, <2>1, <2>2, ExecutedAttends, ReceiveAckAttends DEF ClientStep
  <2>3. CASE ReceiveEvent(d)
        BY <1>2, <2>1, <2>3, ReceiveEventAttends
  <2>4. CASE ServerStep(d)
        BY <1>2, <2>1, <2>4, ServeWriteAttends, ServeGetAttends, ServeListenAttends
        DEF ServerStep
  <2>5. CASE Disconnect(d) \/ Reconnect(d)
        BY <1>2, <2>1, <2>5, DisconnectAttends, ReconnectAttends
  <2>6. QED
        BY <1>5, <2>2, <2>3, <2>4, <2>5 DEF Outside
<1>6. QED
      BY <1>3, <1>4, <1>5

LEMMA InitAttentive ==
    ASSUME WalletInit
    PROVE  Attentive
<1>1. PICK opening \in Openings : SessionInit(opening)
      BY DEF WalletInit, UsersInit
<1>2. /\ DOMAIN listens = Device /\ DOMAIN online = Device
      /\ \A d \in Device : /\ ~listens[d] /\ ~watching[d] /\ cache[d] = Absent
                           /\ wire[d] = <<>> /\ inbox[d] = <<>>
      BY <1>1 DEF SessionInit, DatabaseInit
<1>3. ASSUME NEW d \in Device
      PROVE  Sees(d) /\ Watches(d)
  <2>1. PICK S : S = {Ack}
        OBVIOUS
  <2>2. inbox[d] \in Seq(S) /\ DOMAIN inbox[d] = {}
    <3>1. <<>> \in Seq(S) /\ DOMAIN <<>> = {}
          BY EmptySeq
    <3>2. QED
          BY <1>2, <3>1
  <2>3. ~Told(inbox[d]) /\ FullFirst(inbox[d])
        BY <2>2 DEF Told, FullFirst
  <2>4. Sees(d)
    <3>1. Fresh(ledger, Absent, inbox[d], pending[d], Covers(todo[d]))
          BY <2>2, <2>3, UnshownIsFresh
    <3>2. QED
          BY <1>2, <3>1 DEF Sees
  <2>5. Mute(wire[d])
        BY <1>2, NothingQueued DEF Mute
  <2>6. QED
        BY <1>2, <2>3, <2>4, <2>5 DEF Watches, Attends
<1>4. QED
      BY <1>2, <1>3 DEF Attentive

-----------------------------------------------------------------------------
(* Users who wait, and see nothing that is stale.                          *)

TakingTurns == ~Overlap /\ Named /\ (Listening = {} \/ Solo)

Undisturbed == TurnInv /\ ((Listening = {} /\ Deaf) \/ (Solo /\ Attentive))

LEMMA TurnsBegin ==
    ASSUME TakingTurns, WalletInit
    PROVE  Undisturbed
BY InitTurns, InitDeaf, InitAttentive DEF TakingTurns, Undisturbed

LEMMA TurnsMove ==
    ASSUME TakingTurns, Inv(TRUE), FaultsType, QueueInv, Undisturbed, [WalletNext]_vars
    PROVE  \/ TurnInv' /\ (Unseen \/ \E d \in Device : Acted(d) \/ Outside(d))
           \/ ProcessHasEnded'
<1>1. \A d \in Device : CacheGood(d)
  <2>1. PICK G : DatabaseInv(G, Blocks)
        BY DEF Inv
  <2>2. QED
        BY <2>1, DeafIsGood, AttentiveIsGood DEF Undisturbed
<1>2. QED
      BY <1>1, WalletTurns DEF TakingTurns, Undisturbed

LEMMA TurnsGoOn ==
    ASSUME TakingTurns, Inv(TRUE), FaultsType, QueueInv, Undisturbed, [WalletNext]_vars
    PROVE  Undisturbed' \/ ProcessHasEnded'
BY TurnsMove, StaysDeaf, StaysAttentive DEF Undisturbed

LEMMA TurnsHold ==
    ASSUME TakingTurns
    PROVE  WalletSpec => [](Undisturbed \/ ProcessHasEnded)
<1>1. WalletInit => Undisturbed /\ FaultsType /\ QueueInv
      BY TurnsBegin, InitFaults, QueueInitHolds DEF WalletInit
<1>2. Inv(TRUE) /\ QueueInv /\ [WalletNext]_vars => QueueInv'
      BY WalletMoves
<1>3. Inv(TRUE) /\ FaultsType /\ [WalletNext]_vars
      => FaultsType' /\ (ProcessHasEnded => ProcessHasEnded')
      BY WalletFaults
<1>4. Inv(TRUE) /\ FaultsType /\ QueueInv /\ Undisturbed /\ [WalletNext]_vars
      => Undisturbed' \/ ProcessHasEnded'
      BY TurnsGoOn
<1>5. QED
      BY <1>1, <1>2, <1>3, <1>4, InvHolds, PTL DEF WalletSpec

LEMMA TurnsCount ==
    ASSUME Undisturbed
    PROVE  OneRewardPerDay
BY DEF Undisturbed, TurnInv, Counted, OneRewardPerDay

LEMMA TurnsBalance ==
    ASSUME Undisturbed, ~Reuse
    PROVE  Balanced
<1> SUFFICES ASSUME \A d \in Device : Settled(d)
             PROVE  \A l \in Kept : Right(ledger, l, record[l])
    BY RightAt DEF Balanced, Kept, Ledgered, InventoryLeaves
<1>1. \A d \in Device : Unserved(d) = {}
      BY NothingQueued DEF Settled, Unserved
<1>2. QED
      BY <1>1 DEF Undisturbed, TurnInv, RecordRight

\* A user who waits for each answer gets the reward of a day once, however often
\* the button is pressed (GameViewController.swift:98 compares the date that 106
\* sets, after the gets of 131 and 148 are dispatched), over lost connections and
\* from any device, until a process ends: its writes that are not sent are gone,
\* the date among them.
THEOREM RewardsAreSingle ==
    ASSUME TakingTurns
    PROVE  WalletSpec => [](~ProcessHasEnded => OneRewardPerDay)
<1>1. Undisturbed \/ ProcessHasEnded => (~ProcessHasEnded => OneRewardPerDay)
      BY TurnsCount
<1>2. QED
      BY <1>1, TurnsHold, PTL

\* The record then shows what every block deducted, added and delivered, whenever
\* nothing is under way: of the chains of reads and writes of purchases, claims and
\* redemptions (StoreTableViewCell.swift:40 and 61, GameViewController.swift:131 and
\* 148, ManualEntryViewController.swift:208) none loses an update of another, and a write
\* that a new connection sends again changes nothing.  A cell that is used again
\* for another item may deliver that one: ~Reuse.
THEOREM RecordBalances ==
    ASSUME TakingTurns, ~Reuse
    PROVE  WalletSpec => []Balanced
<1>1. Undisturbed \/ ProcessHasEnded => Balanced
      BY TurnsBalance DEF Balanced
<1>2. QED
      BY <1>1, TurnsHold, PTL
-----------------------------------------------------------------------------
(* The total the leaderboard ranks by, while nothing goes wrong: the       *)
(* totals on a wire do not fall, and lie between that of the record and    *)
(* that of the ledger.                                                     *)

\* The total that a write sets.
Sets(x)  == AllTimeLeaves \in Cover(x)
Total(x) == OrZero(x.write[AllTimeLeaves])

Climbs(low, w, high) ==
    /\ \A i \in DOMAIN w : Sets(w[i]) => low <= Total(w[i]) /\ Total(w[i]) <= high
    /\ \A i, j \in DOMAIN w : i < j /\ Sets(w[i]) /\ Sets(w[j]) => Total(w[i]) <= Total(w[j])

Ranked   == OrZero(record[AllTimeLeaves])
Climbing == \A d \in Device : online[d] /\ Climbs(Ranked, wire[d], ledger.allTime)

RankKept == Ranked' >= Ranked

LEMMA TotalsAreInts ==
    ASSUME NEW alone, Inv(alone), NEW d \in Device
    PROVE  /\ Ranked \in Int /\ ledger.allTime \in Int
           /\ wire[d] \in Seq(Call(Known(alone, ledger), Blocks[d]))
           /\ \A i \in DOMAIN wire[d] : Sets(wire[d][i]) =>
                 wire[d][i].kind = "put" /\ Total(wire[d][i]) \in Int
<1>1. PICK G : G = Known(alone, ledger)
      OBVIOUS
<1>2. /\ DatabaseInv(G, Blocks)
      /\ ledger.allTime \in Int
      BY <1>1, BookFields, MoneyIsInt DEF Inv, WalletInv
<1>3. G[AllTimeLeaves] \subseteq Int \cup {Absent} /\ AllTimeLeaves \in Leaf
      BY <1>1, KnownLeaves, MoneyIsInt, LeavesAreLeaves
<1>4. Ranked \in Int
  <2>1. record[AllTimeLeaves] \in G[AllTimeLeaves]
        BY <1>2, <1>3 DEF DatabaseInv, Patch
  <2>2. QED
        BY <1>3, <2>1 DEF Ranked, OrZero
<1>5. ASSUME NEW i \in DOMAIN wire[d], Sets(wire[d][i])
      PROVE  wire[d][i].kind = "put" /\ Total(wire[d][i]) \in Int
  <2>1. wire[d][i].kind = "put" /\ AllTimeLeaves \in DOMAIN wire[d][i].write
        BY <1>5 DEF Sets, Cover
  <2>2. wire[d][i] \in Call(G, Blocks[d])
        BY <1>2, ElementOfSeq DEF DatabaseInv
  <2>3. wire[d][i].write[AllTimeLeaves] \in G[AllTimeLeaves]
        BY <2>1, <2>2, CallKinds, WriteValues
  <2>4. QED
        BY <1>3, <2>1, <2>3 DEF Total, OrZero
<1>6. QED
      BY <1>1, <1>2, <1>4, <1>5 DEF DatabaseInv

\* The ledger's total does not fall.
LEMMA AllTimeGrows ==
    ASSUME Quantity \subseteq Nat, Inv(TRUE), [WalletNext]_vars
    PROVE  ledger.allTime <= ledger'.allTime
<1>1. ledger \in Book /\ ledger.allTime \in Int
      BY BookFields, MoneyIsInt DEF Inv, WalletInv
<1>2. ASSUME NEW d \in Device, GotRewardAllTime(d)
      PROVE  ledger.allTime <= ledger'.allTime
  <2>1. PICK a \in AnswersTo(d, "rewardAllTime") :
            ledger' = IF a.snap[AllTimeLeaves] = Absent THEN ledger
                      ELSE [ledger EXCEPT !.allTime = @ + a.then.total]
        BY <1>2 DEF GotRewardAllTime
  <2>2. a.then.total \in Nat
    <3>1. a.then \in Tag /\ a.then.op = "rewardAllTime"
          BY BlockFacts
    <3>2. QED
          BY <3>1, TagFields
  <2>3. QED
        BY <1>1, <2>1, <2>2 DEF Book
<1>3. ASSUME NEW d \in Device, GotUser(d)
      PROVE  ledger.allTime <= ledger'.allTime
  <2>1. PICK a \in AnswersTo(d, "redeem") :
            ledger' = IF Exists(a.snap)
                      THEN [ledger EXCEPT !.current = @ + a.then.leaves,
                                          !.allTime = @ + a.then.leaves,
                                          !.redeemed = @ + a.then.leaves]
                      ELSE ledger
        BY <1>3 DEF GotUser
  <2>2. a.then.leaves \in Nat
    <3>1. a.then \in Tag /\ a.then.op = "redeem"
          BY BlockFacts
    <3>2. QED
          BY <3>1, TagFields DEF Money
  <2>3. QED
        BY <1>1, <2>1, <2>2 DEF Book
<1>4. ASSUME NEW d \in Device, GotBuyLeaves(d) \/ Deliver(d) \/ GotClaimDate(d) \/ GotRewardCurrent(d)
      PROVE  ledger'.allTime = ledger.allTime
      BY <1>1, <1>4 DEF GotBuyLeaves, Deliver, GotClaimDate, GotRewardCurrent, historyVars, Book
<1>5. ASSUME NEW d \in Device,
             \/ ClaimOnClick(d) \/ Refuse(d) \/ CrashOnNilLeaves(d) \/ CrashOnPartialUser(d)
             \/ UNCHANGED walletVars
             \/ \E c \in Cell : BuyOnClick(d, c) \/ \E k \in Key : CellForRow(d, c, k)
             \/ \E form \in [Entry -> Quantity] : RedeemButtonPressed(d, form)
      PROVE  ledger' = ledger
      BY <1>5 DEF ClaimOnClick, Refuse, CrashOnNilLeaves, CrashOnPartialUser, walletVars,
         historyVars, BuyOnClick, CellForRow, RedeemButtonPressed
<1>6. CASE NextDay \/ UNCHANGED vars
      BY <1>1, <1>6 DEF NextDay, vars, walletVars, historyVars
<1>7. QED
      BY <1>1, <1>2, <1>3, <1>4, <1>5, <1>6 DEF WalletNext, StoreStep, RewardStep, RedeemStep

\* A wire with one more request, or one less.
LEMMA ClimbsWithOneMore ==
    ASSUME NEW S, NEW w \in Seq(S), NEW x \in S, NEW low \in Int, NEW high \in Int,
           Climbs(low, w, high), Sets(x) => Total(x) = high /\ low <= high
    PROVE  Climbs(low, Append(w, x), high)
<1>1. PICK n \in Nat : n = Len(w)
      BY LenProperties
<1>2. PICK v : v = Append(w, x)
      OBVIOUS
<1>3. DOMAIN w = 1..n /\ DOMAIN v = 1..(n + 1) /\ v[n + 1] = x /\ \A i \in 1..n : v[i] = w[i]
      BY <1>1, <1>2, AppendProperties, LenProperties
<1>4. \A i \in DOMAIN v : (i \in DOMAIN w /\ v[i] = w[i]) \/ v[i] = x
  <2>1. \A i \in 1..(n + 1) : i \in 1..n \/ i = n + 1
        OBVIOUS
  <2>2. QED
        BY <1>3, <2>1
<1>5. ASSUME NEW i \in DOMAIN v, Sets(v[i])
      PROVE  low <= Total(v[i]) /\ Total(v[i]) <= high
      BY <1>4, <1>5 DEF Climbs
<1>6. ASSUME NEW i \in DOMAIN v, NEW j \in DOMAIN v, i < j, Sets(v[i]), Sets(v[j])
      PROVE  Total(v[i]) <= Total(v[j])
  <2>1. i \in DOMAIN w /\ v[i] = w[i]
        BY <1>3, <1>6
  <2>2. CASE j = n + 1
        BY <1>3, <1>5, <1>6, <2>2
  <2>3. CASE j # n + 1
    <3>1. j \in DOMAIN w /\ v[j] = w[j]
          BY <1>3, <2>3
    <3>2. QED
          BY <1>6, <2>1, <3>1 DEF Climbs
  <2>4. QED
        BY <2>2, <2>3
<1>7. QED
      BY <1>2, <1>5, <1>6 DEF Climbs

LEMMA ClimbsWithOneLess ==
    ASSUME NEW S, NEW w \in Seq(S), w # <<>>, NEW low, NEW high, Climbs(low, w, high)
    PROVE  /\ Climbs(low, Tail(w), high)
           /\ Sets(Head(w)) => low <= Total(Head(w)) /\ Climbs(Total(Head(w)), Tail(w), high)
<1>1. PICK v \in Seq(S) : v = Tail(w) /\ Shorter(w, v)
      BY TailIsShorter
<1>2. /\ 1 \in DOMAIN w /\ Head(w) = w[1]
      /\ \A i \in DOMAIN v : i \in Nat /\ 1 < i + 1 /\ i + 1 \in DOMAIN w /\ v[i] = w[i + 1]
      BY <1>1, HeadTailProperties, LenProperties DEF Shorter
<1>3. ASSUME NEW i \in DOMAIN v, NEW j \in DOMAIN v, i < j, Sets(v[i]), Sets(v[j])
      PROVE  Total(v[i]) <= Total(v[j])
  <2>1. i + 1 < j + 1
        BY <1>2, <1>3
  <2>2. QED
        BY <1>2, <1>3, <2>1 DEF Climbs
<1>4. ASSUME NEW i \in DOMAIN v, Sets(v[i])
      PROVE  /\ low <= Total(v[i]) /\ Total(v[i]) <= high
             /\ Sets(Head(w)) => Total(Head(w)) <= Total(v[i])
      BY <1>2, <1>4 DEF Climbs
<1>5. Sets(Head(w)) => low <= Total(Head(w))
      BY <1>2 DEF Climbs
<1>6. QED
      BY <1>1, <1>3, <1>4, <1>5 DEF Climbs

\* A total nobody writes, or one that is no higher.
LEMMA ClimbsIfUnset ==
    ASSUME NEW low, NEW w, NEW high, AllTimeLeaves \notin Covers(w)
    PROVE  Climbs(low, w, high)
<1>1. \A i \in DOMAIN w : ~Sets(w[i])
      BY DEF Covers, Elements, Sets
<1>2. QED
      BY <1>1 DEF Climbs

LEMMA ClimbsHigher ==
    ASSUME NEW low \in Int, NEW w, NEW high \in Int, NEW top \in Int, high <= top,
           \A i \in DOMAIN w : Sets(w[i]) => Total(w[i]) \in Int,
           Climbs(low, w, high)
    PROVE  Climbs(low, w, top)
BY DEF Climbs

\* What the newest write on its way sets is the ledger's total.
LEMMA PutIsTotal ==
    ASSUME TurnInv, NEW d \in Device, NEW x \in Elements(todo[d]), Sets(x)
    PROVE  Total(x) = ledger.allTime
<1>1. PutsRight(ledger, todo[d]) /\ AllTimeLeaves \in Kept
      BY DEF TurnInv, DeviceSound, Sound, Kept, Ledgered
<1>2. Right(ledger, AllTimeLeaves, x.write[AllTimeLeaves])
      BY <1>1 DEF PutsRight, Sets
<1>3. QED
      BY <1>2 DEF Right, Total

LEMMA ActedClimbs ==
    ASSUME NEW d \in Device, Unseen \/ Acted(d)
    PROVE  UNCHANGED <<record, wire, online>>
BY DEF Unseen, Acted, Dispatch, Return, dbVars, clientVars, linkVars

LEMMA ClientClimbs ==
    ASSUME NEW alone, Inv(alone), Quantity \subseteq Nat, TurnInv, Climbing, NEW d \in Device,
           ClientStep(d), ledger' = ledger
    PROVE  Climbing' /\ RankKept
<1>1. PICK S : S = Call(Known(alone, ledger), Blocks[d])
      OBVIOUS
<1>2. /\ DatabaseInv(Known(alone, ledger), Blocks)
      /\ wire[d] \in Seq(S) /\ todo[d] \in Seq(S) /\ DOMAIN wire = Device
      BY <1>1 DEF Inv, DatabaseInv
<1>3. Ranked \in Int /\ ledger.allTime \in Int /\ Ranked <= ledger.allTime
      BY TotalsAreInts, InvIsEarned DEF AllTimeIsEarned, Ranked
<1>4. UNCHANGED <<record, online>>
      BY DEF ClientStep, ExecuteWrite, ExecuteGet, HoldGet, ExecuteListen, TimeOut, ReceiveAck,
         linkVars
<1>5. Ranked' = Ranked
      BY <1>4 DEF Ranked
<1>6. CASE wire' = wire
      BY <1>3, <1>4, <1>5, <1>6 DEF Climbing, RankKept
<1>7. ASSUME NEW x \in S, Sets(x) => Total(x) = ledger.allTime,
             wire' = [wire EXCEPT ![d] = Append(@, x)]
      PROVE  Climbing' /\ RankKept
  <2>1. Climbs(Ranked, Append(wire[d], x), ledger.allTime)
        BY <1>2, <1>3, <1>7, ClimbsWithOneMore DEF Climbing
  <2>2. QED
        BY <1>2, <1>3, <1>4, <1>5, <1>7, <2>1 DEF Climbing, RankKept
<1>8. ASSUME NEW x \in First(todo[d])
      PROVE  x \in S /\ x \in Elements(todo[d])
      BY <1>1, <1>2, FirstCall, HeadTailProperties DEF First, Elements
<1>9. CASE ExecuteWrite(d)
      BY <1>7, <1>8, <1>9, PutIsTotal DEF ExecuteWrite
<1>10. CASE ExecuteGet(d)
       BY <1>7, <1>8, <1>10 DEF ExecuteGet, Sets, Cover
<1>11. CASE ExecuteListen(d)
  <2>1. Observe \in S /\ ~Sets(Observe)
        BY <1>1, ObserveIsCall DEF Observe, Sets, Cover
  <2>2. QED
        BY <1>6, <1>7, <1>11, <2>1 DEF ExecuteListen
<1>12. CASE HoldGet(d) \/ TimeOut(d) \/ ReceiveAck(d)
       BY <1>6, <1>12 DEF HoldGet, TimeOut, ReceiveAck
<1>13. QED
       BY <1>9, <1>10, <1>11, <1>12 DEF ClientStep

LEMMA ServerClimbs ==
    ASSUME NEW alone, Inv(alone), TurnInv, Climbing, NEW d \in Device,
           ServerStep(d), ledger' = ledger
    PROVE  Climbing' /\ RankKept
<1>1. PICK S : S = Call(Known(alone, ledger), Blocks[d])
      OBVIOUS
<1>2. /\ DatabaseInv(Known(alone, ledger), Blocks)
      /\ wire[d] \in Seq(S) /\ DOMAIN wire = Device
      BY <1>1 DEF Inv, DatabaseInv
<1>3. Ranked \in Int
      BY TotalsAreInts
<1>4. wire[d] # <<>> /\ wire' = [wire EXCEPT ![d] = Tail(wire[d])] /\ online' = online
      BY DEF ServerStep, ServeWrite, ServeGet, ServeListen, Reachable, linkVars
<1>5. PICK x : x = Head(wire[d])
      OBVIOUS
<1>6. /\ Climbs(Ranked, Tail(wire[d]), ledger.allTime)
      /\ Sets(x) => /\ Ranked <= Total(x)
                    /\ Climbs(Total(x), Tail(wire[d]), ledger.allTime)
      BY <1>2, <1>4, <1>5, ClimbsWithOneLess DEF Climbing
<1>7. wire'[d] = Tail(wire[d]) /\ \A e \in Device \ {d} : wire'[e] = wire[e]
      BY <1>2, <1>4
<1>8. CASE record' = record
  <2>1. Ranked' = Ranked
        BY <1>8 DEF Ranked
  <2>2. QED
        BY <1>3, <1>4, <1>6, <1>7, <2>1 DEF Climbing, RankKept
<1>9. CASE ServeWrite(d)
  <2>1. x.kind = "put" /\ record' = Overlay(record, x.write)
        BY <1>5, <1>9 DEF ServeWrite
  <2>2. AllTimeLeaves \in Leaf /\ DOMAIN record = Leaf
        BY <1>2, LeavesAreLeaves DEF DatabaseInv, Patch
  <2>3. Ranked' = IF Sets(x) THEN Total(x) ELSE Ranked
        BY <2>1, <2>2 DEF Ranked, Overlay, Sets, Total, Cover
  <2>4. CASE ~Sets(x)
        BY <1>3, <1>4, <1>6, <1>7, <2>3, <2>4 DEF Climbing, RankKept
  <2>5. CASE Sets(x)
    <3>1. x \in Elements(wire[d])
          BY <1>2, <1>4, <1>5, HeadTailProperties, LenProperties DEF Elements
    <3>2. AllTimeLeaves \in Busy(d)
          BY <2>5, <3>1 DEF Sets, Busy, Work, Written, Covers
    <3>3. ASSUME NEW e \in Device, e # d
          PROVE  Climbs(Ranked', wire'[e], ledger.allTime)
      <4>1. Busy(e) = {}
            BY <3>2, <3>3 DEF TurnInv, Turns
      <4>2. AllTimeLeaves \notin Covers(wire[e])
            BY <4>1 DEF Busy, Work, Written
      <4>3. QED
            BY <1>7, <3>3, <4>2, ClimbsIfUnset
    <3>4. Climbs(Ranked', wire'[d], ledger.allTime) /\ Ranked <= Ranked'
          BY <1>6, <1>7, <2>3, <2>5
    <3>5. Ranked' \in Int
      <4>1. 1 \in DOMAIN wire[d] /\ wire[d][1] = x
            BY <1>2, <1>4, <1>5, HeadTailProperties, LenProperties
      <4>2. QED
            BY <2>3, <2>5, <4>1, TotalsAreInts
    <3>6. QED
          BY <1>3, <1>4, <3>3, <3>4, <3>5 DEF Climbing, RankKept
  <2>6. QED
        BY <2>4, <2>5
<1>10. QED
       BY <1>8, <1>9 DEF ServerStep, ServeGet, ServeListen

\* A step that no fault follows or comes before.
LEMMA StaysClimbing ==
    ASSUME NEW alone, Inv(alone), Quantity \subseteq Nat, TurnInv, Climbing,
           ledger.allTime <= ledger'.allTime, ledger'.allTime \in Int,
           Unseen \/ \E d \in Device : Acted(d) \/ Outside(d)
    PROVE  RankKept /\ (Climbing' \/ \E d \in Device : Disconnect(d))
<1>1. Ranked \in Int /\ ledger.allTime \in Int
      BY TotalsAreInts, SchemaAssumption
<1>2. ASSUME UNCHANGED <<record, wire, online>>
      PROVE  RankKept /\ Climbing'
  <2>1. Ranked' = Ranked
        BY <1>2 DEF Ranked
  <2>2. ASSUME NEW d \in Device
        PROVE  Climbs(Ranked, wire[d], ledger'.allTime)
        BY <1>1, TotalsAreInts, ClimbsHigher DEF Climbing
  <2>3. QED
        BY <1>1, <1>2, <2>1, <2>2 DEF Climbing, RankKept
<1>3. ASSUME NEW d \in Device, Outside(d)
      PROVE  RankKept /\ (Climbing' \/ Disconnect(d))
  <2>1. ~Reconnect(d)
        BY DEF Reconnect, Climbing
  <2>2. ASSUME ReceiveEvent(d)
        PROVE  RankKept /\ Climbing'
    <3>1. UNCHANGED <<record, wire, online>>
          BY <2>2 DEF ReceiveEvent, linkVars
    <3>2. QED
          BY <1>2, <3>1
  <2>3. CASE Disconnect(d)
    <3>1. Ranked' = Ranked
          BY <2>3 DEF Disconnect, Ranked
    <3>2. QED
          BY <1>1, <2>3, <3>1 DEF RankKept
  <2>4. QED
        BY <1>3, <2>1, <2>2, <2>3, ClientClimbs, ServerClimbs DEF Outside
<1>4. ASSUME Unseen \/ \E d \in Device : Acted(d)
      PROVE  RankKept /\ Climbing'
  <2>1. UNCHANGED <<record, wire, online>>
        BY <1>4, ActedClimbs, SchemaAssumption
  <2>2. QED
        BY <1>2, <2>1
<1>5. QED
      BY <1>3, <1>4

LEMMA InitClimbing ==
    ASSUME WalletInit
    PROVE  Climbing
<1>1. PICK opening \in Openings : SessionInit(opening)
      BY DEF WalletInit, UsersInit
<1>2. QED
      BY <1>1 DEF SessionInit, DatabaseInit, Climbing, Climbs

\* When something goes wrong, it stays so, and the record is as it was.
LEMMA FaultsSpareRecord ==
    ASSUME FaultsType, [WalletNext]_vars
    PROVE  /\ Disturbed => Disturbed'
           /\ ~ProcessHasEnded /\ ProcessHasEnded' => UNCHANGED record
           /\ \A d : Disconnect(d) => Disturbed'
<1>1. Disturbed => Disturbed'
  <2>1. faults.drops \in Nat /\ faults'.drops \in Nat /\ faults.drops <= faults'.drops
        BY WalletFaults DEF FaultsType
  <2>2. QED
        BY <2>1, WalletFaults DEF Disturbed
<1>2. ASSUME ~ProcessHasEnded, ProcessHasEnded'
      PROVE  UNCHANGED record
  <2>1. \E d : Kill(d) \/ Crash(d) \/ Disconnect(d)
        BY <1>2, WhatGoesWrong DEF ProcessHasEnded
  <2>2. QED
        BY <2>1 DEF Kill, Crash, AppEnds, ProcessEnds, Disconnect
<1>3. ASSUME NEW d, Disconnect(d)
      PROVE  Disturbed'
  <2>1. faults'.drops = faults.drops + 1 /\ faults.drops \in Nat
        BY <1>3 DEF Disconnect, FaultsType
  <2>2. QED
        BY <2>1 DEF Disturbed
<1>4. QED
      BY <1>1, <1>2, <1>3

LEMMA ClimbsOn ==
    ASSUME TakingTurns, Quantity \subseteq Nat, Inv(TRUE), Inv(TRUE)', FaultsType, QueueInv,
           Climbing \/ Disturbed, Undisturbed \/ ProcessHasEnded, [WalletNext]_vars
    PROVE  (Climbing' \/ Disturbed') /\ (~Disturbed => RankKept)
<1> SUFFICES ASSUME ~Disturbed
             PROVE  (Climbing' \/ Disturbed') /\ RankKept
    BY FaultsSpareRecord
<1>1. Undisturbed /\ TurnInv /\ Climbing /\ ~ProcessHasEnded
      BY DEF Disturbed, Undisturbed
<1>2. CASE ProcessHasEnded'
  <2>1. Ranked' = Ranked
        BY <1>1, <1>2, FaultsSpareRecord DEF Ranked
  <2>2. Ranked \in Int
        BY TotalsAreInts, SchemaAssumption
  <2>3. QED
        BY <1>2, <2>1, <2>2 DEF RankKept, Disturbed
<1>3. CASE Unseen \/ \E d \in Device : Acted(d) \/ Outside(d)
  <2>1. ledger.allTime <= ledger'.allTime
        BY AllTimeGrows
  <2>2. ledger'.allTime \in Int
        BY BookFields, MoneyIsInt DEF Inv, WalletInv
  <2>3. QED
        BY <1>1, <1>3, <2>1, <2>2, StaysClimbing, FaultsSpareRecord
<1>4. QED
      BY <1>1, <1>2, <1>3, TurnsMove

\* What the leaderboard ranks by never falls while nothing goes wrong: each block
\* of a reward or a redemption writes no less than the one before it did
\* (GameViewController.swift:154, ManualEntryViewController.swift:220), the client sends
\* the writes in that order, and the server applies them in that order.  After a lost
\* connection the writes are sent again, and the record goes through old
\* totals; when a process ends, its last writes are lost.
THEOREM RankNeverFalls ==
    ASSUME TakingTurns, Quantity \subseteq Nat
    PROVE  WalletSpec =>
              [][~Disturbed => OrZero(record'[AllTimeLeaves]) >= OrZero(record[AllTimeLeaves])]_vars
<1>1. WalletInit => /\ Climbing \/ Disturbed
                    /\ FaultsType /\ QueueInv
      BY InitClimbing, InitFaults, QueueInitHolds DEF WalletInit
<1>2. Inv(TRUE) /\ QueueInv /\ [WalletNext]_vars => QueueInv'
      BY WalletMoves
<1>3. FaultsType /\ [WalletNext]_vars => FaultsType'
      BY WalletFaults
<1>4. /\ Inv(TRUE) /\ Inv(TRUE)' /\ FaultsType /\ QueueInv /\ (Climbing \/ Disturbed)
      /\ (Undisturbed \/ ProcessHasEnded) /\ [WalletNext]_vars
      => /\ (Climbing \/ Disturbed)'
         /\ [~Disturbed =>
                OrZero(record'[AllTimeLeaves]) >= OrZero(record[AllTimeLeaves])]_vars
      BY ClimbsOn DEF RankKept, Ranked
<1>5. QED
      BY <1>1, <1>2, <1>3, <1>4, TurnsHold, InvHolds, PTL DEF WalletSpec
=============================================================================
