------------------------- MODULE LeaderboardProofs -------------------------
(***************************************************************************)
(* The board is right for any number of users, rows in the query and       *)
(* labels, whatever the users do and however often connections are lost.   *)
(*                                                                         *)
(* While the server holds the registration, the last window sent is that   *)
(* of the rows as they are, and the labels are those of the window         *)
(* processed last.  So nothing left to process means the labels of the     *)
(* window of the moment; and a window that covers the board has everybody  *)
(* ahead of a user on the board, hence the same places as all the rows.    *)
(***************************************************************************)
EXTENDS Leaderboard, TLAPS, FiniteSetTheorems, SequenceTheorems

Roster == [User -> Rows \cup {NoRow}]
Label  == [user : User \cup {NoRow}, leaves : Nat]

\* What the server may send.
Message == {w \in Roster : Cardinality(Users(w)) <= Limit}

\* The labels are those of the window, as far as it goes.
Shows(w, board) ==
    \A u \in TakingPart(w) : Index(w, u) < Places => board[Index(w, u) + 1] = LabelOf(w, u)

\* The window heard last, when everything is processed, is that of the rows.
ToldLast ==
    IF feed = <<>> THEN seen = {Window(rows)} ELSE feed[Len(feed)] = Window(rows)

BoardInv ==
    /\ rows \in Roster
    /\ listens \in BOOLEAN /\ watching \in BOOLEAN /\ online \in BOOLEAN
    /\ feed \in Seq(Message)
    /\ seen \in SUBSET Message /\ \A v, w \in seen : v = w
    /\ labels \in [1..Places -> Label]
    /\ \A w \in seen : Shows(w, labels)
    /\ watching => ToldLast

-----------------------------------------------------------------------------
(* The order of the rows.                                                  *)

LEMMA UsersHaveRows ==
    ASSUME NEW r \in Roster
    PROVE  /\ Users(r) \subseteq User /\ IsFiniteSet(Users(r))
           /\ TakingPart(r) \subseteq Users(r) /\ IsFiniteSet(TakingPart(r))
           /\ \A u \in Users(r) : r[u] \in Rows /\ r[u].leaves \in Nat /\ IdRank[u] \in Nat
<1>1. Users(r) \subseteq User /\ TakingPart(r) \subseteq Users(r)
      BY DEF Users, TakingPart
<1>2. IsFiniteSet(Users(r)) /\ IsFiniteSet(TakingPart(r))
      BY <1>1, FS_Subset, LeaderboardAssumption
<1>3. ASSUME NEW u \in Users(r)
      PROVE  r[u] \in Rows /\ r[u].leaves \in Nat /\ IdRank[u] \in Nat
      BY <1>1, LeaderboardAssumption DEF Roster, Users, Rows
<1>4. QED
      BY <1>1, <1>2, <1>3

\* A strict total order on the users with a row.
LEMMA BelowIsAnOrder ==
    ASSUME NEW r \in Roster, NEW u \in Users(r), NEW v \in Users(r)
    PROVE  /\ ~Below(r, u, u)
           /\ u # v => Below(r, u, v) \/ Below(r, v, u)
           /\ \A x \in Users(r) : Below(r, u, v) /\ Below(r, v, x) => Below(r, u, x)
<1>1. r[u].leaves \in Nat /\ r[v].leaves \in Nat /\ IdRank[u] \in Nat /\ IdRank[v] \in Nat
      BY UsersHaveRows
<1>2. ~Below(r, u, u)
      BY <1>1 DEF Below
<1>3. u # v => Below(r, u, v) \/ Below(r, v, u)
  <2>1. u # v => IdRank[u] # IdRank[v]
        BY UsersHaveRows, LeaderboardAssumption
  <2>2. QED
        BY <1>1, <2>1 DEF Below
<1>4. ASSUME NEW x \in Users(r), Below(r, u, v), Below(r, v, x)
      PROVE  Below(r, u, x)
  <2>1. r[x].leaves \in Nat /\ IdRank[x] \in Nat
        BY UsersHaveRows
  <2>2. QED
        BY <1>1, <1>4, <2>1 DEF Below
<1>5. QED
      BY <1>2, <1>3, <1>4

\* Those of S above u.
Over(r, S, u) == {y \in S : Below(r, u, y)}

\* Among any of the users, the higher one has fewer of them above it.
LEMMA HigherHasFewerAbove ==
    ASSUME NEW r \in Roster, NEW S \in SUBSET Users(r), NEW u \in S, NEW v \in S,
           Below(r, u, v)
    PROVE  /\ Cardinality(Over(r, S, u)) \in Nat /\ Cardinality(Over(r, S, v)) \in Nat
           /\ Cardinality(Over(r, S, v)) < Cardinality(Over(r, S, u))
<1>1. IsFiniteSet(S)
      BY UsersHaveRows, FS_Subset
<1>2. Over(r, S, u) \in SUBSET S /\ IsFiniteSet(Over(r, S, u))
  <2>1. Over(r, S, u) \in SUBSET S
        BY DEF Over
  <2>2. QED
        BY <1>1, <2>1, FS_Subset
<1>3. Over(r, S, v) \in SUBSET Over(r, S, u)
      BY BelowIsAnOrder DEF Over
<1>4. v \in Over(r, S, u) /\ v \notin Over(r, S, v)
      BY BelowIsAnOrder DEF Over
<1>5. /\ IsFiniteSet(Over(r, S, v))
      /\ Cardinality(Over(r, S, v)) <= Cardinality(Over(r, S, u))
      /\ Cardinality(Over(r, S, u)) = Cardinality(Over(r, S, v))
            => Over(r, S, u) = Over(r, S, v)
      BY <1>2, <1>3, FS_Subset
<1>6. Cardinality(Over(r, S, u)) \in Nat /\ Cardinality(Over(r, S, v)) \in Nat
      BY <1>2, <1>5, FS_CardinalityType
<1>7. Cardinality(Over(r, S, u)) # Cardinality(Over(r, S, v))
      BY <1>4, <1>5
<1>8. QED
      BY <1>5, <1>6, <1>7

\* So no two of them have the same number above.
LEMMA PlacesDiffer ==
    ASSUME NEW r \in Roster, NEW S \in SUBSET Users(r), NEW u \in S, NEW v \in S,
           Cardinality(Over(r, S, u)) = Cardinality(Over(r, S, v))
    PROVE  u = v
<1>1. ~Below(r, u, v)
  <2>1. ASSUME Below(r, u, v)
        PROVE  FALSE
        BY <2>1, HigherHasFewerAbove
  <2>2. QED
        BY <2>1
<1>2. ~Below(r, v, u)
  <2>1. ASSUME Below(r, v, u)
        PROVE  FALSE
        BY <2>1, HigherHasFewerAbove
  <2>2. QED
        BY <2>1
<1>3. QED
      BY <1>1, <1>2, BelowIsAnOrder

\* How many of S are above u.
LEMMA OverIsCounted ==
    ASSUME NEW r \in Roster, NEW S \in SUBSET Users(r), NEW u
    PROVE  IsFiniteSet(Over(r, S, u)) /\ Cardinality(Over(r, S, u)) \in Nat
<1>1. Over(r, S, u) \in SUBSET S
      BY DEF Over
<1>2. QED
      BY <1>1, UsersHaveRows, FS_Subset, FS_CardinalityType

-----------------------------------------------------------------------------
(* The window and the labels.                                              *)

LEMMA WindowIsThePart ==
    ASSUME NEW r \in Roster
    PROVE  /\ Window(r) \in Roster
           /\ Users(Window(r)) = {u \in Users(r) : Cardinality(Above(r, u)) < Limit}
           /\ \A u \in Users(Window(r)) : Window(r)[u] = r[u]
<1>1. \A u \in User : r[u] \in Rows \cup {NoRow}
      BY DEF Roster
<1>2. Window(r) \in Roster
      BY <1>1 DEF Window, Roster
<1>3. QED
      BY <1>2, LeaderboardAssumption DEF Window, Users

\* The number of rows above tells the rows of the window apart.
LEMMA WindowIsAMessage ==
    ASSUME NEW r \in Roster
    PROVE  Window(r) \in Message
<1> DEFINE W == Users(Window(r))
           f == [u \in W |-> Cardinality(Above(r, u)) + 1]
<1>1. \A u : Above(r, u) = Over(r, Users(r), u)
      BY DEF Above, Over
<1>2. W = {u \in Users(r) : Cardinality(Above(r, u)) < Limit}
      BY WindowIsThePart
<1>3. Limit \in Nat
      BY LeaderboardAssumption
<1>4. f \in [W -> 1..Limit]
  <2>1. ASSUME NEW u \in W
        PROVE  Cardinality(Above(r, u)) + 1 \in 1..Limit
    <3>1. Cardinality(Above(r, u)) \in Nat
          BY <1>1, OverIsCounted
    <3>2. QED
          BY <1>2, <1>3, <3>1
  <2>2. QED
        BY <2>1
<1>5. f \in Injection(W, 1..Limit)
  <2>1. ASSUME NEW u \in W, NEW v \in W, f[u] = f[v]
        PROVE  u = v
    <3>1. Cardinality(Above(r, u)) \in Nat /\ Cardinality(Above(r, v)) \in Nat
          BY <1>1, OverIsCounted
    <3>2. Cardinality(Above(r, u)) = Cardinality(Above(r, v))
          BY <2>1, <3>1
    <3>3. u \in Users(r) /\ v \in Users(r)
          BY <1>2
    <3>4. QED
          BY <1>1, <3>2, <3>3, PlacesDiffer
  <2>2. QED
        BY <1>4, <2>1 DEF Injection, IsInjective
<1>6. IsFiniteSet(1..Limit) /\ Cardinality(1..Limit) = Limit
  <2>1. 1 \in Int /\ Limit \in Int /\ ~(1 > Limit)
        BY LeaderboardAssumption
  <2>2. QED
        BY <2>1, FS_Interval
<1>7. Cardinality(W) <= Cardinality(1..Limit)
      BY <1>5, <1>6, FS_Injection
<1>8. QED
      BY <1>6, <1>7, WindowIsThePart DEF Message

\* The block labels every place for which there is a row, and no other.
LEMMA FilledShows ==
    ASSUME NEW w \in Roster, NEW old \in [1..Places -> Label]
    PROVE  /\ Filled(w, old) \in [1..Places -> Label]
           /\ Shows(w, Filled(w, old))
<1>1. Places \in Nat
      BY LeaderboardAssumption
<1>2. TakingPart(w) \in SUBSET Users(w)
      BY DEF TakingPart
<1>3. \A u : Index(w, u) = Cardinality(Over(w, TakingPart(w), u)) /\ Index(w, u) \in Nat
      BY <1>2, OverIsCounted DEF Index, Over
<1>4. \A u \in TakingPart(w) : LabelOf(w, u) \in Label
      BY UsersHaveRows DEF LabelOf, Label
<1>5. Filled(w, old) \in [1..Places -> Label]
  <2>1. ASSUME NEW i \in 1..Places, Shown(w, i) # {}
        PROVE  (CHOOSE u \in Shown(w, i) : TRUE) \in TakingPart(w)
        BY <2>1 DEF Shown
  <2>2. QED
        BY <1>4, <2>1 DEF Filled
<1>6. ASSUME NEW u \in TakingPart(w), Index(w, u) < Places
      PROVE  Filled(w, old)[Index(w, u) + 1] = LabelOf(w, u)
  <2> DEFINE i == Index(w, u) + 1
  <2>1. i \in 1..Places /\ i - 1 = Index(w, u)
        BY <1>1, <1>3, <1>6
  <2>2. u \in Shown(w, i)
        BY <2>1 DEF Shown
  <2>3. ASSUME NEW v \in Shown(w, i)
        PROVE  v = u
    <3>1. v \in TakingPart(w) /\ Index(w, v) = Index(w, u)
          BY <2>1 DEF Shown
    <3>2. QED
          BY <1>2, <1>3, <3>1, PlacesDiffer
  <2>4. (CHOOSE v \in Shown(w, i) : TRUE) = u
        BY <2>2, <2>3
  <2>5. QED
        BY <2>1, <2>2, <2>4 DEF Filled
<1>7. QED
      BY <1>5, <1>6 DEF Shows

\* A window that covers the board has everybody ahead of a user on the board.
LEMMA CoveredIsTop ==
    ASSUME rows \in Roster, Covered, NEW u \in TakingPart(rows), Ahead(u) < Places
    PROVE  LET w == Window(rows)
           IN  /\ u \in TakingPart(w)
               /\ Index(w, u) = Ahead(u)
               /\ LabelOf(w, u) = LabelOf(rows, u)
<1> DEFINE w == Window(rows)
           S == Users(rows)
           T == TakingPart(rows)
           above == Above(rows, u)
           ahead == {v \in T : Below(rows, u, v)}
<1>1. T \in SUBSET S /\ u \in S /\ IsFiniteSet(S) /\ IsFiniteSet(T)
      BY UsersHaveRows
<1>2. above \in SUBSET S /\ ahead \in SUBSET above /\ u \notin above
      BY <1>1, BelowIsAnOrder DEF Above
<1>3. IsFiniteSet(above) /\ IsFiniteSet(ahead) /\ IsFiniteSet(S \ T)
      BY <1>1, <1>2, FS_Subset
<1>4. /\ Cardinality(above) \in Nat /\ Cardinality(ahead) \in Nat
      /\ Cardinality(S) \in Nat /\ Cardinality(S \ T) \in Nat
      BY <1>1, <1>3, FS_CardinalityType
<1>5. Limit \in Nat /\ Places \in 1..Limit
      BY LeaderboardAssumption
<1>6. Cardinality(above) < Limit
  <2>1. CASE Cardinality(S) <= Limit
    <3>1. Cardinality(above) <= Cardinality(S) /\ Cardinality(above) # Cardinality(S)
          BY <1>1, <1>2, FS_Subset
    <3>2. QED
          BY <1>4, <1>5, <2>1, <3>1
  <2>2. CASE Cardinality(S \ T) <= Limit - Places
    <3>1. above \in SUBSET (ahead \cup (S \ T))
          BY <1>2 DEF Above
    <3>2. /\ IsFiniteSet(ahead \cup (S \ T))
          /\ Cardinality(ahead \cup (S \ T)) =
                Cardinality(ahead) + Cardinality(S \ T) - Cardinality(ahead \cap (S \ T))
          BY <1>3, FS_Union
    <3>3. ahead \cap (S \ T) = {}
          OBVIOUS
    <3>4. Cardinality(above) <= Cardinality(ahead) + Cardinality(S \ T)
      <4>1. Cardinality(above) <= Cardinality(ahead \cup (S \ T))
            BY <3>1, <3>2, FS_Subset
      <4>2. Cardinality(ahead \cap (S \ T)) = 0
            BY <3>3, FS_EmptySet
      <4>3. QED
            BY <1>4, <3>2, <4>1, <4>2
    <3>5. Cardinality(ahead) < Places
          BY DEF Ahead
    <3>6. QED
          BY <1>4, <1>5, <2>2, <3>4, <3>5
  <2>3. QED
        BY <2>1, <2>2 DEF Covered
<1>7. u \in Users(w) /\ above \subseteq Users(w)
  <2>1. Users(w) = {v \in S : Cardinality(Above(rows, v)) < Limit}
        BY WindowIsThePart
  <2>2. ASSUME NEW v \in above
        PROVE  Cardinality(Above(rows, v)) < Limit
    <3>1. v \in S /\ Above(rows, v) \in SUBSET above
          BY <1>1, <1>2, BelowIsAnOrder DEF Above
    <3>2. IsFiniteSet(Above(rows, v)) /\ Cardinality(Above(rows, v)) <= Cardinality(above)
          BY <1>3, <3>1, FS_Subset
    <3>3. Cardinality(Above(rows, v)) \in Nat
          BY <3>2, FS_CardinalityType
    <3>4. QED
          BY <1>4, <1>5, <1>6, <3>2, <3>3
  <2>3. QED
        BY <1>1, <1>2, <1>6, <2>1, <2>2
<1>8. \A v \in Users(w) : v \in S /\ w[v] = rows[v]
      BY WindowIsThePart
<1>9. u \in TakingPart(w) /\ LabelOf(w, u) = LabelOf(rows, u)
      BY <1>7, <1>8 DEF TakingPart, LabelOf
<1>10. {v \in TakingPart(w) : Below(w, u, v)} = ahead
  <2>1. \A v \in Users(w) : Below(w, u, v) <=> Below(rows, u, v)
        BY <1>7, <1>8 DEF Below
  <2>2. \A v \in Users(w) : v \in TakingPart(w) <=> v \in T
        BY <1>8 DEF TakingPart
  <2>3. TakingPart(w) \subseteq Users(w)
        BY DEF TakingPart
  <2>4. QED
        BY <1>2, <1>7, <2>1, <2>2, <2>3
<1>11. QED
       BY <1>9, <1>10 DEF Index, Ahead

-----------------------------------------------------------------------------
(* The invariant.                                                          *)

\* A sequence with one more element ends in it.
LEMMA AppendEndsIn ==
    ASSUME NEW S, NEW s \in Seq(S), NEW x \in S
    PROVE  /\ Append(s, x) \in Seq(S) /\ Append(s, x) # <<>>
           /\ Append(s, x)[Len(Append(s, x))] = x
BY AppendProperties

\* Without its first element it ends as before, if anything is left.
LEMMA TailEndsAlike ==
    ASSUME NEW S, NEW s \in Seq(S), s # <<>>
    PROVE  /\ Head(s) \in S /\ Tail(s) \in Seq(S)
           /\ IF Tail(s) = <<>> THEN Head(s) = s[Len(s)]
              ELSE Tail(s)[Len(Tail(s))] = s[Len(s)]
<1>1. Len(s) \in Nat /\ Len(s) > 0 /\ Head(s) = s[1]
      BY HeadTailProperties, EmptySeq, LenProperties
<1>2. /\ Head(s) \in S /\ Tail(s) \in Seq(S) /\ Len(Tail(s)) = Len(s) - 1
      /\ \A i \in 1..Len(Tail(s)) : Tail(s)[i] = s[i + 1]
      BY HeadTailProperties
<1>3. CASE Tail(s) = <<>>
      BY <1>1, <1>2, <1>3, EmptySeq
<1>4. CASE Tail(s) # <<>>
  <2>1. Len(Tail(s)) > 0
        BY <1>1, <1>2, <1>4, EmptySeq
  <2>2. QED
        BY <1>1, <1>2, <1>4, <2>1
<1>5. QED
      BY <1>2, <1>3, <1>4

LEMMA BoardInitHolds == Init => BoardInv
<1> SUFFICES ASSUME Init
             PROVE  BoardInv
    OBVIOUS
<1>1. rows \in Roster
      BY LeaderboardAssumption DEF Init, Roster
<1>2. feed \in Seq(Message) /\ seen = {}
      BY EmptySeq DEF Init
<1>3. labels \in [1..Places -> Label]
      BY DEF Init, NoLabel, Label
<1>4. QED
      BY <1>1, <1>2, <1>3 DEF Init, BoardInv

\* A change of the rows: the listener is told of it, if it matters to it.
LEMMA ChangeKeeps ==
    ASSUME BoardInv, NEW roster \in Roster, Change(roster)
    PROVE  BoardInv'
<1>1. rows' = roster /\ UNCHANGED <<listens, watching, online, seen, labels>>
      BY DEF Change, connection, screen
<1>2. Window(roster) \in Message
      BY WindowIsAMessage
<1>3. feed \in Seq(Message)
      BY DEF BoardInv
<1>4. feed' = feed \/ feed' = Append(feed, Window(roster))
      BY DEF Change
<1>5. feed' \in Seq(Message)
      BY <1>2, <1>3, <1>4, AppendEndsIn
<1>6. ASSUME watching
      PROVE  ToldLast'
  <2>1. ToldLast
        BY <1>6 DEF BoardInv
  <2>2. CASE Window(roster) = Window(rows)
    <3>1. feed' = feed
          BY <2>2 DEF Change
    <3>2. Window(rows)' = Window(rows)
          BY <1>1, <2>2
    <3>3. QED
          BY <1>1, <2>1, <3>1, <3>2 DEF ToldLast
  <2>3. CASE Window(roster) # Window(rows)
    <3>1. feed' = Append(feed, Window(roster))
          BY <1>6, <2>3 DEF Change
    <3>2. feed' # <<>> /\ feed'[Len(feed')] = Window(roster)
          BY <1>2, <1>3, <3>1, AppendEndsIn
    <3>3. Window(rows)' = Window(roster)
          BY <1>1
    <3>4. QED
          BY <3>2, <3>3 DEF ToldLast
  <2>4. QED
        BY <2>2, <2>3
<1>7. seen' = seen /\ labels' = labels /\ \A w \in seen : Shows(w, labels)
      BY <1>1 DEF BoardInv
<1>8. QED
      BY <1>1, <1>5, <1>6, <1>7 DEF BoardInv

LEMMA UsersKeep ==
    ASSUME BoardInv, NEW u \in User,
           \/ Join(u) \/ Delete(u)
           \/ \E n \in Gain : Earn(u, n)
           \/ \E joins \in {0, 1} : TakePart(u, joins)
    PROVE  BoardInv'
<1>1. rows \in Roster
      BY DEF BoardInv
<1>2. ASSUME NEW row \in Rows \cup {NoRow}
      PROVE  [rows EXCEPT ![u] = row] \in Roster
      BY <1>1 DEF Roster
<1>3. CASE Join(u)
  <2>1. Row(0, 1) \in Rows
        BY DEF Row, Rows
  <2>2. QED
        BY <1>2, <1>3, <2>1, ChangeKeeps DEF Join
<1>4. CASE Delete(u)
      BY <1>2, <1>4, ChangeKeeps DEF Delete
<1>5. ASSUME NEW n \in Gain, Earn(u, n)
      PROVE  BoardInv'
  <2>1. rows[u] \in Rows /\ n \in Nat
        BY <1>1, <1>5, LeaderboardAssumption DEF Earn, Roster
  <2>2. [rows EXCEPT ![u].leaves = @ + n] \in Roster
        BY <1>1, <2>1 DEF Roster, Rows
  <2>3. QED
        BY <1>5, <2>2, ChangeKeeps DEF Earn
<1>6. ASSUME NEW joins \in {0, 1}, TakePart(u, joins)
      PROVE  BoardInv'
  <2>1. rows[u] \in Rows
        BY <1>1, <1>6 DEF TakePart, Roster
  <2>2. [rows EXCEPT ![u].leaderboard = joins] \in Roster
        BY <1>1, <2>1 DEF Roster, Rows
  <2>3. QED
        BY <1>6, <2>2, ChangeKeeps DEF TakePart
<1>7. QED
      BY <1>3, <1>4, <1>5, <1>6

LEMMA ViewDidLoadKeeps ==
    ASSUME BoardInv, ViewDidLoad
    PROVE  BoardInv'
<1> DEFINE blank == [i \in 1..Places |-> NoLabel]
<1>1. /\ UNCHANGED <<rows, seen, online>> /\ listens' = TRUE
      /\ watching' = (watching \/ (online /\ ~listens))
      /\ feed' = IF online /\ ~listens THEN Append(feed, Window(rows)) ELSE feed
      BY DEF ViewDidLoad
<1>2. blank \in [1..Places -> Label]
      BY DEF NoLabel, Label
<1>3. Window(rows) \in Message /\ feed \in Seq(Message)
      BY WindowIsAMessage DEF BoardInv
<1>4. feed' \in Seq(Message)
      BY <1>1, <1>3, AppendEndsIn
<1>5. labels' \in [1..Places -> Label] /\ \A w \in seen : Shows(w, labels')
  <2>1. CASE seen = {}
    <3>1. labels' = blank
          BY <2>1 DEF ViewDidLoad
    <3>2. QED
          BY <1>2, <2>1, <3>1
  <2>2. CASE seen # {}
    <3>1. PICK w : w \in seen
          BY <2>2
    <3>2. (CHOOSE window \in seen : TRUE) = w
          BY <3>1 DEF BoardInv
    <3>3. labels' = Filled(w, blank)
          BY <2>2, <3>2 DEF ViewDidLoad
    <3>4. w \in Roster
          BY <3>1 DEF BoardInv, Message
    <3>5. labels' \in [1..Places -> Label] /\ Shows(w, labels')
          BY <1>2, <3>3, <3>4, FilledShows
    <3>6. \A v \in seen : v = w
          BY <3>1 DEF BoardInv
    <3>7. QED
          BY <3>5, <3>6
  <2>3. QED
        BY <2>1, <2>2
<1>6. ASSUME watching'
      PROVE  ToldLast'
  <2>1. Window(rows)' = Window(rows)
        BY <1>1
  <2>2. CASE online /\ ~listens
    <3>1. feed' # <<>> /\ feed'[Len(feed')] = Window(rows)
          BY <1>1, <1>3, <2>2, AppendEndsIn
    <3>2. QED
          BY <2>1, <3>1 DEF ToldLast
  <2>3. CASE ~(online /\ ~listens)
    <3>1. watching /\ feed' = feed
          BY <1>1, <1>6, <2>3
    <3>2. ToldLast
          BY <3>1 DEF BoardInv
    <3>3. QED
          BY <1>1, <2>1, <3>1, <3>2 DEF ToldLast
  <2>4. QED
        BY <2>2, <2>3
<1>7. QED
      BY <1>1, <1>4, <1>5, <1>6 DEF BoardInv

LEMMA UsersChangedKeeps ==
    ASSUME BoardInv, UsersChanged
    PROVE  BoardInv'
<1>1. PICK w : w = Head(feed)
      OBVIOUS
<1>2. /\ feed # <<>> /\ feed' = Tail(feed) /\ seen' = {w} /\ labels' = Filled(w, labels)
      /\ UNCHANGED <<rows, listens, watching, online>>
      BY <1>1 DEF UsersChanged, connection
<1>3. feed \in Seq(Message)
      BY DEF BoardInv
<1>4. /\ w \in Message /\ feed' \in Seq(Message)
      /\ IF feed' = <<>> THEN w = feed[Len(feed)] ELSE feed'[Len(feed')] = feed[Len(feed)]
      BY <1>1, <1>2, <1>3, TailEndsAlike
<1>5. labels' \in [1..Places -> Label] /\ Shows(w, labels')
  <2>1. w \in Roster /\ labels \in [1..Places -> Label]
        BY <1>4 DEF Message, BoardInv
  <2>2. QED
        BY <1>2, <2>1, FilledShows
<1>6. ASSUME watching
      PROVE  ToldLast'
  <2>1. feed[Len(feed)] = Window(rows)
        BY <1>2, <1>6 DEF BoardInv, ToldLast
  <2>2. Window(rows)' = Window(rows)
        BY <1>2
  <2>3. QED
        BY <1>2, <1>4, <2>1, <2>2 DEF ToldLast
<1>7. QED
      BY <1>2, <1>4, <1>5, <1>6 DEF BoardInv

LEMMA DisconnectKeeps ==
    ASSUME BoardInv, Disconnect
    PROVE  BoardInv'
<1>1. feed' \in Seq(Message)
      BY EmptySeq DEF Disconnect
<1>2. QED
      BY <1>1 DEF Disconnect, BoardInv, screen

LEMMA ReconnectKeeps ==
    ASSUME BoardInv, Reconnect
    PROVE  BoardInv'
<1>1. /\ UNCHANGED <<rows, listens, seen, labels>> /\ online' = TRUE
      /\ watching' = listens
      /\ feed' = IF listens THEN <<Window(rows)>> ELSE <<>>
      BY DEF Reconnect, ListenRestored, screen
<1>2. PICK w : w = Window(rows)
      OBVIOUS
<1>3. w \in Message
      BY <1>2, WindowIsAMessage DEF BoardInv
<1>4. <<w>> \in Seq(Message) /\ <<w>> # <<>> /\ <<w>>[Len(<<w>>)] = w
      BY <1>3
<1>5. feed' \in Seq(Message)
      BY <1>1, <1>2, <1>4, EmptySeq
<1>6. ASSUME watching'
      PROVE  ToldLast'
  <2>1. feed' = <<w>>
        BY <1>1, <1>2, <1>6
  <2>2. Window(rows)' = w
        BY <1>1, <1>2
  <2>3. QED
        BY <1>4, <2>1, <2>2 DEF ToldLast
<1>7. QED
      BY <1>1, <1>5, <1>6 DEF BoardInv

LEMMA BoardNextHolds ==
    ASSUME BoardInv, [Next]_vars
    PROVE  BoardInv'
<1>1. CASE UNCHANGED vars
  <2>1. /\ UNCHANGED <<rows, listens, watching, online, feed, seen, labels>>
        BY <1>1 DEF vars, connection, screen
  <2>2. ToldLast' <=> ToldLast
        BY <2>1 DEF ToldLast
  <2>3. QED
        BY <2>1, <2>2 DEF BoardInv
<1>2. CASE Next
      BY <1>2, UsersKeep, ViewDidLoadKeeps, UsersChangedKeeps, DisconnectKeeps,
         ReconnectKeeps DEF Next
<1>3. QED
      BY <1>1, <1>2

\* The labels are always those of the window processed last, and the window sent
\* last is that of the rows, while the server knows of the listener.
THEOREM BoardInvHolds == Spec => []BoardInv
<1>1. Init => BoardInv
      BY BoardInitHolds
<1>2. BoardInv /\ [Next]_vars => BoardInv'
      BY BoardNextHolds
<1>3. QED
      BY <1>1, <1>2, PTL DEF Spec

\* All state has its type, and no message has more rows than the query asks for
\* (DashboardViewController.swift:85).
THEOREM BoardTypesAreCorrect == Spec => []BoardTypeOK
<1>1. BoardInv => BoardTypeOK
  <2> SUFFICES ASSUME BoardInv
               PROVE  BoardTypeOK
      OBVIOUS
  <2>1. \A i \in DOMAIN feed : Cardinality(Users(feed[i])) <= Limit
    <3>1. feed \in Seq(Message)
          BY DEF BoardInv
    <3>2. \A i \in DOMAIN feed : feed[i] \in Message
          BY <3>1, ElementOfSeq, LenProperties
    <3>3. QED
          BY <3>2 DEF Message
  <2>2. Cardinality(seen) <= 1
    <3>1. CASE seen = {}
          BY <3>1, FS_EmptySet
    <3>2. CASE seen # {}
      <4>1. PICK w : w \in seen
            BY <3>2
      <4>2. seen = {w}
            BY <4>1 DEF BoardInv
      <4>3. Cardinality(seen) = 1
            BY <4>2, FS_Singleton
      <4>4. QED
            BY <4>3
    <3>3. QED
          BY <3>1, <3>2
  <2>3. QED
        BY <2>1, <2>2 DEF BoardInv, BoardTypeOK, Roster, Label
<1>2. QED
      BY <1>1, BoardInvHolds, PTL

\* A Dashboard that has processed what the server sent shows everybody who takes
\* part and belongs to the best at the right place, for any number of users, rows
\* and labels (DashboardViewController.swift:87, README.txt:21).
THEOREM TheBoardIsRight == Spec => []BoardIsRight
<1>1. BoardInv => BoardIsRight
  <2> SUFFICES ASSUME BoardInv, watching, feed = <<>>, Covered,
                      NEW u \in TakingPart(rows), Ahead(u) < Places
               PROVE  labels[Ahead(u) + 1] = LabelOf(rows, u)
      BY DEF BoardIsRight, BoardIsTop
  <2>1. seen = {Window(rows)}
        BY DEF BoardInv, ToldLast
  <2>2. Shows(Window(rows), labels)
        BY <2>1 DEF BoardInv
  <2>3. /\ u \in TakingPart(Window(rows)) /\ Index(Window(rows), u) = Ahead(u)
        /\ LabelOf(Window(rows), u) = LabelOf(rows, u)
        BY CoveredIsTop DEF BoardInv
  <2>4. QED
        BY <2>2, <2>3 DEF Shows
<1>2. QED
      BY <1>1, BoardInvHolds, PTL
=============================================================================
