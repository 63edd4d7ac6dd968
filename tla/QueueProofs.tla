----------------------------- MODULE QueueProofs -----------------------------
(***************************************************************************)
(* An unacknowledged write is under way exactly once, whatever the app     *)
(* writes, on however many devices, over every lost connection and every   *)
(* process that ends.                                                      *)
(*                                                                         *)
(* The writes of a device are numbered by their place in its pending list. *)
(* The acknowledgements that are under way belong to the first ones, the   *)
(* writes on the wire are the others in their order: UnderWay.  Each step  *)
(* moves one write along or, when a connection is lost, all of them back.  *)
(* A process that has ended leaves nothing behind but what the server has  *)
(* received, and nothing is dispatched for it.                             *)
(***************************************************************************)
EXTENDS GameProofs

\* The calls of a kind up to place i.
Upto(s, kind, i) == {j \in Calls(s, kind) : j <= i}

\* The writes on the wire are those pending after the first n, in order.
UnderWay(w, p, n) ==
    /\ Cardinality(Calls(w, "put")) = Len(p) - n
    /\ \A i \in Calls(w, "put") : w[i].write = p[n + Cardinality(Upto(w, "put", i))]

Acks(s) == Cardinality(Calls(s, "ack"))

QueueOf(d) ==
    /\ up[d] => UnderWay(wire[d], pending[d], Acks(inbox[d]))
    /\ ~up[d] => /\ todo[d] = <<>> /\ pending[d] = <<>> /\ inbox[d] = <<>>
                 /\ ~watching[d] /\ stage[d] = "login"
    /\ \A i \in DOMAIN held[d] : held[d][i].kind = "get"

QueueInv ==
    /\ up \in [Device -> BOOLEAN] /\ watching \in [Device -> BOOLEAN]
    /\ DOMAIN stage = Device
    /\ \A d \in Device : QueueOf(d)

-----------------------------------------------------------------------------
(* Counting the calls of a kind in a sequence.                             *)

\* Sequence t is s with x at its end; s without its first element.
Longer(s, x, t) ==
    Len(t) = Len(s) + 1 /\ t[Len(s) + 1] = x /\ \A i \in 1..Len(s) : t[i] = s[i]
Shorter(s, t) ==
    Len(s) > 0 /\ Len(t) = Len(s) - 1 /\ \A i \in 1..Len(t) : t[i] = s[i + 1]

LEMMA AppendIsLonger ==
    ASSUME NEW S, NEW s \in Seq(S), NEW x \in S
    PROVE  \E t \in Seq(S) : t = Append(s, x) /\ Longer(s, x, t)
<1>1. PICK t : t = Append(s, x)
      OBVIOUS
<1>2. /\ Append(s, x) \in Seq(S) /\ Len(Append(s, x)) = Len(s) + 1
      /\ \A i \in 1..Len(s) : Append(s, x)[i] = s[i]
      /\ Append(s, x)[Len(s) + 1] = x
      BY AppendProperties
<1>3. t \in Seq(S) /\ Longer(s, x, t)
      BY <1>1, <1>2 DEF Longer
<1>4. QED
      BY <1>1, <1>3

LEMMA TailIsShorter ==
    ASSUME NEW S, NEW s \in Seq(S), s # <<>>
    PROVE  /\ Head(s) = s[1] /\ s[1] \in S
           /\ \E t \in Seq(S) : t = Tail(s) /\ Shorter(s, t)
<1>1. Len(s) \in Nat /\ Len(s) > 0
      BY LenProperties, EmptySeq
<1>2. PICK t : t = Tail(s)
      OBVIOUS
<1>3. /\ Head(s) \in S /\ Tail(s) \in Seq(S) /\ Len(Tail(s)) = Len(s) - 1
      /\ \A i \in 1..Len(Tail(s)) : Tail(s)[i] = s[i + 1]
      BY HeadTailProperties
<1>4. t \in Seq(S) /\ Shorter(s, t)
      BY <1>1, <1>2, <1>3 DEF Shorter
<1>5. Head(s) = s[1]
      BY <1>1
<1>6. s[1] \in S
      BY <1>3, <1>5
<1>7. QED
      BY <1>2, <1>4, <1>5, <1>6

LEMMA RestIsShorter ==
    ASSUME NEW S, NEW s \in Seq(S), Len(s) > 0
    PROVE  \E t \in Seq(S) : t = SubSeq(s, 2, Len(s)) /\ Shorter(s, t)
<1>1. Len(s) \in Int /\ 2 \in Int
      BY LenProperties
<1>2. \A i \in 2..Len(s) : s[i] \in S
      BY <1>1, ElementOfSeq
<1>3. /\ SubSeq(s, 2, Len(s)) \in Seq(S)
      /\ Len(SubSeq(s, 2, Len(s))) = IF 2 <= Len(s) THEN Len(s) - 2 + 1 ELSE 0
      /\ \A i \in 1..(Len(s) - 2 + 1) : SubSeq(s, 2, Len(s))[i] = s[2 + i - 1]
      BY <1>1, <1>2, SubSeqProperties
<1>4. PICK t : t = SubSeq(s, 2, Len(s))
      OBVIOUS
<1>5. /\ t \in Seq(S) /\ Len(t) = IF 2 <= Len(s) THEN Len(s) - 2 + 1 ELSE 0
      /\ \A i \in 1..(Len(s) - 2 + 1) : t[i] = s[2 + i - 1]
      BY <1>3, <1>4
<1>6. Len(t) = Len(s) - 1 /\ \A i \in 1..Len(t) : t[i] = s[i + 1]
  <2>1. Len(t) = Len(s) - 1
    <3>1. Len(s) \in Nat /\ Len(s) > 0
          BY LenProperties
    <3>2. PICK n \in Nat : n = Len(s)
          BY <3>1
    <3>3. n - 1 = IF 2 <= n THEN n - 2 + 1 ELSE 0
          BY <3>1, <3>2
    <3>4. QED
          BY <1>5, <3>2, <3>3
  <2>2. ASSUME NEW i \in 1..Len(t)
        PROVE  t[i] = s[i + 1]
    <3>1. i \in 1..(Len(s) - 2 + 1) /\ 2 + i - 1 = i + 1
          BY <1>1, <2>1
    <3>2. t[i] = s[2 + i - 1]
          BY <1>5, <3>1
    <3>3. QED
          BY <3>1, <3>2
  <2>3. QED
        BY <2>1, <2>2
<1>7. QED
      BY <1>4, <1>5, <1>6 DEF Shorter

LEMMA CallsAreCounted ==
    ASSUME NEW S, NEW s \in Seq(S), NEW k
    PROVE  /\ Calls(s, k) \subseteq 1..Len(s) /\ IsFiniteSet(Calls(s, k))
           /\ Cardinality(Calls(s, k)) \in Nat
           /\ \A i : IsFiniteSet(Upto(s, k, i)) /\ Cardinality(Upto(s, k, i)) \in Nat
           /\ \A i \in Calls(s, k) :
                 Cardinality(Upto(s, k, i)) \in 1..Cardinality(Calls(s, k))
<1>1. Len(s) \in Nat /\ DOMAIN s = 1..Len(s)
      BY LenProperties
<1>2. Calls(s, k) \in SUBSET (1..Len(s))
      BY <1>1 DEF Calls
<1>3. IsFiniteSet(1..Len(s))
  <2>1. 1 \in Int /\ Len(s) \in Int
        BY <1>1
  <2>2. QED
        BY <2>1, FS_Interval
<1>4. IsFiniteSet(Calls(s, k)) /\ Cardinality(Calls(s, k)) \in Nat
      BY <1>2, <1>3, FS_Subset, FS_CardinalityType
<1>5. ASSUME NEW i
      PROVE  /\ IsFiniteSet(Upto(s, k, i)) /\ Cardinality(Upto(s, k, i)) \in Nat
             /\ Cardinality(Upto(s, k, i)) <= Cardinality(Calls(s, k))
  <2>1. Upto(s, k, i) \in SUBSET Calls(s, k)
        BY DEF Upto
  <2>2. QED
        BY <1>4, <2>1, FS_Subset, FS_CardinalityType
<1>6. ASSUME NEW i \in Calls(s, k)
      PROVE  Cardinality(Upto(s, k, i)) # 0
  <2>1. i \in Upto(s, k, i)
        BY <1>1, <1>2 DEF Upto
  <2>2. QED
        BY <1>5, <2>1, FS_EmptySet
<1>7. QED
      BY <1>2, <1>4, <1>5, <1>6

\* Sequence t has one more of the kind than s, at the end.
OneMoreAtEnd(s, t, kind) ==
    /\ Cardinality(Calls(t, kind)) = Cardinality(Calls(s, kind)) + 1
    /\ Calls(t, kind) = Calls(s, kind) \cup {Len(s) + 1}
    /\ Upto(t, kind, Len(s) + 1) = Calls(t, kind)
    /\ \A i \in Calls(s, kind) : t[i] = s[i] /\ Upto(t, kind, i) = Upto(s, kind, i)

LEMMA OneMoreCall ==
    ASSUME NEW S, NEW s \in Seq(S), NEW x \in S, NEW t \in Seq(S), Longer(s, x, t)
    PROVE  OneMoreAtEnd(s, t, x.kind)
<1> DEFINE k == x.kind
           n == Len(s) + 1
<1>1. /\ Len(s) \in Nat /\ DOMAIN s = 1..Len(s) /\ Len(t) = n /\ DOMAIN t = 1..n
      /\ t[n] = x /\ \A i \in 1..Len(s) : t[i] = s[i]
      BY LenProperties DEF Longer
<1>2. Calls(s, k) \subseteq 1..Len(s) /\ IsFiniteSet(Calls(s, k))
      BY CallsAreCounted
<1>3. n \notin Calls(s, k)
      BY <1>1, <1>2
<1>4. Calls(t, k) = Calls(s, k) \cup {n}
      BY <1>1 DEF Calls
<1>5. Cardinality(Calls(t, k)) = Cardinality(Calls(s, k)) + 1
      BY <1>2, <1>3, <1>4, FS_AddElement
<1>6. Upto(t, k, n) = Calls(t, k)
      BY <1>1, <1>2, <1>4 DEF Upto
<1>7. ASSUME NEW i \in Calls(s, k)
      PROVE  t[i] = s[i] /\ Upto(t, k, i) = Upto(s, k, i)
      BY <1>1, <1>2, <1>4 DEF Upto
<1>8. QED
      BY <1>1, <1>4, <1>5, <1>6, <1>7 DEF OneMoreAtEnd

LEMMA NoMoreCalls ==
    ASSUME NEW S, NEW s \in Seq(S), NEW x \in S, NEW t \in Seq(S), Longer(s, x, t),
           NEW k, x.kind # k
    PROVE  /\ Calls(t, k) = Calls(s, k)
           /\ \A i \in Calls(s, k) : t[i] = s[i] /\ Upto(t, k, i) = Upto(s, k, i)
<1>1. /\ Len(s) \in Nat /\ DOMAIN s = 1..Len(s) /\ DOMAIN t = 1..(Len(s) + 1)
      /\ t[Len(s) + 1] = x /\ \A i \in 1..Len(s) : t[i] = s[i]
      BY LenProperties DEF Longer
<1>2. Calls(t, k) = Calls(s, k) /\ \A i \in Calls(s, k) : t[i] = s[i]
      BY <1>1 DEF Calls
<1>3. QED
      BY <1>2 DEF Upto

\* Whether the first one is of the kind.
One(s, kind) == IF s[1].kind = kind THEN 1 ELSE 0

\* What a sequence counts up to a place is what its tail counts up to the place
\* before, and the first one.
LEMMA UptoOfTail ==
    ASSUME NEW S, NEW s \in Seq(S), NEW t \in Seq(S), Shorter(s, t), NEW k,
           NEW i \in 0..Len(t)
    PROVE  Cardinality(Upto(t, k, i)) = Cardinality(Upto(s, k, i + 1)) - One(s, k)
<1>1. /\ Len(s) \in Nat /\ Len(s) > 0 /\ DOMAIN s = 1..Len(s)
      /\ Len(t) = Len(s) - 1 /\ Len(t) \in Nat /\ DOMAIN t = 1..Len(t)
      /\ \A j \in 1..Len(t) : t[j] = s[j + 1]
      BY LenProperties DEF Shorter
<1>2. /\ \A j : j \in Calls(s, k) <=> j \in 1..Len(s) /\ s[j].kind = k
      /\ \A j : j \in Calls(t, k) <=> j \in 1..Len(t) /\ t[j].kind = k
      BY <1>1 DEF Calls
<1> DEFINE T == Upto(t, k, i)
           U == Upto(s, k, i + 1)
           f == [j \in T |-> j + 1]
<1>3. /\ \A j : j \in T <=> j \in 1..Len(t) /\ t[j].kind = k /\ j <= i
      /\ \A j : j \in U <=> j \in 1..Len(s) /\ s[j].kind = k /\ j <= i + 1
      BY <1>2 DEF Upto
<1>4. IsFiniteSet(T) /\ IsFiniteSet(U) /\ Cardinality(T) \in Nat /\ Cardinality(U) \in Nat
      BY <1>1, CallsAreCounted
<1> HIDE DEF T, U
<1>5. f \in [T -> U \ {1}]
  <2>1. ASSUME NEW j \in T
        PROVE  j + 1 \in U \ {1}
    <3>1. j \in 1..Len(t) /\ t[j].kind = k /\ j <= i
          BY <1>3
    <3>2. s[j + 1].kind = k
          BY <1>1, <3>1
    <3>3. j + 1 \in 1..Len(s) /\ j + 1 <= i + 1 /\ j + 1 # 1
          BY <1>1, <3>1
    <3>4. QED
          BY <1>3, <3>2, <3>3
  <2>2. QED
        BY <2>1
<1>6. \A j, l \in T : f[j] = f[l] => j = l
      BY <1>3
<1>7. ASSUME NEW u \in U \ {1}
      PROVE  \E j \in T : f[j] = u
  <2>1. u - 1 \in T /\ (u - 1) + 1 = u
        BY <1>1, <1>3
  <2>2. QED
        BY <2>1
<1>8. f \in Bijection(T, U \ {1})
      BY <1>5, <1>6, <1>7 DEF Bijection, Injection, Surjection, IsInjective
<1>9. Cardinality(U \ {1}) = Cardinality(T)
      BY <1>4, <1>8, FS_Bijection DEF ExistsBijection
<1>10. Cardinality(U \ {1}) = IF 1 \in U THEN Cardinality(U) - 1 ELSE Cardinality(U)
       BY <1>4, FS_RemoveElement
<1>11. 1 \in U <=> s[1].kind = k
       BY <1>1, <1>3
<1>12. Cardinality(T) = Cardinality(U) - One(s, k)
       BY <1>4, <1>9, <1>10, <1>11 DEF One
<1>13. QED
       BY <1>12 DEF T, U

LEMMA CallsOfTail ==
    ASSUME NEW S, NEW s \in Seq(S), NEW t \in Seq(S), Shorter(s, t), NEW k
    PROVE  /\ Cardinality(Calls(t, k)) = Cardinality(Calls(s, k)) - One(s, k)
           /\ \A i \in Calls(t, k) :
                 /\ i + 1 \in Calls(s, k) /\ t[i] = s[i + 1]
                 /\ Cardinality(Upto(t, k, i)) = Cardinality(Upto(s, k, i + 1)) - One(s, k)
           /\ \A i \in Calls(s, k) : (i = 1 /\ s[1].kind = k) \/ i - 1 \in Calls(t, k)
<1>1. /\ Len(s) \in Nat /\ Len(s) > 0 /\ DOMAIN s = 1..Len(s)
      /\ Len(t) = Len(s) - 1 /\ Len(t) \in Nat /\ DOMAIN t = 1..Len(t)
      /\ \A i \in 1..Len(t) : t[i] = s[i + 1]
      BY LenProperties DEF Shorter
<1>2. /\ \A i : i \in Calls(s, k) <=> i \in 1..Len(s) /\ s[i].kind = k
      /\ \A i : i \in Calls(t, k) <=> i \in 1..Len(t) /\ t[i].kind = k
      BY <1>1 DEF Calls
<1>3. \A i \in 0..Len(t) :
         Cardinality(Upto(t, k, i)) = Cardinality(Upto(s, k, i + 1)) - One(s, k)
      BY UptoOfTail
<1>4. Upto(t, k, Len(t)) = Calls(t, k) /\ Upto(s, k, Len(t) + 1) = Calls(s, k)
      BY <1>1, <1>2 DEF Upto
<1>5. Cardinality(Calls(t, k)) = Cardinality(Calls(s, k)) - One(s, k)
      BY <1>1, <1>3, <1>4
<1>6. ASSUME NEW i \in Calls(t, k)
      PROVE  /\ i + 1 \in Calls(s, k) /\ t[i] = s[i + 1]
             /\ Cardinality(Upto(t, k, i)) = Cardinality(Upto(s, k, i + 1)) - One(s, k)
  <2>1. i \in 1..Len(t) /\ i \in 0..Len(t)
        BY <1>1, <1>2
  <2>2. QED
        BY <1>1, <1>2, <1>3, <2>1
<1>7. ASSUME NEW i \in Calls(s, k)
      PROVE  (i = 1 /\ s[1].kind = k) \/ i - 1 \in Calls(t, k)
      BY <1>1, <1>2
<1>8. QED
      BY <1>1, <1>5, <1>6, <1>7

-----------------------------------------------------------------------------
(* What one step does to the writes under way.                             *)

\* A write is remembered and sent.
LEMMA OneMoreUnderWay ==
    ASSUME NEW S, NEW w \in Seq(S), NEW P, NEW p \in Seq(P), NEW n \in Nat,
           UnderWay(w, p, n), NEW c \in S, c.kind = "put",
           NEW v \in Seq(S), Longer(w, c, v), NEW q \in Seq(P), Longer(p, c.write, q)
    PROVE  UnderWay(v, q, n)
<1>1. /\ Len(p) \in Nat /\ Len(q) = Len(p) + 1 /\ q[Len(p) + 1] = c.write
      /\ \A i \in 1..Len(p) : q[i] = p[i]
      BY LenProperties DEF Longer
<1>2. /\ Cardinality(Calls(v, "put")) = Cardinality(Calls(w, "put")) + 1
      /\ Calls(v, "put") = Calls(w, "put") \cup {Len(w) + 1}
      /\ Upto(v, "put", Len(w) + 1) = Calls(v, "put")
      /\ \A i \in Calls(w, "put") : v[i] = w[i] /\ Upto(v, "put", i) = Upto(w, "put", i)
  <2>1. OneMoreAtEnd(w, v, c.kind)
        BY OneMoreCall
  <2>2. QED
        BY <2>1 DEF OneMoreAtEnd
<1>3. v[Len(w) + 1] = c
      BY DEF Longer
<1>4. /\ Cardinality(Calls(w, "put")) \in Nat
      /\ \A i \in Calls(w, "put") :
            Cardinality(Upto(w, "put", i)) \in 1..Cardinality(Calls(w, "put"))
      BY CallsAreCounted
<1>5. Cardinality(Calls(v, "put")) = Len(q) - n
      BY <1>1, <1>2, <1>4 DEF UnderWay
<1>6. ASSUME NEW i \in Calls(w, "put")
      PROVE  v[i].write = q[n + Cardinality(Upto(v, "put", i))]
  <2>1. v[i].write = p[n + Cardinality(Upto(v, "put", i))]
        BY <1>2 DEF UnderWay
  <2>2. n + Cardinality(Upto(v, "put", i)) \in 1..Len(p)
        BY <1>1, <1>2, <1>4 DEF UnderWay
  <2>3. QED
        BY <1>1, <2>1, <2>2
<1>7. v[Len(w) + 1].write = q[n + Cardinality(Upto(v, "put", Len(w) + 1))]
  <2>1. n + Cardinality(Upto(v, "put", Len(w) + 1)) = Len(p) + 1
        BY <1>1, <1>2, <1>5
  <2>2. QED
        BY <1>1, <1>3, <2>1
<1>8. QED
      BY <1>2, <1>5, <1>6, <1>7 DEF UnderWay

\* Another request is sent.
LEMMA OtherSent ==
    ASSUME NEW S, NEW w \in Seq(S), NEW p, NEW n, UnderWay(w, p, n),
           NEW c \in S, c.kind # "put", NEW v \in Seq(S), Longer(w, c, v)
    PROVE  UnderWay(v, p, n)
<1>1. /\ Calls(v, "put") = Calls(w, "put")
      /\ \A i \in Calls(w, "put") : v[i] = w[i] /\ Upto(v, "put", i) = Upto(w, "put", i)
      BY NoMoreCalls
<1>2. QED
      BY <1>1 DEF UnderWay

\* The server takes a write and acknowledges it.
LEMMA OneAcknowledged ==
    ASSUME NEW S, NEW w \in Seq(S), NEW P, NEW p \in Seq(P), NEW n \in Nat,
           UnderWay(w, p, n), w[1].kind = "put", NEW v \in Seq(S), Shorter(w, v)
    PROVE  UnderWay(v, p, n + 1)
<1>1. /\ Cardinality(Calls(v, "put")) = Cardinality(Calls(w, "put")) - One(w, "put")
      /\ \A i \in Calls(v, "put") :
            /\ i + 1 \in Calls(w, "put") /\ v[i] = w[i + 1]
            /\ Cardinality(Upto(v, "put", i)) =
                  Cardinality(Upto(w, "put", i + 1)) - One(w, "put")
      /\ One(w, "put") = 1
      BY CallsOfTail DEF One
<1>2. /\ Cardinality(Calls(w, "put")) \in Nat
      /\ \A i : Cardinality(Upto(w, "put", i)) \in Nat
      BY CallsAreCounted
<1>3. Cardinality(Calls(v, "put")) = Len(p) - (n + 1)
      BY <1>1, <1>2, LenProperties DEF UnderWay
<1>4. ASSUME NEW i \in Calls(v, "put")
      PROVE  v[i].write = p[n + 1 + Cardinality(Upto(v, "put", i))]
  <2>1. v[i].write = p[n + Cardinality(Upto(w, "put", i + 1))]
        BY <1>1 DEF UnderWay
  <2>2. n + 1 + Cardinality(Upto(v, "put", i)) = n + Cardinality(Upto(w, "put", i + 1))
        BY <1>1, <1>2
  <2>3. QED
        BY <2>1, <2>2
<1>5. QED
      BY <1>3, <1>4 DEF UnderWay

\* The server takes another request, or one is put in front of all.
LEMMA OtherServed ==
    ASSUME NEW S, NEW w \in Seq(S), NEW p, NEW n, w[1].kind # "put",
           NEW v \in Seq(S), Shorter(w, v)
    PROVE  UnderWay(w, p, n) <=> UnderWay(v, p, n)
<1>1. /\ Cardinality(Calls(v, "put")) = Cardinality(Calls(w, "put")) - One(w, "put")
      /\ \A i \in Calls(v, "put") :
            /\ i + 1 \in Calls(w, "put") /\ v[i] = w[i + 1]
            /\ Cardinality(Upto(v, "put", i)) =
                  Cardinality(Upto(w, "put", i + 1)) - One(w, "put")
      /\ \A i \in Calls(w, "put") : i - 1 \in Calls(v, "put")
      BY CallsOfTail
<1>2. /\ Cardinality(Calls(w, "put")) \in Nat /\ Calls(w, "put") \subseteq 1..Len(w)
      /\ \A i : Cardinality(Upto(w, "put", i)) \in Nat
      BY CallsAreCounted
<1>3. /\ Cardinality(Calls(v, "put")) = Cardinality(Calls(w, "put"))
      /\ \A i \in Calls(v, "put") :
            Cardinality(Upto(v, "put", i)) = Cardinality(Upto(w, "put", i + 1))
      BY <1>1, <1>2 DEF One
<1>4. ASSUME UnderWay(w, p, n)
      PROVE  UnderWay(v, p, n)
      BY <1>1, <1>3, <1>4 DEF UnderWay
<1>5. ASSUME UnderWay(v, p, n), NEW i \in Calls(w, "put")
      PROVE  w[i].write = p[n + Cardinality(Upto(w, "put", i))]
  <2>1. i - 1 \in Calls(v, "put") /\ (i - 1) + 1 = i
        BY <1>1, <1>2
  <2>2. /\ v[i - 1] = w[i]
        /\ Cardinality(Upto(v, "put", i - 1)) = Cardinality(Upto(w, "put", i))
        BY <1>1, <1>3, <2>1
  <2>3. v[i - 1].write = p[n + Cardinality(Upto(v, "put", i - 1))]
        BY <1>5, <2>1 DEF UnderWay
  <2>4. QED
        BY <2>2, <2>3
<1>6. ASSUME UnderWay(v, p, n)
      PROVE  UnderWay(w, p, n)
      BY <1>3, <1>5, <1>6 DEF UnderWay
<1>7. QED
      BY <1>4, <1>6

\* The acknowledgement of the oldest pending write arrives.
LEMMA OneDone ==
    ASSUME NEW S, NEW w \in Seq(S), NEW P, NEW p \in Seq(P), NEW n \in Nat \ {0},
           UnderWay(w, p, n), NEW q, Shorter(p, q)
    PROVE  UnderWay(w, q, n - 1)
<1>1. /\ Cardinality(Calls(w, "put")) \in Nat
      /\ \A i \in Calls(w, "put") :
            Cardinality(Upto(w, "put", i)) \in 1..Cardinality(Calls(w, "put"))
      BY CallsAreCounted
<1>2. Len(p) \in Nat /\ Cardinality(Calls(w, "put")) = Len(p) - n
      BY LenProperties DEF UnderWay
<1>3. Len(p) >= 1
      BY <1>1, <1>2
<1>4. Len(q) = Len(p) - 1 /\ \A i \in 1..(Len(p) - 1) : q[i] = p[i + 1]
      BY DEF Shorter
<1>5. Cardinality(Calls(w, "put")) = Len(q) - (n - 1)
      BY <1>2, <1>4
<1>6. ASSUME NEW i \in Calls(w, "put")
      PROVE  w[i].write = q[n - 1 + Cardinality(Upto(w, "put", i))]
  <2>1. PICK r \in 1..Cardinality(Calls(w, "put")) : r = Cardinality(Upto(w, "put", i))
        BY <1>1
  <2>2. n - 1 + r \in 1..(Len(p) - 1) /\ (n - 1 + r) + 1 = n + r
        BY <1>1, <1>2
  <2>3. w[i].write = p[n + r]
        BY <2>1 DEF UnderWay
  <2>4. QED
        BY <1>4, <2>1, <2>2, <2>3
<1>7. QED
      BY <1>5, <1>6 DEF UnderWay

\* What is to be sent again is what is pending.
LEMMA AllAgain ==
    ASSUME NEW P, NEW p \in Seq(P)
    PROVE  UnderWay([i \in 1..Len(p) |-> SetValue(p[i])], p, 0)
<1> DEFINE w == [i \in 1..Len(p) |-> SetValue(p[i])]
<1>1. Len(p) \in Nat
      BY LenProperties
<1>2. \A n \in Nat : IsFiniteSet(1..n) /\ Cardinality(1..n) = n
  <2>1. ASSUME NEW n \in Nat
        PROVE  IsFiniteSet(1..n) /\ Cardinality(1..n) = n
    <3>1. 1 \in Int /\ n \in Int
          OBVIOUS
    <3>2. Cardinality(1..n) = IF 1 > n THEN 0 ELSE n - 1 + 1
          BY <3>1, FS_Interval
    <3>3. QED
          BY <3>1, <3>2, FS_Interval
  <2>2. QED
        BY <2>1
<1>3. Calls(w, "put") = 1..Len(p)
      BY DEF Calls, SetValue
<1>4. ASSUME NEW i \in 1..Len(p)
      PROVE  Upto(w, "put", i) = 1..i /\ i \in Nat
      BY <1>1, <1>3 DEF Upto
<1>5. \A i \in 1..Len(p) : w[i].write = p[0 + Cardinality(Upto(w, "put", i))]
  <2>1. ASSUME NEW i \in 1..Len(p)
        PROVE  w[i].write = p[0 + Cardinality(Upto(w, "put", i))]
    <3>1. Cardinality(Upto(w, "put", i)) = i /\ 0 + i = i
          BY <1>2, <1>4
    <3>2. QED
          BY <3>1 DEF SetValue
  <2>2. QED
        BY <2>1
<1>6. Cardinality(Calls(w, "put")) = Len(p) - 0
      BY <1>1, <1>2, <1>3
<1>7. QED
      BY <1>3, <1>5, <1>6 DEF UnderWay

\* Gets put at the end.
LEMMA OthersAdded ==
    ASSUME NEW S, NEW w \in Seq(S), NEW g \in Seq(S), NEW p, NEW n, UnderWay(w, p, n),
           \A i \in DOMAIN g : g[i].kind # "put"
    PROVE  UnderWay(w \o g, p, n)
<1> DEFINE v == w \o g
<1>1. /\ Len(w) \in Nat /\ Len(g) \in Nat /\ DOMAIN w = 1..Len(w) /\ DOMAIN g = 1..Len(g)
      /\ v \in Seq(S) /\ Len(v) = Len(w) + Len(g) /\ DOMAIN v = 1..Len(v)
      /\ \A i \in 1..Len(v) : v[i] = IF i <= Len(w) THEN w[i] ELSE g[i - Len(w)]
      BY LenProperties, ConcatProperties
<1> HIDE DEF v
<1>2. ASSUME NEW i \in 1..Len(v), i > Len(w)
      PROVE  v[i].kind # "put"
  <2>1. i - Len(w) \in DOMAIN g
        BY <1>1, <1>2
  <2>2. v[i] = g[i - Len(w)]
        BY <1>1, <1>2
  <2>3. QED
        BY <2>1, <2>2
<1>3. Calls(v, "put") = Calls(w, "put") /\ \A i \in Calls(w, "put") : v[i] = w[i]
      BY <1>1, <1>2 DEF Calls
<1>4. \A i : Upto(v, "put", i) = Upto(w, "put", i)
      BY <1>3 DEF Upto
<1>5. QED
      BY <1>3, <1>4 DEF UnderWay, v

-----------------------------------------------------------------------------
(* What a step does to the queues of its device.                           *)

\* Nothing of device e's queues changes.
SameQueues(e) ==
    /\ up'[e] = up[e] /\ todo'[e] = todo[e] /\ pending'[e] = pending[e]
    /\ wire'[e] = wire[e] /\ held'[e] = held[e] /\ inbox'[e] = inbox[e]
    /\ watching'[e] = watching[e] /\ stage'[e] = stage[e]

\* What every step leaves to be shown.
Elsewhere(d) ==
    /\ up' \in [Device -> BOOLEAN] /\ watching' \in [Device -> BOOLEAN]
    /\ DOMAIN stage' = Device
    /\ \A e \in Device \ {d} : SameQueues(e)

LEMMA OneDevice ==
    ASSUME QueueInv, NEW d \in Device, Elsewhere(d), QueueOf(d)'
    PROVE  QueueInv'
<1>1. ASSUME NEW e \in Device, e # d
      PROVE  QueueOf(e)'
      BY <1>1 DEF Elsewhere, SameQueues, QueueInv, QueueOf
<1>2. QED
      BY <1>1 DEF Elsewhere, QueueInv

LEMMA NothingMoves ==
    ASSUME QueueInv, DOMAIN stage' = Device, \A e \in Device : SameQueues(e),
           UNCHANGED <<up, watching>>
    PROVE  QueueInv'
<1>1. ASSUME NEW e \in Device
      PROVE  QueueOf(e)'
      BY <1>1 DEF SameQueues, QueueInv, QueueOf
<1>2. QED
      BY <1>1 DEF QueueInv

LEMMA AcksAreNat ==
    ASSUME NEW G, NEW B, DatabaseInv(G, B), NEW d \in Device
    PROVE  Acks(inbox[d]) \in Nat
BY CallsAreCounted DEF Acks, DatabaseInv

\* Only a process that runs has something to do.
LEMMA OnlyWhenUp ==
    ASSUME QueueInv, NEW d \in Device, First(todo[d]) # {} \/ First(inbox[d]) # {}
    PROVE  up[d]
BY DEF QueueInv, QueueOf, First

LEMMA ExecuteWriteMoves ==
    ASSUME NEW G, NEW B, DatabaseInv(G, B), QueueInv, NEW d \in Device,
           ExecuteWrite(d), UNCHANGED stage
    PROVE  QueueInv'
<1>1. PICK c \in First(todo[d]) :
          /\ c.kind = "put"
          /\ pending' = [pending EXCEPT ![d] = Append(@, c.write)]
          /\ wire' = [wire EXCEPT ![d] = Append(@, c)]
      BY DEF ExecuteWrite
<1>2. c \in Call(G, B[d]) /\ c.write \in Write(G)
      BY <1>1, FirstCall, CallKinds
<1>3. wire[d] \in Seq(Call(G, B[d])) /\ pending[d] \in Seq(Write(G))
      BY DEF DatabaseInv
<1>4. PICK v \in Seq(Call(G, B[d])) : v = Append(wire[d], c) /\ Longer(wire[d], c, v)
      BY <1>2, <1>3, AppendIsLonger
<1>5. PICK q \in Seq(Write(G)) : q = Append(pending[d], c.write) /\ Longer(pending[d], c.write, q)
      BY <1>2, <1>3, AppendIsLonger
<1>6. up[d] /\ UnderWay(wire[d], pending[d], Acks(inbox[d]))
      BY OnlyWhenUp DEF QueueInv, QueueOf
<1>7. UnderWay(v, q, Acks(inbox[d]))
      BY <1>1, <1>2, <1>3, <1>4, <1>5, <1>6, AcksAreNat, OneMoreUnderWay
<1>8. wire'[d] = v /\ pending'[d] = q
      BY <1>1, <1>4, <1>5 DEF DatabaseInv
<1>9. QueueOf(d)'
      BY <1>6, <1>7, <1>8 DEF QueueInv, QueueOf, ExecuteWrite, linkVars
<1>10. Elsewhere(d)
      BY <1>1 DEF Elsewhere, SameQueues, QueueInv, ExecuteWrite, linkVars, DatabaseInv
<1>11. QED
      BY <1>9, <1>10, OneDevice

\* A request other than a write is sent.
LEMMA OtherSentMoves ==
    ASSUME NEW G, NEW B, DatabaseInv(G, B), QueueInv, NEW d \in Device, up[d],
           NEW c \in Call(G, B[d]), c.kind # "put",
           wire' = [wire EXCEPT ![d] = Append(@, c)],
           UNCHANGED <<pending, held, inbox, watching, up, stage>>,
           \A e \in Device \ {d} : todo'[e] = todo[e]
    PROVE  QueueInv'
<1>1. wire[d] \in Seq(Call(G, B[d]))
      BY DEF DatabaseInv
<1>2. PICK v \in Seq(Call(G, B[d])) : v = Append(wire[d], c) /\ Longer(wire[d], c, v)
      BY <1>1, AppendIsLonger
<1>3. UnderWay(v, pending[d], Acks(inbox[d]))
      BY <1>1, <1>2, OtherSent DEF QueueInv, QueueOf
<1>4. wire'[d] = v
      BY <1>2 DEF DatabaseInv
<1>5. QueueOf(d)'
      BY <1>3, <1>4 DEF QueueInv, QueueOf
<1>6. Elsewhere(d)
      BY DEF Elsewhere, SameQueues, QueueInv, DatabaseInv
<1>7. QED
      BY <1>5, <1>6, OneDevice

LEMMA ExecuteGetMoves ==
    ASSUME NEW G, NEW B, DatabaseInv(G, B), QueueInv, NEW d \in Device,
           ExecuteGet(d), UNCHANGED stage
    PROVE  QueueInv'
<1>1. PICK c \in First(todo[d]) :
          c.kind = "get" /\ wire' = [wire EXCEPT ![d] = Append(@, c)]
      BY DEF ExecuteGet
<1>2. c \in Call(G, B[d]) /\ c.kind # "put" /\ up[d]
  <2>1. c \in Call(G, B[d])
        BY FirstCall
  <2>2. up[d]
        BY OnlyWhenUp
  <2>3. QED
        BY <1>1, <2>1, <2>2
<1>3. \A e \in Device \ {d} : todo'[e] = todo[e]
      BY DEF ExecuteGet, DatabaseInv
<1>4. UNCHANGED <<pending, held, inbox, watching, up>>
      BY DEF ExecuteGet, linkVars
<1>5. QED
      BY <1>1, <1>2, <1>3, <1>4, OtherSentMoves

LEMMA HoldGetMoves ==
    ASSUME NEW G, NEW B, DatabaseInv(G, B), QueueInv, NEW d \in Device,
           HoldGet(d), UNCHANGED stage
    PROVE  QueueInv'
<1>1. PICK c \in First(todo[d]) :
          c.kind = "get" /\ held' = [held EXCEPT ![d] = Append(@, c)]
      BY DEF HoldGet
<1>2. c \in Call(G, B[d]) /\ up[d] /\ held[d] \in Seq(Call(G, B[d]))
      BY <1>1, FirstCall, OnlyWhenUp DEF DatabaseInv
<1>3. PICK h \in Seq(Call(G, B[d])) : h = Append(held[d], c) /\ Longer(held[d], c, h)
      BY <1>2, AppendIsLonger
<1>4. \A i \in DOMAIN h : h[i].kind = "get"
  <2>1. DOMAIN h = 1..(Len(held[d]) + 1) /\ DOMAIN held[d] = 1..Len(held[d])
        BY <1>2, <1>3, LenProperties DEF Longer
  <2>2. \A i \in DOMAIN held[d] : held[d][i].kind = "get"
        BY DEF QueueInv, QueueOf
  <2>3. Len(held[d]) \in Nat
        BY <1>2, LenProperties
  <2>4. QED
        BY <1>1, <1>3, <2>1, <2>2, <2>3 DEF Longer
<1>5. held'[d] = h
      BY <1>1, <1>3 DEF DatabaseInv
<1>6. QueueOf(d)'
      BY <1>2, <1>4, <1>5 DEF QueueInv, QueueOf, HoldGet, linkVars
<1>7. Elsewhere(d)
      BY <1>1 DEF Elsewhere, SameQueues, QueueInv, HoldGet, linkVars, DatabaseInv
<1>8. QED
      BY <1>6, <1>7, OneDevice

LEMMA TimeOutMoves ==
    ASSUME NEW G, NEW B, DatabaseInv(G, B), QueueInv, NEW d \in Device,
           TimeOut(d), UNCHANGED stage
    PROVE  QueueInv'
<1>1. held[d] # <<>> /\ held[d] \in Seq(Call(G, B[d]))
      BY DEF TimeOut, DatabaseInv
<1>2. PICK h \in Seq(Call(G, B[d])) : h = Tail(held[d]) /\ Shorter(held[d], h)
      BY <1>1, TailIsShorter
<1>3. \A i \in DOMAIN h : h[i].kind = "get"
  <2>1. /\ DOMAIN h = 1..Len(h) /\ DOMAIN held[d] = 1..Len(held[d])
        /\ Len(held[d]) \in Nat
        BY <1>1, <1>2, LenProperties
  <2>2. \A i \in DOMAIN held[d] : held[d][i].kind = "get"
        BY DEF QueueInv, QueueOf
  <2>3. \A i \in 1..Len(h) : i + 1 \in 1..Len(held[d]) /\ h[i] = held[d][i + 1]
        BY <1>2, <2>1 DEF Shorter
  <2>4. QED
        BY <2>1, <2>2, <2>3
<1>4. held'[d] = h
      BY <1>2 DEF TimeOut, DatabaseInv
<1>5. QueueOf(d)'
      BY <1>3, <1>4 DEF QueueInv, QueueOf, TimeOut, linkVars
<1>6. Elsewhere(d)
      BY DEF Elsewhere, SameQueues, QueueInv, TimeOut, linkVars, DatabaseInv
<1>7. QED
      BY <1>5, <1>6, OneDevice

LEMMA ExecuteListenMoves ==
    ASSUME NEW G, NEW B, DatabaseInv(G, B), QueueInv, NEW d \in Device,
           ExecuteListen(d), UNCHANGED stage
    PROVE  QueueInv'
<1>1. PICK c \in First(todo[d]) : c.kind = "listen"
      BY DEF ExecuteListen
<1>2. up[d] /\ \A e \in Device \ {d} : todo'[e] = todo[e]
      BY <1>1, OnlyWhenUp DEF ExecuteListen, DatabaseInv
<1>3. Observe \in Call(G, B[d]) /\ Observe.kind # "put"
      BY ObserveIsCall DEF Observe
<1>4. UNCHANGED <<pending, held, inbox, watching, up>>
      BY DEF ExecuteListen
<1>5. CASE wire' = [wire EXCEPT ![d] = Append(@, Observe)]
      BY <1>2, <1>3, <1>4, <1>5, OtherSentMoves
<1>6. CASE wire' = wire
  <2>1. QueueOf(d)'
        BY <1>2, <1>4, <1>6 DEF QueueInv, QueueOf
  <2>2. Elsewhere(d)
        BY <1>2, <1>4, <1>6 DEF Elsewhere, SameQueues, QueueInv
  <2>3. QED
        BY <2>1, <2>2, OneDevice
<1>7. QED
      BY <1>5, <1>6 DEF ExecuteListen

\* One message is processed.
LEMMA FewerAcks ==
    ASSUME NEW S, NEW s \in Seq(S), NEW t \in Seq(S), Shorter(s, t)
    PROVE  Acks(t) = Acks(s) - One(s, "ack")
BY CallsOfTail DEF Acks

LEMMA ReceiveAckMoves ==
    ASSUME NEW G, NEW B, DatabaseInv(G, B), QueueInv, NEW d \in Device,
           ReceiveAck(d), UNCHANGED stage
    PROVE  QueueInv'
<1> DEFINE M == Message(G, B[d])
           C == Call(G, B[d])
<1>1. PICK m \in First(inbox[d]) : m.kind = "ack"
      BY DEF ReceiveAck
<1>2. /\ inbox[d] \in Seq(M) /\ wire[d] \in Seq(C) /\ pending[d] \in Seq(Write(G))
      /\ inbox[d] # <<>> /\ m = Head(inbox[d]) /\ up[d]
      BY <1>1, OnlyWhenUp DEF DatabaseInv, First
<1>3. UnderWay(wire[d], pending[d], Acks(inbox[d]))
      BY <1>2 DEF QueueInv, QueueOf
<1> HIDE DEF M, C
<1>4. PICK t \in Seq(M) : t = Tail(inbox[d]) /\ Shorter(inbox[d], t)
      BY <1>2, TailIsShorter
<1>5. One(inbox[d], "ack") = 1
      BY <1>1, <1>2, TailIsShorter DEF One
<1>6. Acks(t) = Acks(inbox[d]) - 1 /\ Acks(t) \in Nat /\ Acks(inbox[d]) \in Nat
      BY <1>2, <1>4, <1>5, FewerAcks, CallsAreCounted DEF Acks
<1>7. Acks(inbox[d]) \in Nat \ {0}
      BY <1>6
<1>8. Len(pending[d]) > 0
  <2>1. Cardinality(Calls(wire[d], "put")) \in Nat
        BY <1>2, CallsAreCounted
  <2>2. Len(pending[d]) \in Nat
        BY <1>2, LenProperties
  <2>3. Cardinality(Calls(wire[d], "put")) = Len(pending[d]) - Acks(inbox[d])
        BY <1>3 DEF UnderWay
  <2>4. QED
        BY <1>7, <2>1, <2>2, <2>3
<1>9. PICK q \in Seq(Write(G)) : /\ q = SubSeq(pending[d], 2, Len(pending[d]))
                                /\ Shorter(pending[d], q)
      BY <1>2, <1>8, RestIsShorter
<1>10. UnderWay(wire[d], q, Acks(t))
      BY <1>2, <1>3, <1>6, <1>7, <1>9, OneDone
<1>11. inbox'[d] = t /\ pending'[d] = q
      BY <1>4, <1>9 DEF ReceiveAck, DatabaseInv
<1>12. QueueOf(d)'
      BY <1>2, <1>10, <1>11 DEF QueueInv, QueueOf, ReceiveAck, linkVars
<1>13. Elsewhere(d)
      BY DEF Elsewhere, SameQueues, QueueInv, ReceiveAck, linkVars, DatabaseInv
<1>14. QED
      BY <1>12, <1>13, OneDevice

\* A message that is no acknowledgement is processed, and calls are dispatched.
LEMMA OtherReceived ==
    ASSUME NEW G, NEW B, DatabaseInv(G, B), QueueInv, NEW d \in Device,
           NEW m \in First(inbox[d]), m.kind # "ack",
           inbox' = [inbox EXCEPT ![d] = Tail(inbox[d])],
           UNCHANGED <<pending, wire, held, watching, up, stage>>,
           \A e \in Device \ {d} : todo'[e] = todo[e]
    PROVE  QueueInv'
<1> DEFINE M == Message(G, B[d])
<1>1. inbox[d] \in Seq(M) /\ inbox[d] # <<>> /\ m = Head(inbox[d]) /\ up[d]
      BY OnlyWhenUp DEF DatabaseInv, First
<1> HIDE DEF M
<1>2. PICK t \in Seq(M) : t = Tail(inbox[d]) /\ Shorter(inbox[d], t)
      BY <1>1, TailIsShorter
<1>3. One(inbox[d], "ack") = 0
      BY <1>1, TailIsShorter DEF One
<1>4. Acks(t) = Acks(inbox[d])
  <2>1. Acks(t) = Acks(inbox[d]) - 0
        BY <1>1, <1>2, <1>3, FewerAcks
  <2>2. Acks(inbox[d]) \in Nat
        BY AcksAreNat
  <2>3. QED
        BY <2>1, <2>2
<1>5. inbox'[d] = t
      BY <1>2 DEF DatabaseInv
<1>6. QueueOf(d)'
      BY <1>1, <1>4, <1>5 DEF QueueInv, QueueOf
<1>7. Elsewhere(d)
      BY DEF Elsewhere, SameQueues, QueueInv, DatabaseInv
<1>8. QED
      BY <1>6, <1>7, OneDevice

LEMMA ReceiveEventMoves ==
    ASSUME NEW G, NEW B, DatabaseInv(G, B), QueueInv, NEW d \in Device,
           ReceiveEvent(d), UNCHANGED stage
    PROVE  QueueInv'
<1>1. PICK m \in First(inbox[d]) : m.kind = "event"
      BY DEF ReceiveEvent
<1>2. QED
      BY <1>1, OtherReceived DEF ReceiveEvent, linkVars

\* A handler of a process that runs dispatches calls; it may change the screen.
LEMMA DispatchMoves ==
    ASSUME NEW G, NEW B, DatabaseInv(G, B), QueueInv, NEW d \in Device, up[d],
           NEW calls, Dispatch(d, calls), DOMAIN stage' = Device,
           \A e \in Device \ {d} : stage'[e] = stage[e]
    PROVE  QueueInv'
<1>1. QueueOf(d)'
      BY DEF QueueInv, QueueOf, Dispatch, linkVars
<1>2. Elsewhere(d)
      BY DEF Elsewhere, SameQueues, QueueInv, Dispatch, linkVars, DatabaseInv
<1>3. QED
      BY <1>1, <1>2, OneDevice

\* A block takes its answer.
LEMMA ReturnMoves ==
    ASSUME NEW G, NEW B, DatabaseInv(G, B), QueueInv, NEW d \in Device,
           NEW a \in Answers(d), NEW calls, Return(d, a, calls), UNCHANGED stage
    PROVE  QueueInv'
<1>1. \A e \in Device \ {d} : todo'[e] = todo[e]
      BY DEF Return, DatabaseInv
<1>2. UNCHANGED <<pending, wire, held, watching, up>>
      BY DEF Return, linkVars
<1>3. CASE \E t \in First(todo[d]) : a.inbox = inbox[d]
  <2>1. up[d] /\ inbox' = [inbox EXCEPT ![d] = inbox[d]]
        BY <1>3, OnlyWhenUp DEF Return
  <2>2. \A e \in Device : inbox'[e] = inbox[e]
        BY <2>1 DEF DatabaseInv
  <2>3. QueueOf(d)'
        BY <1>2, <2>1, <2>2 DEF QueueInv, QueueOf
  <2>4. Elsewhere(d)
        BY <1>1, <1>2, <2>2 DEF Elsewhere, SameQueues, QueueInv
  <2>5. QED
        BY <2>3, <2>4, OneDevice
<1>4. CASE \E m \in First(inbox[d]) : m.kind = "reply" /\ a.inbox = Tail(inbox[d])
  <2>1. PICK m \in First(inbox[d]) : m.kind = "reply" /\ a.inbox = Tail(inbox[d])
        BY <1>4
  <2>2. m.kind # "ack" /\ inbox' = [inbox EXCEPT ![d] = Tail(inbox[d])]
        BY <2>1 DEF Return
  <2>3. QED
        BY <1>1, <1>2, <2>2, OtherReceived
<1>5. CASE \E t \in First(todo[d]) :
              /\ t.kind = "get"
              /\ a = [then  |-> t.then,
                      snap  |-> [l \in t.leaves |-> LocalView(d)[l]],
                      todo  |-> Tail(todo[d]),
                      inbox |-> inbox[d]]
      BY <1>3, <1>5
<1>6. CASE \E m \in First(inbox[d]) :
              /\ m.kind = "reply"
              /\ a = [then  |-> m.then,
                      snap  |-> m.snap,
                      todo  |-> todo[d],
                      inbox |-> Tail(inbox[d])]
      BY <1>4, <1>6
<1>7. QED
      BY <1>5, <1>6 DEF Answers

-----------------------------------------------------------------------------
(* The server, the connection and the process.                             *)

\* Sequence t has the acknowledgements of s, and x if it is one.
AckAdded(s, x, t) == Acks(t) = IF x.kind = "ack" THEN Acks(s) + 1 ELSE Acks(s)

LEMMA MoreAcks ==
    ASSUME NEW S, NEW s \in Seq(S), NEW x \in S, NEW t \in Seq(S), Longer(s, x, t)
    PROVE  AckAdded(s, x, t)
<1>1. CASE x.kind = "ack"
  <2>1. OneMoreAtEnd(s, t, x.kind)
        BY OneMoreCall
  <2>2. QED
        BY <1>1, <2>1 DEF OneMoreAtEnd, Acks, AckAdded
<1>2. CASE x.kind # "ack"
  <2>1. Calls(t, "ack") = Calls(s, "ack")
        BY <1>2, NoMoreCalls
  <2>2. QED
        BY <1>2, <2>1 DEF Acks, AckAdded
<1>3. QED
      BY <1>1, <1>2

LEMMA NoticesCounted ==
    ASSUME NEW S, NEW s \in Seq(S), NEW e, NEW d, NEW w, Event(w) \in S, Ack \in S,
           watching[e] \in BOOLEAN
    PROVE  Acks(s \o Notices(e, d, w)) = IF e = d /\ up[d] THEN Acks(s) + 1 ELSE Acks(s)
<1>1. PICK x \in S : x = Event(w) /\ x.kind # "ack"
      BY DEF Event
<1>2. PICK y \in S : y = Ack /\ y.kind = "ack"
      BY DEF Ack
<1>3. PICK t \in Seq(S) : t = Append(s, x) /\ Longer(s, x, t)
      BY AppendIsLonger
<1>4. PICK u \in Seq(S) : u = Append(t, y) /\ Longer(t, y, u)
      BY AppendIsLonger
<1>5. PICK v \in Seq(S) : v = Append(s, y) /\ Longer(s, y, v)
      BY AppendIsLonger
<1>6. /\ Acks(t) = Acks(s) /\ Acks(u) = Acks(t) + 1 /\ Acks(v) = Acks(s) + 1
  <2>1. AckAdded(s, x, t) /\ AckAdded(t, y, u) /\ AckAdded(s, y, v)
        BY <1>3, <1>4, <1>5, MoreAcks
  <2>2. QED
        BY <1>1, <1>2, <2>1 DEF AckAdded
<1>7. Notices(e, d, w) = (IF watching[e] THEN <<x>> ELSE <<>>)
                         \o (IF e = d /\ up[d] THEN <<y>> ELSE <<>>)
      BY <1>1, <1>2 DEF Notices
<1>8. /\ s \o (<<x>> \o <<y>>) = u /\ s \o (<<x>> \o <<>>) = t
      /\ s \o (<<>> \o <<y>>) = v /\ s \o (<<>> \o <<>>) = s
  <2>1. <<x>> \in Seq(S) /\ <<y>> \in Seq(S)
        BY <1>1, <1>2
  <2>2. t = s \o <<x>> /\ u = t \o <<y>> /\ v = s \o <<y>>
        BY <1>3, <1>4, <1>5, AppendIsConcat
  <2>3. (s \o <<x>>) \o <<y>> = s \o (<<x>> \o <<y>>)
        BY <2>1, ConcatAssociative
  <2>4. /\ <<x>> \o <<>> = <<x>> /\ <<>> \o <<y>> = <<y>>
        /\ <<>> \o <<>> = <<>> /\ s \o <<>> = s
        BY <2>1, ConcatEmptySeq
  <2>5. QED
        BY <2>2, <2>3, <2>4
<1>9. QED
      BY <1>6, <1>7, <1>8

LEMMA ServeWriteMoves ==
    ASSUME NEW G, NEW B, DatabaseInv(G, B), QueueInv, NEW d \in Device,
           ServeWrite(d), UNCHANGED stage
    PROVE  QueueInv'
<1> DEFINE C == Call(G, B[d])
<1>1. PICK w : /\ w = Head(wire[d]).write
               /\ inbox' = [e \in Device |-> inbox[e] \o Notices(e, d, w)]
      BY DEF ServeWrite
<1>2. /\ wire[d] \in Seq(C) /\ wire[d] # <<>> /\ pending[d] \in Seq(Write(G))
      /\ wire' = [wire EXCEPT ![d] = Tail(@)]
      /\ w \in Write(G)
      BY <1>1, RequestIsCall, CallKinds DEF ServeWrite, Reachable, DatabaseInv
<1>3. UNCHANGED <<todo, pending, held, up, watching>>
      BY DEF ServeWrite, linkVars
<1> HIDE DEF C
<1>4. PICK v \in Seq(C) : v = Tail(wire[d]) /\ Shorter(wire[d], v)
      BY <1>2, TailIsShorter
<1>5. wire[d][1].kind = "put"
      BY <1>2, TailIsShorter DEF ServeWrite
<1>6. wire'[d] = v /\ \A e \in Device \ {d} : wire'[e] = wire[e]
      BY <1>2, <1>4 DEF DatabaseInv
<1>7. ASSUME NEW e \in Device, up[e]
      PROVE  Acks(inbox'[e]) = IF e = d THEN Acks(inbox[e]) + 1 ELSE Acks(inbox[e])
  <2>1. PICK M : M = Message(G, B[e])
        OBVIOUS
  <2>2. Event(w) \in M /\ Ack \in M
        BY <1>2, <2>1 DEF Message
  <2>3. inbox[e] \in Seq(M) /\ watching[e] \in BOOLEAN
        BY <2>1 DEF DatabaseInv, QueueInv
  <2>4. Acks(inbox[e] \o Notices(e, d, w)) =
            IF e = d /\ up[d] THEN Acks(inbox[e]) + 1 ELSE Acks(inbox[e])
        BY <2>2, <2>3, NoticesCounted
  <2>5. QED
        BY <1>1, <1>7, <2>4
<1>8. ASSUME NEW e \in Device, ~up[e]
      PROVE  inbox'[e] = <<>>
  <2>1. inbox[e] = <<>> /\ ~watching[e]
        BY <1>8 DEF QueueInv, QueueOf
  <2>2. Notices(e, d, w) = <<>> \o <<>>
        BY <1>8, <2>1 DEF Notices
  <2>3. <<>> \o <<>> = <<>>
        BY EmptySeq, ConcatEmptySeq
  <2>4. QED
        BY <1>1, <2>1, <2>2, <2>3
<1>9. ASSUME NEW e \in Device
      PROVE  QueueOf(e)'
  <2>1. ASSUME up[e]
        PROVE  UnderWay(wire'[e], pending[e], Acks(inbox'[e]))
    <3>1. UnderWay(wire[e], pending[e], Acks(inbox[e]))
          BY <2>1 DEF QueueInv, QueueOf
    <3>2. CASE e = d
      <4>1. UnderWay(v, pending[d], Acks(inbox[d]) + 1)
            BY <1>2, <1>4, <1>5, <3>1, <3>2, AcksAreNat, OneAcknowledged
      <4>2. QED
            BY <1>6, <1>7, <2>1, <3>2, <4>1
    <3>3. CASE e # d
          BY <1>6, <1>7, <2>1, <3>1, <3>3
    <3>4. QED
          BY <3>2, <3>3
  <2>2. QED
        BY <1>3, <1>8, <2>1 DEF QueueInv, QueueOf
<1>10. QED
      BY <1>3, <1>9 DEF QueueInv

\* The server takes a request other than a write, and answers m if somebody is
\* there to hear it.
OtherTaken(d, m) ==
    /\ Reachable(d) /\ Head(wire[d]).kind # "put" /\ m.kind # "ack"
    /\ wire' = [wire EXCEPT ![d] = Tail(@)]
    /\ inbox' = IF up[d] THEN [inbox EXCEPT ![d] = Append(@, m)] ELSE inbox
    /\ UNCHANGED <<todo, pending, held, up, stage>>
    /\ watching' \in [Device -> BOOLEAN] /\ (~up[d] => ~watching'[d])
    /\ \A e \in Device \ {d} : watching'[e] = watching[e]

LEMMA OtherServedMoves ==
    ASSUME NEW G, NEW B, DatabaseInv(G, B), QueueInv, NEW d \in Device,
           NEW m \in Message(G, B[d]), OtherTaken(d, m)
    PROVE  QueueInv'
<1> DEFINE C == Call(G, B[d])
           M == Message(G, B[d])
<1>1. wire[d] \in Seq(C) /\ wire[d] # <<>> /\ inbox[d] \in Seq(M)
      BY DEF OtherTaken, Reachable, DatabaseInv
<1> HIDE DEF C, M
<1>2. PICK v \in Seq(C) : v = Tail(wire[d]) /\ Shorter(wire[d], v)
      BY <1>1, TailIsShorter
<1>3. wire[d][1].kind # "put"
      BY <1>1, TailIsShorter DEF OtherTaken
<1>4. wire'[d] = v /\ \A e \in Device \ {d} : wire'[e] = wire[e] /\ inbox'[e] = inbox[e]
      BY <1>2 DEF DatabaseInv, OtherTaken
<1>5. ASSUME up[d]
      PROVE  UnderWay(wire'[d], pending[d], Acks(inbox'[d]))
  <2>1. PICK t \in Seq(M) : t = Append(inbox[d], m) /\ Longer(inbox[d], m, t)
        BY <1>1, AppendIsLonger DEF M
  <2>2. Acks(t) = Acks(inbox[d])
    <3>1. AckAdded(inbox[d], m, t)
          BY <1>1, <2>1, MoreAcks DEF M
    <3>2. QED
          BY <3>1 DEF AckAdded, OtherTaken
  <2>3. UnderWay(wire[d], pending[d], Acks(inbox[d]))
        BY <1>5 DEF QueueInv, QueueOf
  <2>4. UnderWay(v, pending[d], Acks(inbox[d]))
        BY <1>1, <1>2, <1>3, <2>3, OtherServed
  <2>5. inbox'[d] = t
        BY <1>5, <2>1 DEF DatabaseInv, OtherTaken
  <2>6. QED
        BY <1>4, <2>2, <2>4, <2>5
<1>6. QueueOf(d)'
      BY <1>5 DEF QueueInv, QueueOf, OtherTaken
<1>7. Elsewhere(d)
      BY <1>4 DEF OtherTaken, Elsewhere, SameQueues, QueueInv
<1>8. QED
      BY <1>6, <1>7, OneDevice

LEMMA ServeGetMoves ==
    ASSUME NEW G, NEW B, Asks(B), DatabaseInv(G, B), QueueInv, NEW d \in Device,
           ServeGet(d), UNCHANGED stage
    PROVE  QueueInv'
<1>1. PICK r : /\ r = Head(wire[d]) /\ r.kind = "get"
               /\ inbox' = IF up[d]
                           THEN [inbox EXCEPT ![d] =
                                    Append(@, Reply(r.then, [l \in r.leaves |-> record[l]]))]
                           ELSE inbox
      BY DEF ServeGet
<1>2. r \in Call(G, B[d])
      BY <1>1, RequestIsCall DEF ServeGet
<1>3. r.then \in DOMAIN B[d] /\ r.leaves = B[d][r.then]
      BY <1>1, <1>2, CallKinds
<1>4. [l \in r.leaves |-> record[l]] \in Patch(G, B[d][r.then])
      BY <1>3, PartIsPatch DEF DatabaseInv, Asks
<1>5. PICK m : m = Reply(r.then, [l \in r.leaves |-> record[l]])
      OBVIOUS
<1>6. m \in Message(G, B[d]) /\ m.kind # "ack"
      BY <1>3, <1>4, <1>5 DEF Message, Reply
<1>7. /\ Reachable(d) /\ Head(wire[d]).kind # "put" /\ wire' = [wire EXCEPT ![d] = Tail(@)]
      /\ UNCHANGED <<todo, pending, held, up, watching>>
      BY <1>1 DEF ServeGet, linkVars
<1>8. /\ watching' \in [Device -> BOOLEAN] /\ (~up[d] => ~watching'[d])
      /\ \A e \in Device \ {d} : watching'[e] = watching[e]
      BY <1>7 DEF QueueInv, QueueOf
<1>9. OtherTaken(d, m)
      BY <1>1, <1>5, <1>6, <1>7, <1>8 DEF OtherTaken
<1>10. QED
      BY <1>6, <1>9, OtherServedMoves

LEMMA ServeListenMoves ==
    ASSUME NEW G, NEW B, DatabaseInv(G, B), QueueInv, NEW d \in Device,
           ServeListen(d), UNCHANGED stage
    PROVE  QueueInv'
<1>1. PICK m : m = Event(record)
      OBVIOUS
<1>2. m \in Message(G, B[d]) /\ m.kind # "ack"
      BY <1>1, PatchIsWrite DEF Message, DatabaseInv, Event
<1>3. /\ Reachable(d) /\ Head(wire[d]).kind # "put" /\ wire' = [wire EXCEPT ![d] = Tail(@)]
      /\ inbox' = IF up[d] THEN [inbox EXCEPT ![d] = Append(@, m)] ELSE inbox
      /\ UNCHANGED <<todo, pending, held, up>>
      BY <1>1 DEF ServeListen
<1>4. /\ watching' \in [Device -> BOOLEAN] /\ (~up[d] => ~watching'[d])
      /\ \A e \in Device \ {d} : watching'[e] = watching[e]
      BY DEF ServeListen, QueueInv
<1>5. OtherTaken(d, m)
      BY <1>2, <1>3, <1>4 DEF OtherTaken
<1>6. QED
      BY <1>2, <1>5, OtherServedMoves

LEMMA DisconnectMoves ==
    ASSUME NEW G, NEW B, DatabaseInv(G, B), QueueInv, NEW d \in Device,
           Disconnect(d), UNCHANGED stage
    PROVE  QueueInv'
<1>1. PICK w : w = Resends(d)
      OBVIOUS
<1>2. UnderWay(w, pending[d], 0)
      BY <1>1, AllAgain DEF Resends, DatabaseInv
<1>3. Acks(<<>>) = 0
      BY FS_EmptySet DEF Acks, Calls
<1>4. wire'[d] = w /\ inbox'[d] = <<>>
      BY <1>1 DEF Disconnect, DatabaseInv
<1>5. QueueOf(d)'
      BY <1>2, <1>3, <1>4 DEF Disconnect, QueueInv, QueueOf
<1>6. Elsewhere(d)
      BY DEF Disconnect, Elsewhere, SameQueues, QueueInv, DatabaseInv
<1>7. QED
      BY <1>5, <1>6, OneDevice

LEMMA ReconnectMoves ==
    ASSUME NEW G, NEW B, DatabaseInv(G, B), QueueInv, NEW d \in Device,
           Reconnect(d), UNCHANGED stage
    PROVE  QueueInv'
<1> DEFINE C == Call(G, B[d])
<1>1. /\ wire[d] \in Seq(C) /\ held[d] \in Seq(C) /\ Observe \in C
      /\ UnderWay(wire[d], pending[d], Acks(inbox[d]))
      BY ObserveIsCall DEF Reconnect, DatabaseInv, QueueInv, QueueOf
<1> HIDE DEF C
<1>2. PICK w \in Seq(C) : /\ w = (IF listens[d] THEN <<Observe>> ELSE <<>>) \o wire[d]
                          /\ UnderWay(w, pending[d], Acks(inbox[d]))
  <2>1. CASE listens[d]
    <3>1. PICK w : w = <<Observe>> \o wire[d]
          OBVIOUS
    <3>2. <<Observe>> \in Seq(C) /\ Len(<<Observe>>) = 1 /\ <<Observe>>[1] = Observe
          BY <1>1
    <3>3. /\ w \in Seq(C) /\ Len(w) = 1 + Len(wire[d])
          /\ \A i \in 1..(1 + Len(wire[d])) :
                w[i] = IF i <= 1 THEN <<Observe>>[i] ELSE wire[d][i - 1]
          BY <1>1, <3>1, <3>2, ConcatProperties
    <3>4. Len(wire[d]) \in Nat
          BY <1>1, LenProperties
    <3>5. Shorter(w, wire[d])
      <4>1. \A i \in 1..Len(wire[d]) : w[i + 1] = wire[d][(i + 1) - 1] /\ (i + 1) - 1 = i
            BY <3>3, <3>4
      <4>2. QED
            BY <3>3, <3>4, <4>1 DEF Shorter
    <3>6. w[1].kind # "put"
          BY <3>2, <3>3, <3>4 DEF Observe
    <3>7. UnderWay(w, pending[d], Acks(inbox[d]))
          BY <1>1, <3>3, <3>5, <3>6, OtherServed
    <3>8. QED
          BY <2>1, <3>1, <3>3, <3>7
  <2>2. CASE ~listens[d]
    <3>1. <<>> \o wire[d] = wire[d]
          BY <1>1, ConcatEmptySeq
    <3>2. QED
          BY <1>1, <2>2, <3>1
  <2>3. QED
        BY <2>1, <2>2
<1>3. \A i \in DOMAIN held[d] : held[d][i].kind # "put"
      BY DEF QueueInv, QueueOf
<1>4. UnderWay(w \o held[d], pending[d], Acks(inbox[d]))
      BY <1>1, <1>2, <1>3, OthersAdded
<1>5. PICK v : v = w \o held[d]
      OBVIOUS
<1>6. wire'[d] = v
      BY <1>2, <1>5 DEF Reconnect, DatabaseInv
<1>7. QueueOf(d)'
  <2>1. UnderWay(v, pending[d], Acks(inbox[d]))
        BY <1>4, <1>5
  <2>2. up'[d] /\ UNCHANGED <<pending, inbox>>
        BY DEF Reconnect
  <2>3. held'[d] = <<>> /\ DOMAIN held'[d] = {}
        BY DEF Reconnect, DatabaseInv
  <2>4. QED
        BY <1>6, <2>1, <2>2, <2>3 DEF QueueOf
<1>8. Elsewhere(d)
      BY DEF Reconnect, Elsewhere, SameQueues, QueueInv, DatabaseInv
<1>9. QED
      BY <1>7, <1>8, OneDevice

LEMMA AppEndsMoves ==
    ASSUME NEW G, NEW B, DatabaseInv(G, B), QueueInv, NEW d \in Device, AppEnds(d)
    PROVE  QueueInv'
<1>1. PICK n : wire' = [wire EXCEPT ![d] = SubSeq(@, 1, n)]
      BY DEF AppEnds, ProcessEnds
<1>2. QueueOf(d)'
      BY DEF AppEnds, ProcessEnds, QueueInv, QueueOf, DatabaseInv
<1>3. Elsewhere(d)
      BY <1>1 DEF AppEnds, ProcessEnds, Elsewhere, SameQueues, QueueInv, DatabaseInv
<1>4. QED
      BY <1>2, <1>3, OneDevice

\* A process that starts has nothing under way.
LEMMA NothingUnderWay == UnderWay(<<>>, <<>>, Acks(<<>>))
<1>1. PICK s : s = <<>>
      OBVIOUS
<1>2. Calls(s, "put") = {} /\ Calls(s, "ack") = {} /\ Len(s) = 0
      BY <1>1 DEF Calls
<1>3. Cardinality({}) = 0
      BY FS_EmptySet
<1>4. UnderWay(s, s, Acks(s))
      BY <1>2, <1>3 DEF UnderWay, Acks
<1>5. QED
      BY <1>1, <1>4

LEMMA ProcessStartsMoves ==
    ASSUME QueueInv, NEW d \in Device, ProcessStarts(d), UNCHANGED stage
    PROVE  QueueInv'
<1>1. wire[d] = <<>> /\ pending[d] = <<>> /\ inbox[d] = <<>>
      BY DEF ProcessStarts, QueueInv, QueueOf
<1>2. QueueOf(d)'
      BY <1>1, NothingUnderWay DEF ProcessStarts, QueueInv, QueueOf
<1>3. Elsewhere(d)
      BY DEF ProcessStarts, Elsewhere, SameQueues, QueueInv
<1>4. QED
      BY <1>2, <1>3, OneDevice

-----------------------------------------------------------------------------
(* Every part of the app.                                                  *)

LEMMA SignInMoves ==
    ASSUME NEW G, NEW B, DatabaseInv(G, B), QueueInv, NEW d \in Device,
           NEW screen, NEW calls, SignIn(d, screen, calls)
    PROVE  QueueInv'
<1>1. up[d] /\ DOMAIN stage' = Device /\ \A e \in Device \ {d} : stage'[e] = stage[e]
      BY DEF SignIn, QueueInv
<1>2. PICK c : Dispatch(d, c)
      BY DEF SignIn
<1>3. QED
      BY <1>1, <1>2, DispatchMoves

\* A process that is past the login screen runs.
LEMMA PastLogin ==
    ASSUME QueueInv, NEW d \in Device, stage[d] # "login"
    PROVE  up[d]
BY DEF QueueInv, QueueOf

LEMMA HandlerMoves ==
    ASSUME NEW G, NEW B, DatabaseInv(G, B), QueueInv, NEW d \in Device, MayAct(d),
           NEW calls, Dispatch(d, calls), UNCHANGED stage
    PROVE  QueueInv'
<1>1. up[d]
      BY PastLogin DEF MayAct
<1>2. DOMAIN stage' = Device /\ \A e \in Device \ {d} : stage'[e] = stage[e]
      BY DEF QueueInv
<1>3. QED
      BY <1>1, <1>2, DispatchMoves

LEMMA BlockMoves ==
    ASSUME NEW G, NEW B, DatabaseInv(G, B), QueueInv, NEW d \in Device, NEW op,
           NEW a \in AnswersTo(d, op), NEW calls, Return(d, a, calls), UNCHANGED stage
    PROVE  QueueInv'
BY ReturnMoves DEF AnswersTo

\* Where the client is left alone nothing moves.
LEMMA ClientStays ==
    ASSUME QueueInv, UNCHANGED <<dbVars, stage>>
    PROVE  QueueInv'
BY NothingMoves DEF QueueInv, SameQueues, dbVars, clientVars, linkVars

LEMMA SessionAnswerMoves ==
    ASSUME NEW G, NEW B, DatabaseInv(G, B), QueueInv, NEW d \in Device, SessionAnswer(d)
    PROVE  QueueInv'
<1>1. CASE GotDisplayName(d)
  <2>1. PICK a \in AnswersTo(d, "displayName") : \E calls : Return(d, a, calls)
        BY <1>1 DEF GotDisplayName
  <2>2. QED
        BY <1>1, <2>1, BlockMoves DEF GotDisplayName, sessionVars
<1>2. CASE GotInventory(d)
  <2>1. PICK a \in AnswersTo(d, "inventory") : Return(d, a, <<>>)
        BY <1>2 DEF GotInventory
  <2>2. QED
        BY <1>2, <2>1, BlockMoves DEF GotInventory
<1>3. CASE GotActiveItems(d)
  <2>1. PICK a \in AnswersTo(d, "activeItems") : Return(d, a, <<>>)
        BY <1>3 DEF GotActiveItems
  <2>2. QED
        BY <1>3, <2>1, BlockMoves DEF GotActiveItems
<1>4. CASE LeaderboardChanged(d)
      BY <1>4, ReceiveEventMoves DEF LeaderboardChanged, sessionVars
<1>5. CASE CrashOnActiveItems(d) \/ CrashOnPartialRow(d)
      BY <1>5, AppEndsMoves DEF CrashOnActiveItems, CrashOnPartialRow, Crash
<1>6. QED
      BY <1>1, <1>2, <1>3, <1>4, <1>5 DEF SessionAnswer

LEMMA EnvironmentMoves ==
    ASSUME NEW G, NEW B, Asks(B), DatabaseInv(G, B), QueueInv, NEW d \in Device,
           EnvironmentStep(d)
    PROVE  QueueInv'
<1>1. CASE ClientStep(d) /\ UNCHANGED sessionVars
      BY <1>1, ExecuteWriteMoves, ExecuteGetMoves, HoldGetMoves, ExecuteListenMoves,
         TimeOutMoves, ReceiveAckMoves DEF ClientStep, sessionVars
<1>2. CASE ServerStep(d) /\ UNCHANGED sessionVars
      BY <1>2, ServeWriteMoves, ServeGetMoves, ServeListenMoves DEF ServerStep, sessionVars
<1>3. CASE (Disconnect(d) \/ Reconnect(d)) /\ UNCHANGED sessionVars
      BY <1>3, DisconnectMoves, ReconnectMoves DEF sessionVars
<1>4. CASE Kill(d)
      BY <1>4, AppEndsMoves DEF Kill
<1>5. CASE Launch(d)
      BY <1>5, ProcessStartsMoves DEF Launch, sessionVars
<1>6. QED
      BY <1>1, <1>2, <1>3, <1>4, <1>5 DEF EnvironmentStep

LEMMA WalletStepMoves ==
    ASSUME NEW G, NEW B, DatabaseInv(G, B), QueueInv, NEW d \in Device,
           StoreStep(d) \/ RewardStep(d) \/ RedeemStep(d)
    PROVE  QueueInv'
<1>1. ASSUME NEW c \in Cell, BuyOnClick(d, c)
      PROVE  QueueInv'
      BY <1>1, HandlerMoves DEF BuyOnClick, MayStart, sessionVars
<1>2. ASSUME NEW c \in Cell, NEW k \in Key, CellForRow(d, c, k)
      PROVE  QueueInv'
      BY <1>2, ClientStays DEF CellForRow, sessionVars
<1>3. CASE GotBuyLeaves(d)
  <2>1. PICK a \in AnswersTo(d, "buyLeaves") : \E calls : Return(d, a, calls)
        BY <1>3 DEF GotBuyLeaves
  <2>2. QED
        BY <1>3, <2>1, BlockMoves DEF GotBuyLeaves, sessionVars
<1>4. CASE Deliver(d)
  <2>1. PICK a \in AnswersTo(d, "buyItem") : \E calls : Return(d, a, calls)
        BY <1>4 DEF Deliver
  <2>2. QED
        BY <1>4, <2>1, BlockMoves DEF Deliver
<1>5. CASE Refuse(d)
  <2>1. PICK a \in AnswersTo(d, "buyItem") : Return(d, a, <<>>)
        BY <1>5 DEF Refuse
  <2>2. QED
        BY <1>5, <2>1, BlockMoves DEF Refuse, sessionVars
<1>6. CASE CrashOnNilLeaves(d) \/ CrashOnPartialUser(d)
      BY <1>6, AppEndsMoves DEF CrashOnNilLeaves, CrashOnPartialUser, Crash
<1>7. CASE ClaimOnClick(d)
      BY <1>7, HandlerMoves DEF ClaimOnClick, MayStart, sessionVars
<1>8. CASE GotClaimDate(d)
  <2>1. PICK a \in AnswersTo(d, "claimDate") : \E calls : Return(d, a, calls)
        BY <1>8 DEF GotClaimDate
  <2>2. QED
        BY <1>8, <2>1, BlockMoves DEF GotClaimDate, sessionVars
<1>9. CASE GotRewardCurrent(d)
  <2>1. PICK a \in AnswersTo(d, "rewardCurrent") : \E calls : Return(d, a, calls)
        BY <1>9 DEF GotRewardCurrent
  <2>2. QED
        BY <1>9, <2>1, BlockMoves DEF GotRewardCurrent, sessionVars
<1>10. CASE GotRewardAllTime(d)
  <2>1. PICK a \in AnswersTo(d, "rewardAllTime") : \E calls : Return(d, a, calls)
        BY <1>10 DEF GotRewardAllTime
  <2>2. QED
        BY <1>10, <2>1, BlockMoves DEF GotRewardAllTime, sessionVars
<1>11. ASSUME NEW form \in [Entry -> Quantity], RedeemButtonPressed(d, form)
       PROVE  QueueInv'
  <2>1. PICK calls : Dispatch(d, calls)
        BY <1>11 DEF RedeemButtonPressed
  <2>2. QED
        BY <1>11, <2>1, HandlerMoves DEF RedeemButtonPressed, MayStart, sessionVars
<1>12. CASE GotUser(d)
  <2>1. PICK a \in AnswersTo(d, "redeem") : \E calls : Return(d, a, calls)
        BY <1>12 DEF GotUser
  <2>2. QED
        BY <1>12, <2>1, BlockMoves DEF GotUser, sessionVars
<1>13. QED
       BY <1>1, <1>2, <1>3, <1>4, <1>5, <1>6, <1>7, <1>8, <1>9, <1>10, <1>11, <1>12
          DEF StoreStep, RewardStep, RedeemStep

LEMMA LandStepMoves ==
    ASSUME NEW G, NEW B, DatabaseInv(G, B), QueueInv, NEW d \in Device, LandStep(d)
    PROVE  QueueInv'
<1>1. ASSUME NEW i \in 1..Len(inventoryItems[d]), OnPlaceItem(d, i)
      PROVE  QueueInv'
      BY <1>1, ClientStays DEF OnPlaceItem, sessionVars
<1>2. CASE OnBackButtonPressed(d)
      BY <1>2, ClientStays DEF OnBackButtonPressed, sessionVars
<1>3. ASSUME NEW c \in Coordinate, OnPlacementCompleted(d, c)
      PROVE  QueueInv'
  <2>1. PICK calls : Dispatch(d, calls)
        BY <1>3 DEF OnPlacementCompleted
  <2>2. QED
        BY <1>3, <2>1, HandlerMoves DEF OnPlacementCompleted
<1>4. ASSUME NEW c \in Coordinate, OnRemove(d, c)
      PROVE  QueueInv'
  <2>1. PICK calls : Dispatch(d, calls)
        BY <1>4 DEF OnRemove
  <2>2. QED
        BY <1>4, <2>1, HandlerMoves DEF OnRemove, MayStart
<1>5. CASE GotPlaceActive(d)
  <2>1. PICK a \in AnswersTo(d, "placeActive") : \E calls : Return(d, a, calls)
        BY <1>5 DEF GotPlaceActive
  <2>2. QED
        BY <1>5, <2>1, BlockMoves DEF GotPlaceActive
<1>6. CASE GotPlaceInventory(d)
  <2>1. PICK a \in AnswersTo(d, "placeInventory") : \E calls : Return(d, a, calls)
        BY <1>6 DEF GotPlaceInventory
  <2>2. QED
        BY <1>6, <2>1, BlockMoves DEF GotPlaceInventory, sessionVars
<1>7. CASE GotRemoveActive(d)
  <2>1. PICK a \in AnswersTo(d, "removeActive") : \E calls : Return(d, a, calls)
        BY <1>7 DEF GotRemoveActive
  <2>2. QED
        BY <1>7, <2>1, BlockMoves DEF GotRemoveActive, sessionVars
<1>8. CASE GotRemoveInventory(d)
  <2>1. PICK a \in AnswersTo(d, "removeInventory") : \E calls : Return(d, a, calls)
        BY <1>8 DEF GotRemoveInventory
  <2>2. QED
        BY <1>8, <2>1, BlockMoves DEF GotRemoveInventory, sessionVars
<1>9. CASE CrashOnLand(d)
      BY <1>9, AppEndsMoves DEF CrashOnLand, Crash
<1>10. QED
       BY <1>1, <1>2, <1>3, <1>4, <1>5, <1>6, <1>7, <1>8, <1>9 DEF LandStep

\* A handler that goes on to another screen dispatches calls.
LEMMA ScreenMoves ==
    ASSUME NEW G, NEW B, DatabaseInv(G, B), QueueInv, NEW d \in Device,
           stage[d] # "login", NEW screen, stage' = [stage EXCEPT ![d] = screen],
           NEW calls, Dispatch(d, calls)
    PROVE  QueueInv'
<1>1. up[d]
      BY PastLogin
<1>2. DOMAIN stage' = Device /\ \A e \in Device \ {d} : stage'[e] = stage[e]
      BY DEF QueueInv
<1>3. QED
      BY <1>1, <1>2, DispatchMoves

LEMMA AccountStepMoves ==
    ASSUME NEW G, NEW B, DatabaseInv(G, B), QueueInv, NEW d \in Device, AccountStep(d)
    PROVE  QueueInv'
<1>1. ASSUME NEW write, NEW calls, Save(d, write, calls)
      PROVE  QueueInv'
      BY <1>1, HandlerMoves DEF Save, MayStart, sessionVars
<1>2. ASSUME NEW calls, Issue(d, calls)
      PROVE  QueueInv'
      BY <1>2, HandlerMoves DEF Issue, MayStart, sessionVars
<1>3. CASE FirstSignIn(d) \/ SignInAgain(d)
      BY <1>3, SignInMoves DEF FirstSignIn, SignInAgain
<1>4. ASSUME NEW c \in Choice, ChooseAvatar(d, c)
      PROVE  QueueInv'
      BY <1>4, ScreenMoves DEF ChooseAvatar
<1>5. ASSUME NEW c \in Choice, ChangeAvatar(d, c) \/ UpdateButtonPressed(d, c)
      PROVE  QueueInv'
      BY <1>1, <1>5 DEF ChangeAvatar, UpdateButtonPressed
<1>6. ASSUME NEW joins \in BOOLEAN, LeaderSettingsSwitched(d, joins)
      PROVE  QueueInv'
      BY <1>1, <1>6 DEF LeaderSettingsSwitched
<1>7. CASE OpenDashboard(d) \/ OpenSettings(d) \/ AppNotifySwitched(d)
      BY <1>2, <1>7 DEF OpenDashboard, OpenSettings, AppNotifySwitched
<1>8. CASE GotDashboard(d)
  <2>1. PICK a \in AnswersTo(d, "dashboard") : Return(d, a, <<>>)
        BY <1>8 DEF GotDashboard
  <2>2. QED
        BY <1>8, <2>1, BlockMoves DEF GotDashboard, sessionVars
<1>9. CASE GotSettings(d)
  <2>1. PICK a \in AnswersTo(d, "settings") : \E calls : Return(d, a, calls)
        BY <1>9 DEF GotSettings
  <2>2. QED
        BY <1>9, <2>1, BlockMoves DEF GotSettings, sessionVars
<1>10. CASE CrashOnScreen(d) \/ CrashOnPermission(d)
       BY <1>10, AppEndsMoves DEF CrashOnScreen, CrashOnPermission, Crash
<1>11. CASE SignOutButtonPressed(d)
  <2>1. up[d]
        BY <1>11, PastLogin DEF SignOutButtonPressed, MayStart, MayAct
  <2>2. QueueOf(d)'
        BY <1>11, <2>1 DEF SignOutButtonPressed, Leave, QueueInv, QueueOf,
           dbVars, clientVars, linkVars
  <2>3. Elsewhere(d)
        BY <1>11 DEF SignOutButtonPressed, Leave, QueueInv, Elsewhere, SameQueues,
           dbVars, clientVars, linkVars
  <2>4. QED
        BY <2>2, <2>3, OneDevice
<1>12. CASE DeleteButtonPressed(d)
       BY <1>12, ScreenMoves DEF DeleteButtonPressed, Leave, MayStart, MayAct
<1>13. CASE PermissionKnown(d)
  <2>1. UNCHANGED stage
        BY <1>13 DEF PermissionKnown, sessionVars
  <2>2. CASE SignedIn(d) /\ Dispatch(d, PermissionWrite)
    <3>1. up[d]
          BY <2>2, PastLogin DEF SignedIn
    <3>2. DOMAIN stage' = Device /\ \A e \in Device \ {d} : stage'[e] = stage[e]
          BY <2>1 DEF QueueInv
    <3>3. QED
          BY <2>2, <3>1, <3>2, DispatchMoves
  <2>3. CASE UNCHANGED dbVars
        BY <2>1, <2>3, ClientStays
  <2>4. QED
        BY <1>13, <2>2, <2>3 DEF PermissionKnown
<1>14. CASE LoginViewDidLoad(d)
  <2>1. up[d]
        BY <1>14, PastLogin DEF LoginViewDidLoad
  <2>2. QueueOf(d)'
        BY <1>14, <2>1 DEF LoginViewDidLoad, Leave, QueueInv, QueueOf,
           dbVars, clientVars, linkVars
  <2>3. Elsewhere(d)
        BY <1>14 DEF LoginViewDidLoad, Leave, QueueInv, Elsewhere, SameQueues,
           dbVars, clientVars, linkVars
  <2>4. QED
        BY <2>2, <2>3, OneDevice
<1>15. QED
       BY <1>3, <1>4, <1>5, <1>6, <1>7, <1>8, <1>9, <1>10, <1>11, <1>12, <1>13, <1>14
          DEF AccountStep, ScreenStep

-----------------------------------------------------------------------------
(* In every behaviour.                                                     *)

LEMMA QueueInitHolds ==
    ASSUME UsersInit
    PROVE  QueueInv
<1>1. PICK opening \in Openings : SessionInit(opening)
      BY DEF UsersInit
<1>2. ASSUME NEW d \in Device
      PROVE  QueueOf(d)
      BY <1>1, <1>2, NothingUnderWay DEF SessionInit, DatabaseInit, QueueOf
<1>3. QED
      BY <1>1, <1>2 DEF SessionInit, DatabaseInit, QueueInv

LEMMA WalletMoves ==
    ASSUME NEW alone, Inv(alone), QueueInv, [WalletNext]_vars
    PROVE  QueueInv'
<1>1. DatabaseInv(Known(alone, ledger), Blocks) /\ Asks(Blocks)
      BY BlocksAsk DEF Inv
<1>2. PICK G : G = Known(alone, ledger)
      OBVIOUS
<1>3. DatabaseInv(G, Blocks)
      BY <1>1, <1>2
<1>4. CASE UNCHANGED vars \/ NextDay
      BY <1>4, ClientStays DEF vars, NextDay, sessionVars
<1>5. ASSUME NEW d \in Device, DidSignIn(d)
      PROVE  QueueInv'
      BY <1>3, <1>5, SignInMoves DEF DidSignIn
<1>6. QED
      BY <1>1, <1>3, <1>4, <1>5, WalletStepMoves, SessionAnswerMoves, EnvironmentMoves
         DEF WalletNext

LEMMA GameMoves ==
    ASSUME GameInv, QueueInv, [GameNext]_gameVars
    PROVE  QueueInv'
<1>1. DatabaseInv(Known(FALSE, ledger), Blocks) /\ Asks(Blocks)
      BY BlocksAsk DEF GameInv, Inv
<1>2. PICK G : G = Known(FALSE, ledger)
      OBVIOUS
<1>3. DatabaseInv(G, Blocks)
      BY <1>1, <1>2
<1>4. CASE UNCHANGED gameVars \/ NextDay
      BY <1>4, ClientStays DEF gameVars, vars, NextDay, sessionVars
<1>5. QED
      BY <1>1, <1>3, <1>4, WalletStepMoves, LandStepMoves, AccountStepMoves,
         SessionAnswerMoves, EnvironmentMoves
         DEF GameNext, WalletPart, LandPart, AccountPart, CommonPart

LEMMA QueueInvCounts == QueueInv => WritesUnderWay
BY DEF QueueInv, QueueOf, UnderWay, Upto, Acks, WritesUnderWay

\* No write of the app is lost and none is under way twice, though the client
\* forgets what it has heard whenever a connection is lost and sends every
\* unacknowledged write again (FPersistentConnection.m:1098, FRepo.m:654).
THEOREM WritesAreUnderWay == WalletSpec => []WritesUnderWay
<1>1. WalletInit => QueueInv
      BY QueueInitHolds DEF WalletInit
<1>2. Inv(TRUE) /\ QueueInv /\ [WalletNext]_vars => QueueInv'
      BY WalletMoves
<1>3. QED
      BY <1>1, <1>2, InvHolds, QueueInvCounts, PTL DEF WalletSpec

\* The same in the whole app, where the account may be left and deleted while
\* writes are under way.
THEOREM GameWritesAreUnderWay == GameSpec => []WritesUnderWay
<1>1. GameInit => QueueInv
      BY QueueInitHolds DEF GameInit, WalletInit
<1>2. GameInv /\ QueueInv /\ [GameNext]_gameVars => QueueInv'
      BY GameMoves
<1>3. QED
      BY <1>1, <1>2, GameInvHolds, QueueInvCounts, PTL DEF GameSpec

-----------------------------------------------------------------------------
(* A purchase has one end, however its two blocks run: in either order,    *)
(* late, among those of other purchases, on either side of a lost          *)
(* connection or of the process's end.                                     *)
(*                                                                         *)
(* The first block, which pays, may be under way in one place at most and  *)
(* runs once: whatever is sent again, a get is not.  The second block may  *)
(* meet the shared number before or after the first one wrote it, but then *)
(* it is the number that the first block decided on, about the same cell.  *)

BuyOps == {"buyLeaves", "buyItem"}

\* The blocks of purchases that wait for the answers in a queue.
Bearing(s) == {i \in DOMAIN s : s[i].kind \in {"get", "reply"} /\ s[i].then.op \in BuyOps}
Buys(s)    == {s[i].then : i \in Bearing(s)}

\* Two first blocks of the same purchase.
Twin(t, u)  == t.op = "buyLeaves" /\ u.op = "buyLeaves" /\ t.n = u.n
Apart(S, T) == \A t \in S, u \in T : ~Twin(t, u)
Single(s)   == \A i, j \in Bearing(s) : Twin(s[i].then, s[j].then) => i = j

\* The purchases under way in a device's four queues; nowhere are two first blocks
\* of one purchase under way.
BuysOfAll(a, b, c, e) == Buys(a) \cup Buys(b) \cup Buys(c) \cup Buys(e)
Once(a, b, c, e) ==
    /\ Single(a) /\ Single(b) /\ Single(c) /\ Single(e)
    /\ Apart(Buys(a), Buys(b)) /\ Apart(Buys(a), Buys(c)) /\ Apart(Buys(a), Buys(e))
    /\ Apart(Buys(b), Buys(c)) /\ Apart(Buys(b), Buys(e)) /\ Apart(Buys(c), Buys(e))

Flow(d)     == BuysOfAll(todo[d], wire[d], held[d], inbox[d])
OncePaid(d) == Once(todo[d], wire[d], held[d], inbox[d])

\* The two blocks of a purchase are about the same cell, the first one has not
\* run as long as it is under way, and once there is a number, the price was paid
\* if that number was enough.
Agreed(d, F) ==
    /\ \A t \in F : t.n \in 1..started[d]
    /\ \A t, u \in F : t.n = u.n => t.cell = u.cell
    /\ \A t \in F : t.op = "buyLeaves" => readLeaves[d][t.n] = Absent
    /\ \A t \in F : readLeaves[d][t.n] # Absent =>
          ("paid" \in outcome[d][t.n] <=> Affords(readLeaves[d][t.n], Price(d, t.cell)))

\* Purchases that were not started have no number, and those without a number no
\* outcome.
Ended(d, n) ==
    /\ n > started[d] => readLeaves[d][n] = Absent
    /\ readLeaves[d][n] = Absent => outcome[d][n] = {}
    /\ "delivered" \in outcome[d][n] => "paid" \in outcome[d][n]
    /\ "refused" \in outcome[d][n] => "paid" \notin outcome[d][n]

Outcomes == [Device -> [1..MaxOps -> SUBSET {"paid", "delivered", "refused"}]]

PurchaseOf(d) == OncePaid(d) /\ Agreed(d, Flow(d)) /\ \A n \in 1..MaxOps : Ended(d, n)

PurchaseInv == outcome \in Outcomes /\ \A d \in Device : PurchaseOf(d)

-----------------------------------------------------------------------------
(* The purchases in a sequence.                                            *)

\* What an element bears.
Borne(x) ==
    IF x.kind \in {"get", "reply"} /\ x.then.op \in BuyOps THEN {x.then} ELSE {}

LEMMA BuysOfLonger ==
    ASSUME NEW S, NEW s \in Seq(S), NEW x \in S, NEW t \in Seq(S), Longer(s, x, t)
    PROVE  /\ Buys(t) = Buys(s) \cup Borne(x)
           /\ Single(s) /\ Apart(Buys(s), Borne(x)) => Single(t)
<1>1. /\ Len(s) \in Nat /\ DOMAIN s = 1..Len(s) /\ DOMAIN t = 1..(Len(s) + 1)
      /\ t[Len(s) + 1] = x /\ \A i \in 1..Len(s) : t[i] = s[i]
      BY LenProperties DEF Longer
<1>2. Bearing(s) \subseteq 1..Len(s)
      BY <1>1 DEF Bearing
<1>3. \A i \in Bearing(t) : i \in Bearing(s) \/ (i = Len(s) + 1 /\ Borne(x) = {x.then})
      BY <1>1 DEF Bearing, Borne
<1>4. \A i \in Bearing(s) : i \in Bearing(t) /\ t[i] = s[i]
      BY <1>1 DEF Bearing
<1>5. Borne(x) # {} => Len(s) + 1 \in Bearing(t) /\ Borne(x) = {x.then}
      BY <1>1 DEF Bearing, Borne
<1>6. Buys(t) = Buys(s) \cup Borne(x)
  <2>1. ASSUME NEW u \in Buys(t)
        PROVE  u \in Buys(s) \cup Borne(x)
    <3>1. PICK i \in Bearing(t) : u = t[i].then
          BY DEF Buys
    <3>2. QED
          BY <1>1, <1>3, <1>4, <3>1 DEF Buys
  <2>2. ASSUME NEW u \in Buys(s)
        PROVE  u \in Buys(t)
    <3>1. PICK i \in Bearing(s) : u = s[i].then
          BY <2>2 DEF Buys
    <3>2. i \in Bearing(t) /\ t[i].then = u
          BY <1>4, <3>1
    <3>3. QED
          BY <3>2 DEF Buys
  <2>3. ASSUME NEW u \in Borne(x)
        PROVE  u \in Buys(t)
    <3>1. Len(s) + 1 \in Bearing(t) /\ u = t[Len(s) + 1].then
          BY <1>1, <1>5
    <3>2. QED
          BY <3>1 DEF Buys
  <2>4. QED
        BY <2>1, <2>2, <2>3
<1>7. ASSUME Single(s), Apart(Buys(s), Borne(x)),
             NEW i \in Bearing(t), NEW j \in Bearing(t), Twin(t[i].then, t[j].then)
      PROVE  i = j
  <2>1. CASE i \in Bearing(s) /\ j \in Bearing(s)
        BY <1>4, <1>7, <2>1 DEF Single
  <2>2. ASSUME NEW k \in Bearing(s), x.then \in Borne(x)
        PROVE  ~Twin(t[k].then, x.then) /\ ~Twin(x.then, t[k].then)
    <3>1. t[k].then \in Buys(s)
          BY <1>4 DEF Buys
    <3>2. QED
          BY <1>7, <2>2, <3>1 DEF Apart, Twin
  <2>3. QED
        BY <1>1, <1>3, <1>7, <2>1, <2>2
<1>8. QED
      BY <1>6, <1>7 DEF Single

LEMMA BuysOfShorter ==
    ASSUME NEW S, NEW s \in Seq(S), NEW t \in Seq(S), Shorter(s, t)
    PROVE  /\ Buys(s) = Borne(s[1]) \cup Buys(t)
           /\ Single(s) => Single(t) /\ Apart(Borne(s[1]), Buys(t))
<1>1. /\ Len(s) \in Nat /\ Len(s) > 0 /\ DOMAIN s = 1..Len(s)
      /\ Len(t) = Len(s) - 1 /\ DOMAIN t = 1..(Len(s) - 1)
      /\ \A i \in 1..(Len(s) - 1) : t[i] = s[i + 1]
      BY LenProperties DEF Shorter
<1>2. \A i \in Bearing(t) : i \in Nat /\ i > 0 /\ i + 1 \in Bearing(s) /\ t[i] = s[i + 1]
      BY <1>1 DEF Bearing
<1>3. \A i \in Bearing(s) :
          \/ i = 1 /\ Borne(s[1]) = {s[1].then}
          \/ i - 1 \in Bearing(t) /\ s[i] = t[i - 1]
      BY <1>1 DEF Bearing, Borne
<1>4. Borne(s[1]) # {} => 1 \in Bearing(s) /\ Borne(s[1]) = {s[1].then}
      BY <1>1 DEF Bearing, Borne
<1>5. Buys(t) \subseteq Buys(s)
  <2>1. ASSUME NEW u \in Buys(t)
        PROVE  u \in Buys(s)
    <3>1. PICK i \in Bearing(t) : u = t[i].then
          BY <2>1 DEF Buys
    <3>2. i + 1 \in Bearing(s) /\ s[i + 1].then = u
          BY <1>2, <3>1
    <3>3. QED
          BY <3>2 DEF Buys
  <2>2. QED
        BY <2>1
<1>6. Buys(s) \subseteq Borne(s[1]) \cup Buys(t)
  <2>1. ASSUME NEW u \in Buys(s)
        PROVE  u \in Borne(s[1]) \cup Buys(t)
    <3>1. PICK i \in Bearing(s) : u = s[i].then
          BY <2>1 DEF Buys
    <3>2. CASE i - 1 \in Bearing(t) /\ s[i] = t[i - 1]
          BY <3>1, <3>2 DEF Buys
    <3>3. QED
          BY <1>3, <3>1, <3>2
  <2>2. QED
        BY <2>1
<1>7. Borne(s[1]) \subseteq Buys(s)
      BY <1>4 DEF Buys
<1>8. ASSUME Single(s)
      PROVE  Single(t) /\ Apart(Borne(s[1]), Buys(t))
  <2>1. Single(t)
    <3>1. ASSUME NEW i \in Bearing(t), NEW j \in Bearing(t), Twin(t[i].then, t[j].then)
          PROVE  i = j
      <4>1. i + 1 = j + 1
            BY <1>2, <1>8, <3>1 DEF Single
      <4>2. QED
            BY <1>2, <4>1
    <3>2. QED
          BY <3>1 DEF Single
  <2>2. Apart(Borne(s[1]), Buys(t))
    <3>1. ASSUME NEW v \in Borne(s[1]), NEW u \in Buys(t), Twin(v, u)
          PROVE  FALSE
      <4>1. PICK i \in Bearing(t) : u = t[i].then
            BY <3>1 DEF Buys
      <4>2. 1 \in Bearing(s) /\ v = s[1].then
            BY <1>4, <3>1
      <4>3. 1 = i + 1
            BY <1>2, <1>8, <3>1, <4>1, <4>2 DEF Single
      <4>4. QED
            BY <1>2, <4>1, <4>3
    <3>2. QED
          BY <3>1 DEF Apart
  <2>3. QED
        BY <2>1, <2>2
<1>9. QED
      BY <1>5, <1>6, <1>7, <1>8

LEMMA BuysOfConcat ==
    ASSUME NEW S, NEW s \in Seq(S), NEW g \in Seq(S)
    PROVE  \E t \in Seq(S) :
              /\ t = s \o g
              /\ Buys(t) = Buys(s) \cup Buys(g)
              /\ Single(s) /\ Single(g) /\ Apart(Buys(s), Buys(g)) => Single(t)
<1>1. PICK t : t = s \o g
      OBVIOUS
<1>2. /\ Len(s) \in Nat /\ Len(g) \in Nat /\ DOMAIN s = 1..Len(s) /\ DOMAIN g = 1..Len(g)
      /\ t \in Seq(S) /\ DOMAIN t = 1..(Len(s) + Len(g))
      /\ \A i \in 1..Len(s) : t[i] = s[i]
      /\ \A i \in 1..Len(g) : t[Len(s) + i] = g[i]
  <2>1. /\ s \o g \in Seq(S) /\ Len(s \o g) = Len(s) + Len(g)
        /\ \A i \in 1..Len(s) + Len(g) :
              (s \o g)[i] = IF i <= Len(s) THEN s[i] ELSE g[i - Len(s)]
        BY ConcatProperties
  <2>2. /\ t \in Seq(S) /\ Len(t) = Len(s) + Len(g)
        /\ \A i \in 1..(Len(s) + Len(g)) :
              t[i] = IF i <= Len(s) THEN s[i] ELSE g[i - Len(s)]
        BY <1>1, <2>1
  <2>3. Len(s) \in Nat /\ Len(g) \in Nat /\ DOMAIN s = 1..Len(s) /\ DOMAIN g = 1..Len(g)
        BY LenProperties
  <2>4. DOMAIN t = 1..(Len(s) + Len(g))
        BY <2>2, LenProperties
  <2>5. \A i \in 1..Len(s) : t[i] = s[i]
        BY <2>2, <2>3
  <2>6. \A i \in 1..Len(g) : t[Len(s) + i] = g[i]
        BY <2>2, <2>3
  <2>7. QED
        BY <2>2, <2>3, <2>4, <2>5, <2>6
<1>3. \A i \in Bearing(s) : i \in Bearing(t) /\ t[i] = s[i]
      BY <1>2 DEF Bearing
<1>4. \A i \in Bearing(g) : i \in Nat /\ Len(s) + i \in Bearing(t) /\ t[Len(s) + i] = g[i]
      BY <1>2 DEF Bearing
<1>5. ASSUME NEW i \in Bearing(t)
      PROVE  \/ i \in Bearing(s) /\ t[i] = s[i]
             \/ \E j \in Bearing(g) : i = Len(s) + j /\ t[i] = g[j]
  <2>1. CASE i \in 1..Len(s)
        BY <1>2, <1>5, <2>1 DEF Bearing
  <2>2. CASE i \notin 1..Len(s)
    <3>1. PICK j \in 1..Len(g) : i = Len(s) + j
      <4>1. i \in 1..(Len(s) + Len(g))
            BY <1>2, <1>5 DEF Bearing
      <4>2. i - Len(s) \in 1..Len(g) /\ i = Len(s) + (i - Len(s))
            BY <1>2, <2>2, <4>1
      <4>3. QED
            BY <4>2
    <3>2. t[i] = g[j]
          BY <1>2, <3>1
    <3>3. j \in Bearing(g)
          BY <1>2, <1>5, <3>2 DEF Bearing
    <3>4. QED
          BY <3>1, <3>2, <3>3
  <2>3. QED
        BY <2>1, <2>2
<1>6. Buys(t) = Buys(s) \cup Buys(g)
  <2>1. ASSUME NEW u \in Buys(t)
        PROVE  u \in Buys(s) \cup Buys(g)
    <3>1. PICK i \in Bearing(t) : u = t[i].then
          BY <2>1 DEF Buys
    <3>2. QED
          BY <1>5, <3>1 DEF Buys
  <2>2. ASSUME NEW u \in Buys(s)
        PROVE  u \in Buys(t)
    <3>1. PICK i \in Bearing(s) : u = s[i].then
          BY <2>2 DEF Buys
    <3>2. i \in Bearing(t) /\ t[i].then = u
          BY <1>3, <3>1
    <3>3. QED
          BY <3>2 DEF Buys
  <2>3. ASSUME NEW u \in Buys(g)
        PROVE  u \in Buys(t)
    <3>1. PICK i \in Bearing(g) : u = g[i].then
          BY <2>3 DEF Buys
    <3>2. Len(s) + i \in Bearing(t) /\ t[Len(s) + i].then = u
          BY <1>4, <3>1
    <3>3. QED
          BY <3>2 DEF Buys
  <2>4. QED
        BY <2>1, <2>2, <2>3
<1>7. ASSUME Single(s), Single(g), Apart(Buys(s), Buys(g)),
             NEW i \in Bearing(t), NEW j \in Bearing(t), Twin(t[i].then, t[j].then)
      PROVE  i = j
  <2>1. CASE i \in Bearing(s) /\ t[i] = s[i] /\ j \in Bearing(s) /\ t[j] = s[j]
        BY <1>7, <2>1 DEF Single
  <2>2. ASSUME NEW k \in Bearing(s), NEW m \in Bearing(g)
        PROVE  ~Twin(s[k].then, g[m].then) /\ ~Twin(g[m].then, s[k].then)
    <3>1. s[k].then \in Buys(s) /\ g[m].then \in Buys(g)
          BY DEF Buys
    <3>2. QED
          BY <1>7, <3>1 DEF Apart, Twin
  <2>3. ASSUME NEW k \in Bearing(g), NEW m \in Bearing(g), Twin(g[k].then, g[m].then)
        PROVE  k = m
        BY <1>7, <2>3 DEF Single
  <2>4. QED
        BY <1>5, <1>7, <2>1, <2>2, <2>3
<1>8. Single(s) /\ Single(g) /\ Apart(Buys(s), Buys(g)) => Single(t)
      BY <1>7 DEF Single
<1>9. QED
      BY <1>1, <1>2, <1>6, <1>8

\* The first part of a sequence.
LEMMA BuysOfPart ==
    ASSUME NEW S, NEW s \in Seq(S), NEW n \in 0..Len(s)
    PROVE  \E t \in Seq(S) :
              /\ t = SubSeq(s, 1, n)
              /\ Buys(t) \subseteq Buys(s)
              /\ Single(s) => Single(t)
<1>1. PICK t : t = SubSeq(s, 1, n)
      OBVIOUS
<1>2. Len(s) \in Nat /\ DOMAIN s = 1..Len(s)
      BY LenProperties
<1>3. t \in Seq(S) /\ DOMAIN t = 1..n /\ \A i \in 1..n : t[i] = s[i]
  <2>1. \A i \in 1..n : s[i] \in S
        BY <1>2, ElementOfSeq
  <2>2. /\ SubSeq(s, 1, n) \in Seq(S)
        /\ Len(SubSeq(s, 1, n)) = IF 1 <= n THEN n - 1 + 1 ELSE 0
        /\ \A i \in 1..n - 1 + 1 : SubSeq(s, 1, n)[i] = s[1 + i - 1]
        BY <1>2, <2>1, SubSeqProperties
  <2>3. t \in Seq(S) /\ Len(t) = n /\ \A i \in 1..n : t[i] = s[i]
        BY <1>1, <1>2, <2>2
  <2>4. QED
        BY <2>3, LenProperties
<1>4. \A i \in Bearing(t) : i \in Bearing(s) /\ t[i] = s[i]
      BY <1>2, <1>3 DEF Bearing
<1>5. Buys(t) \subseteq Buys(s)
  <2>1. ASSUME NEW u \in Buys(t)
        PROVE  u \in Buys(s)
    <3>1. PICK i \in Bearing(t) : u = t[i].then
          BY <2>1 DEF Buys
    <3>2. i \in Bearing(s) /\ s[i].then = u
          BY <1>4, <3>1
    <3>3. QED
          BY <3>2 DEF Buys
  <2>2. QED
        BY <2>1
<1>6. Single(s) => Single(t)
      BY <1>4 DEF Single
<1>7. QED
      BY <1>1, <1>3, <1>5, <1>6

\* A sequence that bears no purchase.
Calm(s) == \A i \in DOMAIN s : Borne(s[i]) = {}

LEMMA CalmBuysNothing ==
    ASSUME NEW s, Calm(s)
    PROVE  Buys(s) = {} /\ Single(s)
<1>1. Bearing(s) = {}
      BY DEF Calm, Borne, Bearing
<1>2. QED
      BY <1>1 DEF Buys, Single

LEMMA CalmPair ==
    /\ Calm(<<>>)
    /\ \A x : Borne(x) = {} => Calm(<<x>>)
    /\ \A x, y : Borne(x) = {} /\ Borne(y) = {} => Calm(<<x, y>>)
BY DEF Calm

LEMMA CalmConcat ==
    ASSUME NEW S, NEW s \in Seq(S), NEW g \in Seq(S), Calm(s), Calm(g)
    PROVE  Calm(s \o g) /\ s \o g \in Seq(S)
<1>1. /\ Len(s) \in Nat /\ Len(g) \in Nat /\ DOMAIN s = 1..Len(s) /\ DOMAIN g = 1..Len(g)
      /\ s \o g \in Seq(S) /\ Len(s \o g) = Len(s) + Len(g)
      /\ \A i \in 1..Len(s) + Len(g) :
            (s \o g)[i] = IF i <= Len(s) THEN s[i] ELSE g[i - Len(s)]
      BY LenProperties, ConcatProperties
<1>2. ASSUME NEW i \in 1..(Len(s) + Len(g))
      PROVE  Borne((s \o g)[i]) = {}
  <2>1. CASE i <= Len(s)
    <3>1. i \in DOMAIN s /\ (s \o g)[i] = s[i]
          BY <1>1, <2>1
    <3>2. QED
          BY <3>1 DEF Calm
  <2>2. CASE ~(i <= Len(s))
    <3>1. i - Len(s) \in DOMAIN g /\ (s \o g)[i] = g[i - Len(s)]
          BY <1>1, <2>2
    <3>2. QED
          BY <3>1 DEF Calm
  <2>3. QED
        BY <2>1, <2>2
<1>3. DOMAIN (s \o g) = 1..(Len(s) + Len(g))
      BY <1>1, LenProperties
<1>4. QED
      BY <1>1, <1>2, <1>3 DEF Calm

LEMMA PutsAreCalm ==
    /\ \A w : Borne(SetValue(w)) = {}
    /\ Borne(Observe) = {} /\ Borne(Ack) = {} /\ \A w : Borne(Event(w)) = {}
BY DEF Borne, SetValue, Observe, Ack, Event

-----------------------------------------------------------------------------
(* What the client, the server and the network do with them.               *)

\* Sequence t bears no purchase that s does not bear.
Less(s, t) == Buys(t) \subseteq Buys(s) /\ (Single(s) => Single(t))

\* No purchase is added by a step.
Fewer(d) == OncePaid(d) => OncePaid(d)' /\ Flow(d)' \subseteq Flow(d)

LEMMA AllLess ==
    ASSUME NEW a, NEW b, NEW c, NEW e, Once(a, b, c, e),
           NEW a1, NEW b1, NEW c1, NEW e1, Less(a, a1), Less(b, b1), Less(c, c1), Less(e, e1)
    PROVE  /\ Once(a1, b1, c1, e1)
           /\ BuysOfAll(a1, b1, c1, e1) \subseteq BuysOfAll(a, b, c, e)
BY DEF Once, BuysOfAll, Less, Apart

LEMMA LessEach ==
    ASSUME NEW d, Less(todo[d], todo'[d]), Less(wire[d], wire'[d]), Less(held[d], held'[d]),
           Less(inbox[d], inbox'[d])
    PROVE  Fewer(d)
BY AllLess DEF Fewer, OncePaid, Flow

LEMMA SameIsLess == \A s : Less(s, s)
BY DEF Less

LEMMA CalmIsLess ==
    ASSUME NEW s, NEW t, Calm(t)
    PROVE  Less(s, t)
BY CalmBuysNothing DEF Less

LEMMA TailIsLess ==
    ASSUME NEW S, NEW s \in Seq(S), s # <<>>
    PROVE  Less(s, Tail(s))
<1>1. PICK t \in Seq(S) : t = Tail(s) /\ Shorter(s, t)
      BY TailIsShorter
<1>2. t \in Seq(S) /\ Shorter(s, t)
      BY <1>1
<1>3. Less(s, t)
      BY <1>2, BuysOfShorter DEF Less
<1>4. QED
      BY <1>1, <1>3

LEMMA CalmAppendIsLess ==
    ASSUME NEW S, NEW s \in Seq(S), NEW x \in S, Borne(x) = {}
    PROVE  Less(s, Append(s, x))
<1>1. PICK t \in Seq(S) : t = Append(s, x) /\ Longer(s, x, t)
      BY AppendIsLonger
<1>2. t \in Seq(S) /\ Longer(s, x, t) /\ Apart(Buys(s), Borne(x))
      BY <1>1 DEF Apart
<1>3. /\ Buys(t) = Buys(s) \cup Borne(x)
      /\ Single(s) /\ Apart(Buys(s), Borne(x)) => Single(t)
      BY <1>2, BuysOfLonger
<1>4. Less(s, t)
      BY <1>2, <1>3 DEF Less
<1>5. QED
      BY <1>1, <1>4

LEMMA CalmConcatIsLess ==
    ASSUME NEW S, NEW s \in Seq(S), NEW g \in Seq(S), Calm(g)
    PROVE  Less(s, s \o g)
<1>1. Buys(g) = {} /\ Single(g)
      BY CalmBuysNothing
<1>2. PICK t \in Seq(S) :
          /\ t = s \o g /\ Buys(t) = Buys(s) \cup Buys(g)
          /\ Single(s) /\ Single(g) /\ Apart(Buys(s), Buys(g)) => Single(t)
      BY BuysOfConcat
<1>3. Less(s, t)
      BY <1>1, <1>2 DEF Less, Apart
<1>4. QED
      BY <1>2, <1>3

\* The first of a, bearing D, goes to the end of b.
LEMMA FirstMoves ==
    ASSUME NEW a, NEW b, NEW c, NEW e, Once(a, b, c, e),
           NEW a1, NEW b1, NEW D,
           Buys(a) = D \cup Buys(a1), Single(a) => Single(a1) /\ Apart(D, Buys(a1)),
           Buys(b1) = Buys(b) \cup D, Single(b) /\ Apart(Buys(b), D) => Single(b1)
    PROVE  /\ Once(a1, b1, c, e)
           /\ BuysOfAll(a1, b1, c, e) \subseteq BuysOfAll(a, b, c, e)
<1>1. Apart(Buys(b), D)
      BY DEF Once, Apart, Twin
<1>2. Single(a1) /\ Single(b1) /\ Apart(D, Buys(a1))
      BY <1>1 DEF Once
<1>3. /\ Apart(Buys(a1), Buys(b1)) /\ Apart(Buys(a1), Buys(c)) /\ Apart(Buys(a1), Buys(e))
      /\ Apart(Buys(b1), Buys(c)) /\ Apart(Buys(b1), Buys(e))
      BY <1>2 DEF Once, Apart, Twin
<1>4. BuysOfAll(a1, b1, c, e) \subseteq BuysOfAll(a, b, c, e)
      BY DEF BuysOfAll
<1>5. QED
      BY <1>2, <1>3, <1>4 DEF Once

\* The order in which the queues are named does not matter.
LEMMA OtherOrders ==
    ASSUME NEW a, NEW b, NEW c, NEW e
    PROVE  /\ Once(a, b, c, e) <=> Once(a, c, b, e)
           /\ Once(a, b, c, e) <=> Once(b, e, a, c)
           /\ BuysOfAll(a, b, c, e) = BuysOfAll(a, c, b, e)
           /\ BuysOfAll(a, b, c, e) = BuysOfAll(b, e, a, c)
<1>1. \A S, T : Apart(S, T) <=> Apart(T, S)
      BY DEF Apart, Twin
<1>2. Once(a, b, c, e) <=> Once(a, c, b, e)
      BY <1>1 DEF Once
<1>3. Once(a, b, c, e) <=> Once(b, e, a, c)
      BY <1>1 DEF Once
<1>4. QED
      BY <1>2, <1>3 DEF BuysOfAll

\* What a queue loses with its first, what it gains with one more.
LEMMA FirstLeaves ==
    ASSUME NEW S, NEW s \in Seq(S), s # <<>>
    PROVE  /\ Buys(s) = Borne(Head(s)) \cup Buys(Tail(s))
           /\ Single(s) => Single(Tail(s)) /\ Apart(Borne(Head(s)), Buys(Tail(s)))
<1>1. PICK t \in Seq(S) : t = Tail(s) /\ Shorter(s, t)
      BY TailIsShorter
<1>2. PICK x : x = Head(s) /\ x = s[1]
      BY TailIsShorter
<1>3. t \in Seq(S) /\ Shorter(s, t) /\ x = s[1]
      BY <1>1, <1>2
<1>4. /\ Buys(s) = Borne(x) \cup Buys(t)
      /\ Single(s) => Single(t) /\ Apart(Borne(x), Buys(t))
      BY <1>3, BuysOfShorter
<1>5. QED
      BY <1>1, <1>2, <1>4

LEMMA OneComes ==
    ASSUME NEW S, NEW s \in Seq(S), NEW x \in S
    PROVE  /\ Buys(Append(s, x)) = Buys(s) \cup Borne(x)
           /\ Single(s) /\ Apart(Buys(s), Borne(x)) => Single(Append(s, x))
<1>1. PICK t \in Seq(S) : t = Append(s, x) /\ Longer(s, x, t)
      BY AppendIsLonger
<1>2. /\ Buys(t) = Buys(s) \cup Borne(x)
      /\ Single(s) /\ Apart(Buys(s), Borne(x)) => Single(t)
      BY <1>1, BuysOfLonger
<1>3. QED
      BY <1>1, <1>2

\* A device whose queues are as they were.
LEMMA UnmovedHasNoMore ==
    ASSUME NEW d, todo'[d] = todo[d], wire'[d] = wire[d], held'[d] = held[d],
           inbox'[d] = inbox[d]
    PROVE  Fewer(d)
BY LessEach, SameIsLess

\* A step of one device.
AllFewer == \A e \in Device : Fewer(e)

OthersUnmoved(d) ==
    \A e \in Device \ {d} :
        todo'[e] = todo[e] /\ wire'[e] = wire[e] /\ held'[e] = held[e] /\ inbox'[e] = inbox[e]

LEMMA OnlyOneMoves ==
    ASSUME NEW d \in Device, Fewer(d), OthersUnmoved(d)
    PROVE  AllFewer
<1>1. ASSUME NEW e \in Device
      PROVE  Fewer(e)
      BY <1>1, UnmovedHasNoMore DEF OthersUnmoved
<1>2. QED
      BY <1>1 DEF AllFewer

LEMMA NoQueueMoves ==
    ASSUME UNCHANGED <<todo, wire, held, inbox>>
    PROVE  AllFewer
BY UnmovedHasNoMore DEF AllFewer

LEMMA ExecuteWriteBuys ==
    ASSUME NEW G, NEW B, DatabaseInv(G, B), NEW d \in Device, ExecuteWrite(d)
    PROVE  AllFewer
<1>1. PICK c \in First(todo[d]) :
          c.kind = "put" /\ wire' = [wire EXCEPT ![d] = Append(@, c)]
      BY DEF ExecuteWrite
<1>2. c \in Call(G, B[d]) /\ Borne(c) = {} /\ todo[d] # <<>>
      BY <1>1, FirstCall DEF Borne, First
<1>3. Less(todo[d], Tail(todo[d])) /\ Less(wire[d], Append(wire[d], c))
      BY <1>2, TailIsLess, CalmAppendIsLess DEF DatabaseInv
<1>4. Fewer(d)
      BY <1>1, <1>3, LessEach, SameIsLess DEF ExecuteWrite, DatabaseInv
<1>5. OthersUnmoved(d)
      BY <1>1 DEF ExecuteWrite, DatabaseInv, OthersUnmoved
<1>6. QED
      BY <1>4, <1>5, OnlyOneMoves

LEMMA ExecuteGetBuys ==
    ASSUME NEW G, NEW B, DatabaseInv(G, B), NEW d \in Device, ExecuteGet(d)
    PROVE  AllFewer
<1>1. PICK c \in First(todo[d]) : wire' = [wire EXCEPT ![d] = Append(@, c)]
      BY DEF ExecuteGet
<1>2. c \in Call(G, B[d]) /\ c = Head(todo[d]) /\ todo[d] # <<>>
      BY <1>1, FirstCall DEF First
<1>3. /\ todo[d] \in Seq(Call(G, B[d])) /\ wire[d] \in Seq(Call(G, B[d]))
      /\ todo'[d] = Tail(todo[d]) /\ wire'[d] = Append(wire[d], c)
      /\ held'[d] = held[d] /\ inbox'[d] = inbox[d]
      BY <1>1 DEF ExecuteGet, DatabaseInv
<1>4. /\ Buys(todo[d]) = Borne(c) \cup Buys(todo'[d])
      /\ Single(todo[d]) => Single(todo'[d]) /\ Apart(Borne(c), Buys(todo'[d]))
      BY <1>2, <1>3, FirstLeaves
<1>5. /\ Buys(wire'[d]) = Buys(wire[d]) \cup Borne(c)
      /\ Single(wire[d]) /\ Apart(Buys(wire[d]), Borne(c)) => Single(wire'[d])
      BY <1>2, <1>3, OneComes
<1>6. Fewer(d)
  <2>1. ASSUME OncePaid(d)
        PROVE  OncePaid(d)' /\ Flow(d)' \subseteq Flow(d)
        BY <1>3, <1>4, <1>5, <2>1, FirstMoves DEF OncePaid, Flow
  <2>2. QED
        BY <2>1 DEF Fewer
<1>7. OthersUnmoved(d)
      BY <1>1 DEF ExecuteGet, DatabaseInv, OthersUnmoved
<1>8. QED
      BY <1>6, <1>7, OnlyOneMoves

LEMMA HoldGetBuys ==
    ASSUME NEW G, NEW B, DatabaseInv(G, B), NEW d \in Device, HoldGet(d)
    PROVE  AllFewer
<1>1. PICK c \in First(todo[d]) : held' = [held EXCEPT ![d] = Append(@, c)]
      BY DEF HoldGet
<1>2. c \in Call(G, B[d]) /\ c = Head(todo[d]) /\ todo[d] # <<>>
      BY <1>1, FirstCall DEF First
<1>3. /\ todo[d] \in Seq(Call(G, B[d])) /\ held[d] \in Seq(Call(G, B[d]))
      /\ todo'[d] = Tail(todo[d]) /\ held'[d] = Append(held[d], c)
      /\ wire'[d] = wire[d] /\ inbox'[d] = inbox[d]
      BY <1>1 DEF HoldGet, DatabaseInv
<1>4. /\ Buys(todo[d]) = Borne(c) \cup Buys(todo'[d])
      /\ Single(todo[d]) => Single(todo'[d]) /\ Apart(Borne(c), Buys(todo'[d]))
      BY <1>2, <1>3, FirstLeaves
<1>5. /\ Buys(held'[d]) = Buys(held[d]) \cup Borne(c)
      /\ Single(held[d]) /\ Apart(Buys(held[d]), Borne(c)) => Single(held'[d])
      BY <1>2, <1>3, OneComes
<1>6. Fewer(d)
  <2>1. ASSUME OncePaid(d)
        PROVE  OncePaid(d)' /\ Flow(d)' \subseteq Flow(d)
    <3>1. Once(todo[d], held[d], wire[d], inbox[d])
          BY <2>1, OtherOrders DEF OncePaid
    <3>2. /\ Once(todo'[d], held'[d], wire[d], inbox[d])
          /\ BuysOfAll(todo'[d], held'[d], wire[d], inbox[d]) \subseteq
                BuysOfAll(todo[d], held[d], wire[d], inbox[d])
          BY <1>4, <1>5, <3>1, FirstMoves
    <3>3. QED
          BY <1>3, <3>2, OtherOrders DEF OncePaid, Flow
  <2>2. QED
        BY <2>1 DEF Fewer
<1>7. OthersUnmoved(d)
      BY <1>1 DEF HoldGet, DatabaseInv, OthersUnmoved
<1>8. QED
      BY <1>6, <1>7, OnlyOneMoves

LEMMA TimeOutBuys ==
    ASSUME NEW G, NEW B, DatabaseInv(G, B), NEW d \in Device, TimeOut(d)
    PROVE  AllFewer
<1>1. Less(held[d], Tail(held[d]))
      BY TailIsLess DEF TimeOut, DatabaseInv
<1>2. Fewer(d)
      BY <1>1, LessEach, SameIsLess DEF TimeOut, DatabaseInv
<1>3. OthersUnmoved(d)
      BY DEF TimeOut, DatabaseInv, OthersUnmoved
<1>4. QED
      BY <1>2, <1>3, OnlyOneMoves

LEMMA ExecuteListenBuys ==
    ASSUME NEW G, NEW B, DatabaseInv(G, B), NEW d \in Device, ExecuteListen(d)
    PROVE  AllFewer
<1>1. todo[d] # <<>>
      BY DEF ExecuteListen, First
<1>2. Less(todo[d], Tail(todo[d])) /\ Less(wire[d], Append(wire[d], Observe))
      BY <1>1, TailIsLess, CalmAppendIsLess, PutsAreCalm, ObserveIsCall DEF DatabaseInv
<1>3. Less(wire[d], wire'[d])
      BY <1>2, SameIsLess DEF ExecuteListen, DatabaseInv
<1>4. Fewer(d)
      BY <1>2, <1>3, LessEach, SameIsLess DEF ExecuteListen, DatabaseInv
<1>5. OthersUnmoved(d)
      BY DEF ExecuteListen, DatabaseInv, OthersUnmoved
<1>6. QED
      BY <1>4, <1>5, OnlyOneMoves

\* A message that bears no block is taken.
LEMMA ReceiveBuys ==
    ASSUME NEW G, NEW B, DatabaseInv(G, B), NEW d \in Device, ReceiveAck(d) \/ ReceiveEvent(d)
    PROVE  AllFewer
<1>1. /\ inbox[d] # <<>> /\ inbox' = [inbox EXCEPT ![d] = Tail(@)]
      /\ UNCHANGED <<todo, wire, held>>
      BY DEF ReceiveAck, ReceiveEvent, First
<1>2. Less(inbox[d], Tail(inbox[d]))
      BY <1>1, TailIsLess DEF DatabaseInv
<1>3. Fewer(d)
      BY <1>1, <1>2, LessEach, SameIsLess DEF DatabaseInv
<1>4. OthersUnmoved(d)
      BY <1>1 DEF DatabaseInv, OthersUnmoved
<1>5. QED
      BY <1>3, <1>4, OnlyOneMoves

LEMMA NoticesAreCalm ==
    ASSUME NEW S, NEW e, NEW d, NEW w, Event(w) \in S, Ack \in S
    PROVE  Notices(e, d, w) \in Seq(S) /\ Calm(Notices(e, d, w))
<1> DEFINE a == IF watching[e] THEN <<Event(w)>> ELSE <<>>
           b == IF e = d /\ up[d] THEN <<Ack>> ELSE <<>>
<1>1. Borne(Event(w)) = {} /\ Borne(Ack) = {}
      BY PutsAreCalm
<1>2. \A x \in S : <<x>> \in Seq(S)
      OBVIOUS
<1>3. <<>> \in Seq(S)
      OBVIOUS
<1>4. a \in Seq(S) /\ Calm(a)
      BY <1>1, <1>2, <1>3, CalmPair
<1>5. b \in Seq(S) /\ Calm(b)
      BY <1>1, <1>2, <1>3, CalmPair
<1> HIDE DEF a, b
<1>6. a \o b \in Seq(S) /\ Calm(a \o b)
      BY <1>4, <1>5, CalmConcat
<1>7. QED
      BY <1>6 DEF a, b, Notices

LEMMA ServeWriteBuys ==
    ASSUME NEW G, NEW B, DatabaseInv(G, B), NEW d \in Device, ServeWrite(d)
    PROVE  AllFewer
<1>1. PICK w : /\ w = Head(wire[d]).write
               /\ inbox' = [e \in Device |-> inbox[e] \o Notices(e, d, w)]
      BY DEF ServeWrite
<1>2. /\ wire[d] # <<>> /\ wire' = [wire EXCEPT ![d] = Tail(@)]
      /\ UNCHANGED <<todo, held>>
      BY DEF ServeWrite, Reachable
<1>3. w \in Write(G)
      BY <1>1, RequestIsCall, CallKinds DEF ServeWrite
<1>4. ASSUME NEW e \in Device
      PROVE  Fewer(e)
  <2> DEFINE M == Message(G, B[e])
  <2>1. inbox[e] \in Seq(M)
        BY DEF DatabaseInv
  <2>2. Event(w) \in M /\ Ack \in M
        BY <1>3 DEF Message
  <2> HIDE DEF M
  <2>3. Notices(e, d, w) \in Seq(M) /\ Calm(Notices(e, d, w))
        BY <2>2, NoticesAreCalm
  <2>4. Less(inbox[e], inbox[e] \o Notices(e, d, w))
        BY <2>1, <2>3, CalmConcatIsLess
  <2>5. inbox'[e] = inbox[e] \o Notices(e, d, w)
        BY <1>1
  <2>6. Less(inbox[e], inbox'[e])
        BY <2>4, <2>5
  <2>7. Less(wire[e], wire'[e])
    <3>1. CASE e = d
      <4>1. wire[d] \in Seq(Call(G, B[d])) /\ wire'[d] = Tail(wire[d])
            BY <1>2 DEF DatabaseInv
      <4>2. QED
            BY <1>2, <3>1, <4>1, TailIsLess
    <3>2. CASE e # d
      <4>1. wire'[e] = wire[e]
            BY <1>2, <3>2 DEF DatabaseInv
      <4>2. QED
            BY <4>1, SameIsLess
    <3>3. QED
          BY <3>1, <3>2
  <2>8. QED
        BY <1>2, <2>6, <2>7, LessEach, SameIsLess
<1>5. QED
      BY <1>4 DEF AllFewer

\* The reply bears what the request bore.
LEMMA ReplyBears ==
    ASSUME NEW r, r.kind = "get", NEW snap
    PROVE  Borne(Reply(r.then, snap)) = Borne(r)
BY DEF Borne, Reply

LEMMA ServeGetBuys ==
    ASSUME NEW G, NEW B, Asks(B), DatabaseInv(G, B), NEW d \in Device, ServeGet(d)
    PROVE  AllFewer
<1>1. PICK r : r = Head(wire[d])
      OBVIOUS
<1>2. PICK m : m = Reply(r.then, [l \in r.leaves |-> record[l]])
      OBVIOUS
<1>3. /\ r.kind = "get" /\ wire[d] # <<>> /\ wire' = [wire EXCEPT ![d] = Tail(@)]
      /\ inbox' = IF up[d] THEN [inbox EXCEPT ![d] = Append(@, m)] ELSE inbox
      /\ UNCHANGED <<todo, held>>
      BY <1>1, <1>2 DEF ServeGet, Reachable
<1>4. m \in Message(G, B[d]) /\ Borne(m) = Borne(r)
  <2>1. r.then \in DOMAIN B[d] /\ r.leaves = B[d][r.then] /\ r.leaves \subseteq Leaf
        BY <1>1, <1>3, RequestIsCall, CallKinds DEF Asks, ServeGet
  <2>2. [l \in r.leaves |-> record[l]] \in Patch(G, r.leaves)
        BY <2>1, PartIsPatch DEF DatabaseInv
  <2>3. m \in Message(G, B[d])
        BY <1>2, <2>1, <2>2 DEF Message
  <2>4. QED
        BY <1>2, <1>3, <2>3, ReplyBears
<1>5. /\ wire[d] \in Seq(Call(G, B[d])) /\ wire'[d] = Tail(wire[d])
      /\ todo'[d] = todo[d] /\ held'[d] = held[d] /\ inbox[d] \in Seq(Message(G, B[d]))
      BY <1>3 DEF DatabaseInv
<1>6. /\ Buys(wire[d]) = Borne(r) \cup Buys(wire'[d])
      /\ Single(wire[d]) => Single(wire'[d]) /\ Apart(Borne(r), Buys(wire'[d]))
      BY <1>1, <1>3, <1>5, FirstLeaves
<1>7. ASSUME up[d]
      PROVE  Fewer(d)
  <2>1. inbox'[d] = Append(inbox[d], m)
        BY <1>3, <1>7 DEF DatabaseInv
  <2>2. /\ Buys(inbox'[d]) = Buys(inbox[d]) \cup Borne(r)
        /\ Single(inbox[d]) /\ Apart(Buys(inbox[d]), Borne(r)) => Single(inbox'[d])
        BY <1>4, <1>5, <2>1, OneComes
  <2>3. ASSUME OncePaid(d)
        PROVE  OncePaid(d)' /\ Flow(d)' \subseteq Flow(d)
    <3>1. Once(wire[d], inbox[d], todo[d], held[d])
          BY <2>3, OtherOrders DEF OncePaid
    <3>2. /\ Once(wire'[d], inbox'[d], todo[d], held[d])
          /\ BuysOfAll(wire'[d], inbox'[d], todo[d], held[d]) \subseteq
                BuysOfAll(wire[d], inbox[d], todo[d], held[d])
          BY <1>6, <2>2, <3>1, FirstMoves
    <3>3. QED
          BY <1>5, <3>2, OtherOrders DEF OncePaid, Flow
  <2>4. QED
        BY <2>3 DEF Fewer
<1>8. ASSUME ~up[d]
      PROVE  Fewer(d)
  <2>1. Less(wire[d], wire'[d])
        BY <1>6 DEF Less
  <2>2. inbox'[d] = inbox[d]
        BY <1>3, <1>8
  <2>3. QED
        BY <1>5, <2>1, <2>2, LessEach, SameIsLess
<1>9. OthersUnmoved(d)
      BY <1>3 DEF DatabaseInv, OthersUnmoved
<1>10. Fewer(d)
       BY <1>7, <1>8
<1>11. QED
       BY <1>9, <1>10, OnlyOneMoves

LEMMA ServeListenBuys ==
    ASSUME NEW G, NEW B, DatabaseInv(G, B), NEW d \in Device, ServeListen(d)
    PROVE  AllFewer
<1>1. PICK m : m = Event(record)
      OBVIOUS
<1>2. /\ wire[d] # <<>> /\ wire' = [wire EXCEPT ![d] = Tail(@)]
      /\ inbox' = IF up[d] THEN [inbox EXCEPT ![d] = Append(@, m)] ELSE inbox
      /\ UNCHANGED <<todo, held>>
      BY <1>1 DEF ServeListen, Reachable
<1>3. m \in Message(G, B[d]) /\ Borne(m) = {}
      BY <1>1, PatchIsWrite, PutsAreCalm DEF Message, DatabaseInv
<1>4. Less(wire[d], Tail(wire[d])) /\ Less(inbox[d], Append(inbox[d], m))
      BY <1>2, <1>3, TailIsLess, CalmAppendIsLess DEF DatabaseInv
<1>5. Less(inbox[d], inbox'[d])
      BY <1>2, <1>4, SameIsLess DEF DatabaseInv
<1>6. Fewer(d)
      BY <1>2, <1>4, <1>5, LessEach, SameIsLess DEF DatabaseInv
<1>7. OthersUnmoved(d)
      BY <1>2 DEF DatabaseInv, OthersUnmoved
<1>8. QED
      BY <1>6, <1>7, OnlyOneMoves

LEMMA DisconnectBuys ==
    ASSUME NEW G, NEW B, DatabaseInv(G, B), NEW d \in Device, Disconnect(d)
    PROVE  AllFewer
<1>1. Calm(Resends(d))
      BY PutsAreCalm DEF Calm, Resends
<1>2. Less(wire[d], Resends(d)) /\ Less(inbox[d], <<>>)
      BY <1>1, CalmIsLess, CalmPair
<1>3. Fewer(d)
      BY <1>2, LessEach, SameIsLess DEF Disconnect, DatabaseInv
<1>4. OthersUnmoved(d)
      BY DEF Disconnect, DatabaseInv, OthersUnmoved
<1>5. QED
      BY <1>3, <1>4, OnlyOneMoves

\* The gets that waited go to the end of what is sent again.
LEMMA ReconnectBuys ==
    ASSUME NEW G, NEW B, DatabaseInv(G, B), NEW d \in Device, Reconnect(d)
    PROVE  AllFewer
<1> DEFINE C == Call(G, B[d])
<1>1. wire[d] \in Seq(C) /\ held[d] \in Seq(C) /\ Observe \in C
      BY ObserveIsCall DEF DatabaseInv
<1> HIDE DEF C
<1>2. PICK again \in Seq(C) : again = (IF listens[d] THEN <<Observe>> ELSE <<>>) /\ Calm(again)
  <2>1. \A x \in C : <<x>> \in Seq(C)
        OBVIOUS
  <2>2. <<Observe>> \in Seq(C) /\ Calm(<<Observe>>)
        BY <1>1, <2>1, CalmPair, PutsAreCalm
  <2>3. <<>> \in Seq(C) /\ Calm(<<>>)
        BY CalmPair
  <2>4. QED
        BY <2>2, <2>3
<1>3. Buys(again) = {} /\ Single(again)
      BY <1>2, CalmBuysNothing
<1>4. PICK v \in Seq(C) :
          /\ v = again \o wire[d] /\ Buys(v) = Buys(again) \cup Buys(wire[d])
          /\ Single(again) /\ Single(wire[d]) /\ Apart(Buys(again), Buys(wire[d])) => Single(v)
      BY <1>1, <1>2, BuysOfConcat
<1>5. v \in Seq(C) /\ Buys(v) = Buys(wire[d]) /\ (Single(wire[d]) => Single(v))
      BY <1>3, <1>4 DEF Apart
<1>6. PICK w \in Seq(C) :
          /\ w = v \o held[d] /\ Buys(w) = Buys(v) \cup Buys(held[d])
          /\ Single(v) /\ Single(held[d]) /\ Apart(Buys(v), Buys(held[d])) => Single(w)
      BY <1>1, <1>5, BuysOfConcat
<1>7. /\ wire'[d] = w /\ held'[d] = <<>> /\ todo'[d] = todo[d] /\ inbox'[d] = inbox[d]
  <2>1. wire'[d] = (again \o wire[d]) \o held[d]
        BY <1>2 DEF Reconnect, DatabaseInv
  <2>2. QED
        BY <1>4, <1>6, <2>1 DEF Reconnect, DatabaseInv
<1>8. Buys(<<>>) = {} /\ Single(<<>>)
      BY CalmPair, CalmBuysNothing
<1>9. ASSUME OncePaid(d)
      PROVE  OncePaid(d)' /\ Flow(d)' \subseteq Flow(d)
  <2>1. Once(todo[d], w, <<>>, inbox[d])
        BY <1>5, <1>6, <1>8, <1>9 DEF OncePaid, Once, Apart, Twin
  <2>2. BuysOfAll(todo[d], w, <<>>, inbox[d]) \subseteq Flow(d)
        BY <1>5, <1>6, <1>8 DEF BuysOfAll, Flow
  <2>3. QED
        BY <1>7, <2>1, <2>2 DEF OncePaid, Flow
<1>10. Fewer(d)
       BY <1>9 DEF Fewer
<1>11. OthersUnmoved(d)
       BY DEF Reconnect, DatabaseInv, OthersUnmoved
<1>12. QED
       BY <1>10, <1>11, OnlyOneMoves

LEMMA AppEndsBuys ==
    ASSUME NEW G, NEW B, DatabaseInv(G, B), NEW d \in Device, AppEnds(d)
    PROVE  AllFewer
<1>1. PICK n \in 0..(IF online[d] THEN Len(wire[d]) ELSE 0) :
          wire' = [wire EXCEPT ![d] = SubSeq(@, 1, n)]
      BY DEF AppEnds, ProcessEnds
<1>2. wire[d] \in Seq(Call(G, B[d])) /\ n \in 0..Len(wire[d])
  <2>1. wire[d] \in Seq(Call(G, B[d])) /\ Len(wire[d]) \in Nat
        BY LenProperties DEF DatabaseInv
  <2>2. QED
        BY <1>1, <2>1
<1>3. PICK t \in Seq(Call(G, B[d])) :
          t = SubSeq(wire[d], 1, n) /\ Buys(t) \subseteq Buys(wire[d])
          /\ (Single(wire[d]) => Single(t))
      BY <1>2, BuysOfPart
<1>4. Less(wire[d], t) /\ wire'[d] = t
      BY <1>1, <1>3 DEF Less, DatabaseInv
<1>5. \A s : Less(s, <<>>)
      BY CalmIsLess, CalmPair
<1>6. Fewer(d)
      BY <1>4, <1>5, LessEach DEF AppEnds, ProcessEnds, DatabaseInv
<1>7. OthersUnmoved(d)
      BY <1>1 DEF AppEnds, ProcessEnds, DatabaseInv, OthersUnmoved
<1>8. QED
      BY <1>6, <1>7, OnlyOneMoves

LEMMA EnvironmentBuys ==
    ASSUME NEW G, NEW B, Asks(B), DatabaseInv(G, B), NEW d \in Device, EnvironmentStep(d)
    PROVE  AllFewer
<1>1. CASE ClientStep(d)
      BY <1>1, ExecuteWriteBuys, ExecuteGetBuys, HoldGetBuys, ExecuteListenBuys,
         TimeOutBuys, ReceiveBuys DEF ClientStep
<1>2. CASE ServerStep(d)
      BY <1>2, ServeWriteBuys, ServeGetBuys, ServeListenBuys DEF ServerStep
<1>3. CASE Disconnect(d) \/ Reconnect(d)
      BY <1>3, DisconnectBuys, ReconnectBuys
<1>4. CASE Kill(d)
      BY <1>4, AppEndsBuys DEF Kill
<1>5. CASE Launch(d)
      BY <1>5, NoQueueMoves DEF Launch, ProcessStarts
<1>6. QED
      BY <1>1, <1>2, <1>3, <1>4, <1>5 DEF EnvironmentStep

-----------------------------------------------------------------------------
(* What the app's own steps do with them.                                  *)

\* Calls without a purchase.
Quiet(calls) == (\E S : calls \in Seq(S)) /\ Calm(calls)

LEMMA SeqWidens ==
    ASSUME NEW S, NEW T, S \subseteq T, NEW s \in Seq(S)
    PROVE  s \in Seq(T)
<1>1. Len(s) \in Nat /\ DOMAIN s = 1..Len(s) /\ \A i \in 1..Len(s) : s[i] \in S
      BY LenProperties, ElementOfSeq
<1>2. QED
      BY <1>1

LEMMA QuietLiterals ==
    /\ Quiet(<<>>)
    /\ \A x : Borne(x) = {} => Quiet(<<x>>)
    /\ \A x, y : Borne(x) = {} /\ Borne(y) = {} => Quiet(<<x, y>>)
<1>1. Quiet(<<>>)
  <2>1. <<>> \in Seq({})
        OBVIOUS
  <2>2. QED
        BY <2>1, CalmPair DEF Quiet
<1>2. ASSUME NEW x, Borne(x) = {}
      PROVE  Quiet(<<x>>)
  <2>1. <<x>> \in Seq({x})
        OBVIOUS
  <2>2. QED
        BY <1>2, <2>1, CalmPair DEF Quiet
<1>3. ASSUME NEW x, NEW y, Borne(x) = {}, Borne(y) = {}
      PROVE  Quiet(<<x, y>>)
  <2>1. <<x, y>> \in Seq({x, y})
        OBVIOUS
  <2>2. QED
        BY <1>3, <2>1, CalmPair DEF Quiet
<1>4. QED
      BY <1>1, <1>2, <1>3

LEMMA QuietConcat ==
    ASSUME NEW s, NEW g, Quiet(s), Quiet(g)
    PROVE  Quiet(s \o g)
<1>1. PICK S : s \in Seq(S)
      BY DEF Quiet
<1>2. PICK T : g \in Seq(T)
      BY DEF Quiet
<1>3. s \in Seq(S \cup T) /\ g \in Seq(S \cup T)
      BY <1>1, <1>2, SeqWidens
<1>4. s \o g \in Seq(S \cup T) /\ Calm(s \o g)
      BY <1>3, CalmConcat DEF Quiet
<1>5. QED
      BY <1>4 DEF Quiet

\* Calls one after the other, each of no purchase.
LEMMA QuietSequence ==
    ASSUME NEW S, NEW s \in Seq(S), \A i \in DOMAIN s : Borne(s[i]) = {}
    PROVE  Quiet(s)
BY DEF Quiet, Calm

LEMMA TodoGrows ==
    ASSUME NEW S, NEW s \in Seq(S), NEW calls, Quiet(calls)
    PROVE  Less(s, s \o calls)
<1>1. PICK T : calls \in Seq(T)
      BY DEF Quiet
<1>2. s \in Seq(S \cup T) /\ calls \in Seq(S \cup T)
      BY <1>1, SeqWidens
<1>3. QED
      BY <1>2, CalmConcatIsLess DEF Quiet

LEMMA DispatchBuys ==
    ASSUME NEW G, NEW B, DatabaseInv(G, B), NEW d \in Device, NEW calls, Quiet(calls),
           Dispatch(d, calls)
    PROVE  AllFewer
<1>1. Less(todo[d], todo[d] \o calls)
      BY TodoGrows DEF DatabaseInv
<1>2. Fewer(d)
      BY <1>1, LessEach, SameIsLess DEF Dispatch, DatabaseInv
<1>3. OthersUnmoved(d)
      BY DEF Dispatch, DatabaseInv, OthersUnmoved
<1>4. QED
      BY <1>2, <1>3, OnlyOneMoves

\* What is taken from the head of one queue has no twin left in any.
LEMMA FirstTaken ==
    ASSUME NEW a, NEW b, NEW c, NEW e, Once(a, b, c, e), NEW a1, NEW D,
           Buys(a) = D \cup Buys(a1), Single(a) => Single(a1) /\ Apart(D, Buys(a1))
    PROVE  /\ Once(a1, b, c, e)
           /\ BuysOfAll(a1, b, c, e) \subseteq BuysOfAll(a, b, c, e)
           /\ Apart(D, BuysOfAll(a1, b, c, e))
           /\ D \subseteq BuysOfAll(a, b, c, e)
<1>1. Single(a1) /\ Apart(D, Buys(a1))
      BY DEF Once
<1>2. Once(a1, b, c, e)
      BY <1>1 DEF Once, Apart
<1>3. Apart(D, BuysOfAll(a1, b, c, e))
      BY <1>1 DEF Once, Apart, BuysOfAll
<1>4. QED
      BY <1>2, <1>3 DEF BuysOfAll

\* The block of an answer is one that was under way, and is so no more.
TakenFrom(d, D) ==
    OncePaid(d) =>
        /\ OncePaid(d)' /\ Flow(d)' \subseteq Flow(d)
        /\ D \subseteq Flow(d) /\ Apart(D, Flow(d)')

PurchaseIn(t) == IF t.op \in BuyOps THEN {t} ELSE {}

LEMMA ReturnBuys ==
    ASSUME NEW G, NEW B, DatabaseInv(G, B), NEW d \in Device, NEW a \in Answers(d),
           NEW calls, Quiet(calls), Return(d, a, calls)
    PROVE  TakenFrom(d, PurchaseIn(a.then)) /\ OthersUnmoved(d)
<1> DEFINE D == PurchaseIn(a.then)
<1>1. /\ todo'[d] = a.todo \o calls /\ inbox'[d] = a.inbox
      /\ wire'[d] = wire[d] /\ held'[d] = held[d]
      BY DEF Return, DatabaseInv
<1>2. OthersUnmoved(d)
      BY DEF Return, DatabaseInv, OthersUnmoved
<1>3. ASSUME NEW t \in First(todo[d]), t.kind = "get", a.then = t.then,
             a.todo = Tail(todo[d]), a.inbox = inbox[d]
      PROVE  TakenFrom(d, D)
  <2>1. /\ todo[d] \in Seq(Call(G, B[d])) /\ todo[d] # <<>> /\ t = Head(todo[d])
        /\ Tail(todo[d]) \in Seq(Call(G, B[d]))
        BY <1>3, FirstCall DEF DatabaseInv, First
  <2>2. Borne(t) = D
        BY <1>3 DEF Borne, PurchaseIn
  <2>3. PICK s \in Seq(Call(G, B[d])) : s = Tail(todo[d])
        BY <2>1
  <2>4. /\ Buys(todo[d]) = D \cup Buys(s)
        /\ Single(todo[d]) => Single(s) /\ Apart(D, Buys(s))
        BY <2>1, <2>2, <2>3, FirstLeaves
  <2>5. Less(s, s \o calls)
        BY TodoGrows
  <2>6. todo'[d] = s \o calls /\ inbox'[d] = inbox[d]
        BY <1>1, <1>3, <2>3
  <2>7. Less(s, todo'[d])
        BY <2>5, <2>6
  <2>8. ASSUME OncePaid(d)
        PROVE  /\ OncePaid(d)' /\ Flow(d)' \subseteq Flow(d)
               /\ D \subseteq Flow(d) /\ Apart(D, Flow(d)')
    <3>1. /\ Once(s, wire[d], held[d], inbox[d])
          /\ BuysOfAll(s, wire[d], held[d], inbox[d]) \subseteq Flow(d)
          /\ Apart(D, BuysOfAll(s, wire[d], held[d], inbox[d])) /\ D \subseteq Flow(d)
          BY <2>4, <2>8, FirstTaken DEF OncePaid, Flow
    <3>2. /\ Once(todo'[d], wire[d], held[d], inbox[d])
          /\ BuysOfAll(todo'[d], wire[d], held[d], inbox[d]) \subseteq
                BuysOfAll(s, wire[d], held[d], inbox[d])
          BY <2>7, <3>1, AllLess, SameIsLess
    <3>3. Flow(d)' \subseteq BuysOfAll(s, wire[d], held[d], inbox[d])
          BY <1>1, <2>6, <3>2 DEF Flow
    <3>4. OncePaid(d)'
          BY <1>1, <2>6, <3>2 DEF OncePaid
    <3>5. Apart(D, Flow(d)')
          BY <3>1, <3>3 DEF Apart
    <3>6. QED
          BY <3>1, <3>3, <3>4, <3>5
  <2>9. QED
        BY <2>8 DEF TakenFrom
<1>4. ASSUME NEW m \in First(inbox[d]), m.kind = "reply", a.then = m.then,
             a.todo = todo[d], a.inbox = Tail(inbox[d])
      PROVE  TakenFrom(d, D)
  <2>1. /\ inbox[d] \in Seq(Message(G, B[d])) /\ inbox[d] # <<>> /\ m = Head(inbox[d])
        /\ todo[d] \in Seq(Call(G, B[d]))
        BY <1>4 DEF DatabaseInv, First
  <2>2. Borne(m) = D
        BY <1>4 DEF Borne, PurchaseIn
  <2>3. PICK s : s = Tail(inbox[d])
        OBVIOUS
  <2>4. /\ Buys(inbox[d]) = D \cup Buys(s)
        /\ Single(inbox[d]) => Single(s) /\ Apart(D, Buys(s))
        BY <2>1, <2>2, <2>3, FirstLeaves
  <2>5. Less(todo[d], todo[d] \o calls)
        BY <2>1, TodoGrows
  <2>6. todo'[d] = todo[d] \o calls /\ inbox'[d] = s
        BY <1>1, <1>4, <2>3
  <2>7. Less(todo[d], todo'[d])
        BY <2>5, <2>6
  <2>8. ASSUME OncePaid(d)
        PROVE  /\ OncePaid(d)' /\ Flow(d)' \subseteq Flow(d)
               /\ D \subseteq Flow(d) /\ Apart(D, Flow(d)')
    <3> DEFINE rest == BuysOfAll(s, todo[d], held[d], wire[d])
    <3>1. \A x, y, z, w : /\ Once(x, y, z, w) <=> Once(w, x, z, y)
                          /\ BuysOfAll(x, y, z, w) = BuysOfAll(w, x, z, y)
      <4>1. \A S, T : Apart(S, T) <=> Apart(T, S)
            BY DEF Apart, Twin
      <4>2. QED
            BY <4>1 DEF Once, BuysOfAll
    <3>2. /\ Once(inbox[d], todo[d], held[d], wire[d])
          /\ BuysOfAll(inbox[d], todo[d], held[d], wire[d]) = Flow(d)
          BY <2>8, <3>1 DEF OncePaid, Flow
    <3>3. /\ Once(s, todo[d], held[d], wire[d]) /\ rest \subseteq Flow(d)
          /\ Apart(D, rest) /\ D \subseteq Flow(d)
          BY <2>4, <3>2, FirstTaken
    <3>4. /\ Once(s, todo'[d], held[d], wire[d])
          /\ BuysOfAll(s, todo'[d], held[d], wire[d]) \subseteq rest
          BY <2>7, <3>3, AllLess, SameIsLess
    <3>5. OncePaid(d)' /\ Flow(d)' = BuysOfAll(s, todo'[d], held[d], wire[d])
          BY <1>1, <2>6, <3>1, <3>4 DEF OncePaid, Flow
    <3>6. Apart(D, Flow(d)')
          BY <3>3, <3>4, <3>5 DEF Apart
    <3>7. QED
          BY <3>3, <3>4, <3>5, <3>6
  <2>9. QED
        BY <2>8 DEF TakenFrom
<1>5. CASE \E t \in First(todo[d]) :
              /\ t.kind = "get"
              /\ a = [then  |-> t.then,
                      snap  |-> [l \in t.leaves |-> LocalView(d)[l]],
                      todo  |-> Tail(todo[d]),
                      inbox |-> inbox[d]]
  <2>1. PICK t \in First(todo[d]) :
              t.kind = "get" /\ a.then = t.then /\ a.todo = Tail(todo[d]) /\ a.inbox = inbox[d]
        BY <1>5
  <2>2. QED
        BY <1>2, <1>3, <2>1
<1>6. CASE \E m \in First(inbox[d]) :
              /\ m.kind = "reply"
              /\ a = [then  |-> m.then,
                      snap  |-> m.snap,
                      todo  |-> todo[d],
                      inbox |-> Tail(inbox[d])]
  <2>1. PICK m \in First(inbox[d]) :
              m.kind = "reply" /\ a.then = m.then /\ a.todo = todo[d] /\ a.inbox = Tail(inbox[d])
        BY <1>6
  <2>2. QED
        BY <1>2, <1>4, <2>1
<1>7. QED
      BY <1>5, <1>6 DEF Answers

\* A block that is not of a purchase, or of which no more is to be said.
LEMMA BlockBuys ==
    ASSUME NEW G, NEW B, DatabaseInv(G, B), NEW d \in Device, NEW op,
           NEW a \in AnswersTo(d, op), NEW calls, Quiet(calls), Return(d, a, calls)
    PROVE  AllFewer
<1>1. TakenFrom(d, PurchaseIn(a.then)) /\ OthersUnmoved(d)
      BY ReturnBuys DEF AnswersTo
<1>2. Fewer(d)
      BY <1>1 DEF TakenFrom, Fewer
<1>3. QED
      BY <1>1, <1>2, OnlyOneMoves

-----------------------------------------------------------------------------
(* Steps that are not of a purchase.                                       *)

\* Mapping a sequence to calls.
LEMMA QuietMapped ==
    ASSUME NEW n \in Nat, NEW s, s = [i \in 1..n |-> s[i]], \A i \in 1..n : Borne(s[i]) = {}
    PROVE  Quiet(s)
<1> DEFINE S == {s[i] : i \in 1..n}
<1>1. DOMAIN s = 1..n /\ \A i \in 1..n : s[i] \in S
      OBVIOUS
<1> HIDE DEF S
<1>2. s \in Seq(S)
      BY <1>1, SeqDef
<1>3. QED
      BY <1>1, <1>2, QuietSequence

LEMMA OrderIsMapped ==
    ASSUME NEW S, IsFiniteSet(S), NEW order \in Ascending(S)
    PROVE  \E n \in Nat : DOMAIN order = 1..n
BY OrdersAreSequences DEF Ascending

LEMMA PutsBearNothing == \A w : Borne(SetValue(w)) = {}
BY PutsAreCalm

LEMMA GetsBearNothing ==
    \A leaves, t : t.op \notin BuyOps => Borne(GetData(leaves, t)) = {}
BY DEF Borne, GetData

LEMMA ScreensAreQuiet ==
    ASSUME NEW d
    PROVE  Quiet(ObserveUsers(d)) /\ Quiet(PopulateDashboard(d)) /\ Quiet(PopulateSettings)
           /\ Quiet(PermissionWrite)
<1>1. Quiet(ObserveUsers(d))
      BY QuietLiterals, PutsAreCalm DEF ObserveUsers
<1>2. Quiet(<<GetData(Leaf, [op |-> "dashboard"])>>) /\ Quiet(PopulateSettings)
      BY QuietLiterals, GetsBearNothing DEF BuyOps, PopulateSettings
<1>3. Quiet(PermissionWrite)
      BY QuietLiterals, PutsBearNothing DEF PermissionWrite
<1>4. QED
      BY <1>1, <1>2, <1>3, QuietConcat DEF PopulateDashboard

LEMMA ClaimIsQuiet ==
    ASSUME NEW d, NEW last, NEW day
    PROVE  Quiet(ClaimCalls(d, last, day))
<1>1. Quiet(SetDate(day))
      BY QuietLiterals, PutsBearNothing DEF SetDate
<1>2. Quiet(Calculate(d))
      BY QuietLiterals, GetsBearNothing DEF BuyOps, Calculate
<1>3. QED
      BY <1>1, <1>2, QuietConcat DEF ClaimCalls

LEMMA LandIsQuiet ==
    ASSUME NEW k, NEW c
    PROVE  Quiet(PlaceCalls(k, c)) /\ Quiet(RemoveCalls(k, c))
BY QuietLiterals, GetsBearNothing DEF BuyOps, PlaceCalls, RemoveCalls

LEMMA RewriteIsQuiet ==
    ASSUME NEW snap, NEW k, NEW c, NEW rest \in Ascending(Staying(ListOf(snap, k), c))
    PROVE  Quiet(Rewrite(k, ListOf(snap, k), rest))
<1> DEFINE list == ListOf(snap, k)
           removed == <<SetValue([l \in ActiveList(k) |-> Absent])>>
           puts == [i \in DOMAIN rest |->
                       SetValue(SetLeaf(ActiveItem(k, i - 1), list[rest[i]]))]
<1>1. ListLength(snap, k) \in Nat
  <2>1. IsFiniteSet(0..MaxIndex)
        BY SchemaAssumption, FS_Interval
  <2>2. IsFiniteSet({i \in 0..MaxIndex : snap[ActiveItem(k, i)] # Absent})
        BY <2>1, FS_Subset
  <2>3. QED
        BY <2>2, FS_CardinalityType DEF ListLength
<1>2. IsFiniteSet(Staying(list, c))
  <2>1. IsFiniteSet(1..ListLength(snap, k))
        BY <1>1, FS_Interval
  <2>2. Staying(list, c) \subseteq 1..ListLength(snap, k)
        BY DEF Staying, ListOf
  <2>3. QED
        BY <2>1, <2>2, FS_Subset
<1> HIDE DEF list
<1>3. PICK n \in Nat : DOMAIN rest = 1..n
      BY <1>2, OrderIsMapped DEF list
<1>4. Quiet(puts)
  <2>1. /\ puts = [i \in 1..n |-> puts[i]]
        /\ \A i \in 1..n : puts[i] = SetValue(SetLeaf(ActiveItem(k, i - 1), list[rest[i]]))
        BY <1>3
  <2> HIDE DEF puts
  <2>2. \A i \in 1..n : Borne(puts[i]) = {}
        BY <2>1, PutsBearNothing
  <2>3. QED
        BY <2>1, <2>2, QuietMapped
<1>5. Quiet(removed) /\ Quiet(<<>>)
      BY QuietLiterals, PutsBearNothing
<1> HIDE DEF puts, removed
<1>6. Quiet(removed \o puts) /\ Quiet(removed \o <<>>)
      BY <1>4, <1>5, QuietConcat
<1>7. QED
      BY <1>6 DEF Rewrite, puts, removed, list

LEMMA RedemptionIsQuiet ==
    ASSUME NEW d \in Device, NEW form, RedeemButtonPressed(d, form)
    PROVE  \E calls : Quiet(calls) /\ Dispatch(d, calls)
<1> DEFINE get == IF Worth(form) = 0 THEN <<>>
                  ELSE <<GetData(Leaf, [op |-> "redeem", leaves |-> Worth(form)])>>
<1>1. PICK order \in Ascending(Recycled(form)) :
         Dispatch(d,
           [i \in DOMAIN order |->
                SetValue(SetLeaf(History(d, Op(d), order[i]), form[order[i]]))]
           \o get)
      BY DEF RedeemButtonPressed
<1> DEFINE puts == [i \in DOMAIN order |->
                      SetValue(SetLeaf(History(d, Op(d), order[i]), form[order[i]]))]
<1>2. IsFiniteSet(Recycled(form))
      BY SchemaAssumption, FS_Subset DEF Recycled
<1>3. PICK n \in Nat : DOMAIN order = 1..n
      BY <1>2, OrderIsMapped
<1>4. Quiet(puts)
  <2>1. /\ puts = [i \in 1..n |-> puts[i]]
        /\ \A i \in 1..n :
              puts[i] = SetValue(SetLeaf(History(d, Op(d), order[i]), form[order[i]]))
        BY <1>3
  <2> HIDE DEF puts
  <2>2. \A i \in 1..n : Borne(puts[i]) = {}
        BY <2>1, PutsBearNothing
  <2>3. QED
        BY <2>1, <2>2, QuietMapped
<1>5. Quiet(get)
      BY QuietLiterals, GetsBearNothing DEF BuyOps
<1>6. Dispatch(d, puts \o get)
      BY <1>1
<1> HIDE DEF puts, get
<1>7. Quiet(puts \o get)
      BY <1>4, <1>5, QuietConcat
<1>8. QED
      BY <1>6, <1>7

LEMMA NoAction ==
    ASSUME UNCHANGED dbVars
    PROVE  AllFewer
BY NoQueueMoves DEF dbVars, clientVars

LEMMA SignInBuys ==
    ASSUME NEW G, NEW B, DatabaseInv(G, B), NEW d \in Device, NEW screen, NEW calls,
           Quiet(calls), SignIn(d, screen, calls)
    PROVE  AllFewer
<1> DEFINE name == <<GetData({DisplayName}, NameAnswer)>>
<1>1. Quiet(name)
      BY QuietLiterals, GetsBearNothing DEF BuyOps, NameAnswer
<1>2. Dispatch(d, name \o calls)
      BY DEF SignIn
<1> HIDE DEF name
<1>3. Quiet(name \o calls)
      BY <1>1, QuietConcat
<1>4. QED
      BY <1>2, <1>3, DispatchBuys

LEMMA SessionAnswerBuys ==
    ASSUME NEW G, NEW B, DatabaseInv(G, B), NEW d \in Device, SessionAnswer(d)
    PROVE  AllFewer
<1>1. CASE GotDisplayName(d)
  <2> DEFINE lists == <<GetData(InventoryLeaves, InventoryAnswer),
                        GetData(ActiveLeaves, ActiveAnswer)>>
  <2>1. PICK a \in AnswersTo(d, "displayName") :
            Return(d, a, lists) \/ Return(d, a, <<SetValue(NewAccount)>>)
        BY <1>1 DEF GotDisplayName
  <2>2. Quiet(lists) /\ Quiet(<<SetValue(NewAccount)>>)
        BY QuietLiterals, GetsBearNothing, PutsBearNothing
           DEF BuyOps, InventoryAnswer, ActiveAnswer
  <2> HIDE DEF lists
  <2>3. QED
        BY <2>1, <2>2, BlockBuys
<1>2. CASE GotInventory(d)
  <2>1. PICK a \in AnswersTo(d, "inventory") : Return(d, a, <<>>)
        BY <1>2 DEF GotInventory
  <2>2. QED
        BY <2>1, BlockBuys, QuietLiterals
<1>3. CASE GotActiveItems(d)
  <2>1. PICK a \in AnswersTo(d, "activeItems") : Return(d, a, <<>>)
        BY <1>3 DEF GotActiveItems
  <2>2. QED
        BY <2>1, BlockBuys, QuietLiterals
<1>4. CASE LeaderboardChanged(d)
      BY <1>4, ReceiveBuys DEF LeaderboardChanged
<1>5. CASE CrashOnActiveItems(d) \/ CrashOnPartialRow(d)
      BY <1>5, AppEndsBuys DEF CrashOnActiveItems, CrashOnPartialRow, Crash
<1>6. QED
      BY <1>1, <1>2, <1>3, <1>4, <1>5 DEF SessionAnswer

LEMMA RewardStepBuys ==
    ASSUME NEW G, NEW B, DatabaseInv(G, B), NEW d \in Device, RewardStep(d)
    PROVE  AllFewer
<1>1. CASE ClaimOnClick(d)
  <2>1. PICK calls :
            /\ Dispatch(d, calls)
            /\ calls = <<GetData({LastVisitedDate}, [op |-> "claimDate", day |-> today])>>
        BY <1>1 DEF ClaimOnClick
  <2>2. Quiet(calls)
        BY <2>1, QuietLiterals, GetsBearNothing DEF BuyOps
  <2>3. QED
        BY <2>1, <2>2, DispatchBuys
<1>2. CASE GotClaimDate(d)
  <2>1. PICK a \in AnswersTo(d, "claimDate") :
            Return(d, a, ClaimCalls(d, a.snap[LastVisitedDate], a.then.day))
        BY <1>2 DEF GotClaimDate
  <2>2. QED
        BY <2>1, BlockBuys, ClaimIsQuiet
<1>3. CASE GotRewardCurrent(d)
  <2>1. PICK a \in AnswersTo(d, "rewardCurrent") :
            \/ Return(d, a, <<>>)
            \/ \E w : Return(d, a, <<SetValue(w)>>)
        BY <1>3 DEF GotRewardCurrent
  <2>2. QED
        BY <2>1, BlockBuys, QuietLiterals, PutsBearNothing
<1>4. CASE GotRewardAllTime(d)
  <2>1. PICK a \in AnswersTo(d, "rewardAllTime") :
            \/ Return(d, a, <<>>)
            \/ \E w : Return(d, a, <<SetValue(w)>>)
        BY <1>4 DEF GotRewardAllTime
  <2>2. QED
        BY <2>1, BlockBuys, QuietLiterals, PutsBearNothing
<1>5. QED
      BY <1>1, <1>2, <1>3, <1>4 DEF RewardStep

LEMMA RedeemStepBuys ==
    ASSUME NEW G, NEW B, DatabaseInv(G, B), NEW d \in Device, RedeemStep(d)
    PROVE  AllFewer
<1>1. ASSUME NEW form \in [Entry -> Quantity], RedeemButtonPressed(d, form)
      PROVE  AllFewer
      BY <1>1, RedemptionIsQuiet, DispatchBuys
<1>2. CASE GotUser(d)
  <2>1. PICK a \in AnswersTo(d, "redeem") :
            \/ Return(d, a, <<>>)
            \/ \E w : Return(d, a, <<SetValue(w)>>)
        BY <1>2 DEF GotUser
  <2>2. QED
        BY <2>1, BlockBuys, QuietLiterals, PutsBearNothing
<1>3. CASE CrashOnPartialUser(d)
      BY <1>3, AppEndsBuys DEF CrashOnPartialUser, Crash
<1>4. QED
      BY <1>1, <1>2, <1>3 DEF RedeemStep

LEMMA LandStepBuys ==
    ASSUME NEW G, NEW B, DatabaseInv(G, B), NEW d \in Device, LandStep(d)
    PROVE  AllFewer
<1>1. ASSUME NEW i \in 1..Len(inventoryItems[d]), OnPlaceItem(d, i)
      PROVE  AllFewer
      BY <1>1, NoAction DEF OnPlaceItem
<1>2. CASE OnBackButtonPressed(d)
      BY <1>2, NoAction DEF OnBackButtonPressed
<1>3. ASSUME NEW c \in Coordinate, OnPlacementCompleted(d, c)
      PROVE  AllFewer
      BY <1>3, LandIsQuiet, DispatchBuys DEF OnPlacementCompleted
<1>4. ASSUME NEW c \in Coordinate, OnRemove(d, c)
      PROVE  AllFewer
      BY <1>4, LandIsQuiet, DispatchBuys DEF OnRemove
<1>5. CASE GotPlaceActive(d)
  <2>1. PICK a \in AnswersTo(d, "placeActive") : \E w : Return(d, a, <<SetValue(w)>>)
        BY <1>5 DEF GotPlaceActive
  <2>2. QED
        BY <2>1, BlockBuys, QuietLiterals, PutsBearNothing
<1>6. CASE GotPlaceInventory(d)
  <2>1. PICK a \in AnswersTo(d, "placeInventory") :
            \/ Return(d, a, <<>>)
            \/ \E w : Return(d, a, <<SetValue(w)>>)
        BY <1>6 DEF GotPlaceInventory
  <2>2. QED
        BY <2>1, BlockBuys, QuietLiterals, PutsBearNothing
<1>7. CASE GotRemoveActive(d)
  <2>1. PICK a \in AnswersTo(d, "removeActive") :
            LET k == a.then.key
                list == ListOf(a.snap, k)
            IN  \/ Return(d, a, <<>>)
                \/ \E rest \in Ascending(Staying(list, a.then.at)) :
                      Return(d, a, Rewrite(k, list, rest))
        BY <1>7 DEF GotRemoveActive
  <2>2. QED
        BY <2>1, BlockBuys, QuietLiterals, RewriteIsQuiet
<1>8. CASE GotRemoveInventory(d)
  <2>1. PICK a \in AnswersTo(d, "removeInventory") : \E w : Return(d, a, <<SetValue(w)>>)
        BY <1>8 DEF GotRemoveInventory
  <2>2. QED
        BY <2>1, BlockBuys, QuietLiterals, PutsBearNothing
<1>9. CASE CrashOnLand(d)
      BY <1>9, AppEndsBuys DEF CrashOnLand, Crash
<1>10. QED
       BY <1>1, <1>2, <1>3, <1>4, <1>5, <1>6, <1>7, <1>8, <1>9 DEF LandStep

LEMMA AccountStepBuys ==
    ASSUME NEW G, NEW B, DatabaseInv(G, B), NEW d \in Device, AccountStep(d)
    PROVE  AllFewer
<1>1. ASSUME NEW write, NEW calls, Quiet(calls), Save(d, write, calls)
      PROVE  AllFewer
  <2>1. PICK first : first = <<SetValue(write)>>
        OBVIOUS
  <2>2. Quiet(first) /\ Dispatch(d, first \o calls)
        BY <1>1, <2>1, QuietLiterals, PutsBearNothing DEF Save
  <2>3. QED
        BY <1>1, <2>2, QuietConcat, DispatchBuys
<1>2. ASSUME NEW calls, Quiet(calls), Issue(d, calls)
      PROVE  AllFewer
      BY <1>2, DispatchBuys DEF Issue
<1>3. CASE FirstSignIn(d) \/ SignInAgain(d)
      BY <1>3, SignInBuys, QuietLiterals, ScreensAreQuiet DEF FirstSignIn, SignInAgain
<1>4. ASSUME NEW c \in Choice, ChooseAvatar(d, c)
      PROVE  AllFewer
  <2>1. PICK first : first = <<SetValue(AvatarWrite(c))>>
        OBVIOUS
  <2>2. Quiet(first) /\ Dispatch(d, first \o PopulateDashboard(d))
        BY <1>4, <2>1, QuietLiterals, PutsBearNothing DEF ChooseAvatar
  <2>3. QED
        BY <2>2, ScreensAreQuiet, QuietConcat, DispatchBuys
<1>5. ASSUME NEW c \in Choice, ChangeAvatar(d, c) \/ UpdateButtonPressed(d, c)
      PROVE  AllFewer
      BY <1>1, <1>5, ScreensAreQuiet, QuietLiterals DEF ChangeAvatar, UpdateButtonPressed
<1>6. ASSUME NEW joins \in BOOLEAN, LeaderSettingsSwitched(d, joins)
      PROVE  AllFewer
      BY <1>1, <1>6, QuietLiterals DEF LeaderSettingsSwitched
<1>7. CASE OpenDashboard(d) \/ OpenSettings(d) \/ AppNotifySwitched(d)
      BY <1>2, <1>7, ScreensAreQuiet DEF OpenDashboard, OpenSettings, AppNotifySwitched
<1>8. CASE GotDashboard(d)
  <2>1. PICK a \in AnswersTo(d, "dashboard") : Return(d, a, <<>>)
        BY <1>8 DEF GotDashboard
  <2>2. QED
        BY <2>1, BlockBuys, QuietLiterals
<1>9. CASE GotSettings(d)
  <2>1. PICK a \in AnswersTo(d, "settings") :
            Return(d, a, <<>>)
        BY <1>9 DEF GotSettings
  <2>2. QED
        BY <2>1, BlockBuys, QuietLiterals
<1>10. CASE CrashOnScreen(d) \/ CrashOnPermission(d)
       BY <1>10, AppEndsBuys DEF CrashOnScreen, CrashOnPermission, Crash
<1>11. CASE SignOutButtonPressed(d) \/ LoginViewDidLoad(d)
       BY <1>11, NoAction DEF SignOutButtonPressed, LoginViewDidLoad
<1>12. CASE DeleteButtonPressed(d)
  <2>1. PICK calls : Dispatch(d, calls) /\ calls = <<SetValue(RemovedUser)>>
        BY <1>12 DEF DeleteButtonPressed
  <2>2. Quiet(calls)
        BY <2>1, QuietLiterals, PutsBearNothing
  <2>3. QED
        BY <2>1, <2>2, DispatchBuys
<1>13. CASE PermissionKnown(d)
       BY <1>13, NoAction, DispatchBuys, ScreensAreQuiet DEF PermissionKnown
<1>14. QED
       BY <1>3, <1>4, <1>5, <1>6, <1>7, <1>8, <1>9, <1>10, <1>11, <1>12, <1>13
          DEF AccountStep, ScreenStep

-----------------------------------------------------------------------------
(* A step that is not of a purchase, and the other devices in one that is. *)

StartedGrows ==
    \A e \in Device : started[e] \in Nat /\ started'[e] \in Nat /\ started'[e] >= started[e]

LEMMA PurchaseStays ==
    ASSUME NEW d \in Device, PurchaseOf(d), Fewer(d), shelf' = shelf,
           readLeaves'[d] = readLeaves[d], outcome'[d] = outcome[d],
           started[d] \in Nat, started'[d] \in Nat, started'[d] >= started[d]
    PROVE  PurchaseOf(d)'
<1>1. OncePaid(d)' /\ Flow(d)' \subseteq Flow(d)
      BY DEF PurchaseOf, Fewer
<1>2. Agreed(d, Flow(d))
      BY DEF PurchaseOf
<1>3. PICK F : F = Flow(d)'
      OBVIOUS
<1>4. Agreed(d, F)'
  <2>1. \A c : Price(d, c)' = Price(d, c)
        BY DEF Price
  <2>2. \A t \in F : t \in Flow(d)
        BY <1>1, <1>3
  <2>3. \A t \in F : t.n \in 1..started'[d]
    <3>1. \A t \in F : t.n \in 1..started[d]
          BY <1>2, <2>2 DEF Agreed
    <3>2. QED
          BY <3>1
  <2>4. \A t, u \in F : t.n = u.n => t.cell = u.cell
        BY <1>2, <2>2 DEF Agreed
  <2>5. \A t \in F : t.op = "buyLeaves" => readLeaves'[d][t.n] = Absent
        BY <1>2, <2>2 DEF Agreed
  <2>6. \A t \in F : readLeaves'[d][t.n] # Absent =>
           ("paid" \in outcome'[d][t.n] <=> Affords(readLeaves'[d][t.n], Price(d, t.cell)'))
        BY <1>2, <2>1, <2>2 DEF Agreed
  <2>7. QED
        BY <2>3, <2>4, <2>5, <2>6 DEF Agreed, Affords
<1>5. \A n \in 1..MaxOps : Ended(d, n)'
  <2>1. MaxOps \in Nat
        BY SchemaAssumption
  <2>2. QED
        BY <2>1 DEF PurchaseOf, Ended
<1>6. QED
      BY <1>1, <1>3, <1>4, <1>5 DEF PurchaseOf

LEMMA AsideKeeps ==
    ASSUME PurchaseInv, AllFewer, StartedGrows, UNCHANGED <<shelf, readLeaves, outcome>>
    PROVE  PurchaseInv'
<1>1. ASSUME NEW d \in Device
      PROVE  PurchaseOf(d)'
  <2>1. PurchaseOf(d) /\ Fewer(d)
        BY DEF PurchaseInv, AllFewer
  <2>2. QED
        BY <2>1, PurchaseStays DEF StartedGrows
<1>2. QED
      BY <1>1 DEF PurchaseInv

LEMMA ElsewhereKeeps ==
    ASSUME PurchaseInv, StartedGrows, NEW d \in Device, OthersUnmoved(d), shelf' = shelf,
           \A e \in Device \ {d} : readLeaves'[e] = readLeaves[e] /\ outcome'[e] = outcome[e],
           PurchaseOf(d)', outcome' \in Outcomes
    PROVE  PurchaseInv'
<1>1. ASSUME NEW e \in Device, e # d
      PROVE  PurchaseOf(e)'
  <2>1. PurchaseOf(e) /\ Fewer(e)
        BY <1>1, UnmovedHasNoMore DEF PurchaseInv, OthersUnmoved
  <2>2. QED
        BY <1>1, <2>1, PurchaseStays DEF StartedGrows
<1>2. QED
      BY <1>1 DEF PurchaseInv

-----------------------------------------------------------------------------
(* A purchase.                                                             *)

\* The two blocks of a new purchase set out at the end of a queue.
SetOut(s, v, n, c) ==
    \E t1, t2 :
        /\ t1.op = "buyLeaves" /\ t1.n = n /\ t1.cell = c
        /\ t2.op = "buyItem" /\ t2.n = n /\ t2.cell = c
        /\ Buys(v) = Buys(s) \cup {t1, t2}
        /\ Single(s) => Single(v)

LEMMA ClickBuys ==
    ASSUME NEW S, NEW s \in Seq(S), NEW n, NEW c, NEW leaf, NEW calls,
           calls = <<LeavesCall(n, c), ItemCall(n, c, leaf)>>,
           \A t \in Buys(s) : t.n # n
    PROVE  SetOut(s, s \o calls, n, c)
<1> DEFINE x == LeavesCall(n, c)
           y == ItemCall(n, c, leaf)
           t1 == [op |-> "buyLeaves", n |-> n, cell |-> c]
           t2 == [op |-> "buyItem", n |-> n, cell |-> c, leaf |-> leaf]
           T == S \cup {x, y}
<1>1. /\ x.kind = "get" /\ x.then = t1 /\ y.kind = "get" /\ y.then = t2
      BY DEF LeavesCall, ItemCall, GetData
<1>2. /\ t1.op = "buyLeaves" /\ t1.n = n /\ t1.cell = c
      /\ t2.op = "buyItem" /\ t2.n = n /\ t2.cell = c
      OBVIOUS
<1> HIDE DEF x, y, t1, t2
<1>3. DOMAIN calls = {1, 2} /\ calls[1] = x /\ calls[2] = y /\ calls \in Seq(T)
      BY DEF x, y
<1>4. s \in Seq(T)
      BY SeqWidens
<1>5. Bearing(calls) = {1, 2}
      BY <1>1, <1>2, <1>3 DEF Bearing, BuyOps
<1>6. Buys(calls) = {t1, t2}
      BY <1>1, <1>3, <1>5 DEF Buys
<1>7. Single(calls)
      BY <1>1, <1>2, <1>3, <1>5 DEF Single, Twin
<1>8. Apart(Buys(s), Buys(calls))
      BY <1>2, <1>6 DEF Apart, Twin
<1> HIDE DEF T
<1>9. PICK v \in Seq(T) :
          /\ v = s \o calls /\ Buys(v) = Buys(s) \cup Buys(calls)
          /\ Single(s) /\ Single(calls) /\ Apart(Buys(s), Buys(calls)) => Single(v)
      BY <1>3, <1>4, BuysOfConcat
<1>10. SetOut(s, v, n, c)
       BY <1>2, <1>6, <1>7, <1>8, <1>9 DEF SetOut
<1>11. QED
       BY <1>9, <1>10

LEMMA StartGrows ==
    ASSUME WalletInv, NEW d \in Device, MayStart(d), Start(d)
    PROVE  /\ StartedGrows /\ Op(d) \in 1..MaxOps /\ started'[d] = Op(d)
           /\ Op(d) = started[d] + 1 /\ started[d] \in Nat
BY SchemaAssumption DEF WalletInv, MayStart, Op, Start, StartedGrows

LEMMA SameStarted ==
    ASSUME started \in [Device -> 0..MaxOps], started' = started
    PROVE  StartedGrows
BY SchemaAssumption DEF StartedGrows

LEMMA BuyOnClickBuys ==
    ASSUME NEW G, NEW B, DatabaseInv(G, B), WalletInv, PurchaseInv,
           NEW d \in Device, NEW c \in Cell, BuyOnClick(d, c)
    PROVE  PurchaseInv'
<1> DEFINE n == Op(d)
           leaf == Inventory(shelf[d][c])
<1>1. /\ StartedGrows /\ n \in 1..MaxOps /\ started'[d] = n
      /\ n = started[d] + 1 /\ started[d] \in Nat
      BY StartGrows DEF BuyOnClick
<1>2. Dispatch(d, <<LeavesCall(n, c), ItemCall(n, c, leaf)>>)
      BY DEF BuyOnClick
<1>3. UNCHANGED <<shelf, readLeaves, outcome>>
      BY DEF BuyOnClick, storeVars, historyVars
<1> HIDE DEF n, leaf
<1>4. OncePaid(d) /\ Agreed(d, Flow(d)) /\ \A m \in 1..MaxOps : Ended(d, m)
      BY DEF PurchaseInv, PurchaseOf
<1>5. \A t \in Flow(d) : t.n # n
      BY <1>1, <1>4 DEF Agreed
<1>6. \A t \in Buys(todo[d]) : t.n # n
      BY <1>5 DEF Flow, BuysOfAll
<1>7. PICK S : todo[d] \in Seq(S)
      BY DEF DatabaseInv
<1>8. PICK calls : /\ calls = <<LeavesCall(n, c), ItemCall(n, c, leaf)>>
                   /\ Dispatch(d, calls)
      BY <1>2
<1>9. PICK v : v = todo[d] \o calls /\ SetOut(todo[d], v, n, c)
      BY <1>6, <1>7, <1>8, ClickBuys
<1>10. PICK t1, t2 :
          /\ t1.op = "buyLeaves" /\ t1.n = n /\ t1.cell = c
          /\ t2.op = "buyItem" /\ t2.n = n /\ t2.cell = c
          /\ Buys(v) = Buys(todo[d]) \cup {t1, t2}
          /\ Single(todo[d]) => Single(v)
      BY <1>9 DEF SetOut
<1>11. /\ todo'[d] = v /\ wire'[d] = wire[d] /\ held'[d] = held[d] /\ inbox'[d] = inbox[d]
       /\ OthersUnmoved(d)
       BY <1>8, <1>9 DEF Dispatch, DatabaseInv, OthersUnmoved
<1>12. Flow(d)' = Flow(d) \cup {t1, t2}
       BY <1>11, <1>10 DEF Flow, BuysOfAll
<1>13. OncePaid(d)'
  <2>1. Once(v, wire[d], held[d], inbox[d])
    <3>1. \A t \in {t1, t2} : t.n = n
          BY <1>10
    <3>2. \A t \in Buys(wire[d]) \cup Buys(held[d]) \cup Buys(inbox[d]) : t.n # n
          BY <1>5 DEF Flow, BuysOfAll
    <3>3. /\ Apart({t1, t2}, Buys(wire[d])) /\ Apart({t1, t2}, Buys(held[d]))
          /\ Apart({t1, t2}, Buys(inbox[d]))
          BY <3>1, <3>2 DEF Apart, Twin
    <3>4. QED
          BY <1>4, <1>10, <3>3 DEF OncePaid, Once, Apart
  <2>2. QED
        BY <1>11, <2>1 DEF OncePaid
<1>14. PICK F : F = Flow(d)'
       OBVIOUS
<1>15. Agreed(d, F)'
  <2>1. \A x : Price(d, x)' = Price(d, x)
        BY <1>3 DEF Price
  <2>2. \A t \in F : t \in Flow(d) \/ (t.n = n /\ t.cell = c)
        BY <1>12, <1>14, <1>10
  <2>3. readLeaves[d][n] = Absent
        BY <1>1, <1>4 DEF Ended
  <2>4. \A t \in F : t.n \in 1..started'[d]
        BY <1>1, <1>4, <2>2 DEF Agreed
  <2>5. \A t, u \in F : t.n = u.n => t.cell = u.cell
        BY <1>4, <1>5, <2>2 DEF Agreed
  <2>6. \A t \in F : t.op = "buyLeaves" => readLeaves'[d][t.n] = Absent
        BY <1>3, <1>4, <2>2, <2>3 DEF Agreed
  <2>7. \A t \in F : readLeaves'[d][t.n] # Absent =>
           ("paid" \in outcome'[d][t.n] <=> Affords(readLeaves'[d][t.n], Price(d, t.cell)'))
        BY <1>3, <1>4, <2>1, <2>2, <2>3 DEF Agreed
  <2>8. QED
        BY <2>4, <2>5, <2>6, <2>7 DEF Agreed, Affords
<1>16. \A m \in 1..MaxOps : Ended(d, m)'
  <2>1. MaxOps \in Nat
        BY SchemaAssumption
  <2>2. QED
        BY <1>1, <1>3, <1>4, <2>1 DEF Ended
<1>17. PurchaseOf(d)'
       BY <1>13, <1>14, <1>15, <1>16 DEF PurchaseOf
<1>18. QED
       BY <1>1, <1>3, <1>11, <1>17, ElsewhereKeeps DEF PurchaseInv

\* The block of a purchase that runs is of one that was started.
LEMMA BuyingBlock ==
    ASSUME NEW alone, Inv(alone), PurchaseInv, NEW d \in Device, NEW op \in BuyOps,
           NEW a \in AnswersTo(d, op), NEW calls, Quiet(calls), Return(d, a, calls)
    PROVE  /\ a.then.op = op /\ a.then.n \in 1..MaxOps /\ a.then.cell \in Cell
           /\ a.then.n \in 1..started[d]
           /\ a.then \in Flow(d) /\ OncePaid(d)' /\ Flow(d)' \subseteq Flow(d)
           /\ \A u \in Flow(d)' : ~Twin(a.then, u)
           /\ OthersUnmoved(d)
<1>1. PICK G : G = Known(alone, ledger)
      OBVIOUS
<1>2. DatabaseInv(G, Blocks)
      BY <1>1 DEF Inv
<1>3. a.then \in Tag /\ a.then.op = op
      BY BlockFacts
<1>4. a.then.n \in 1..MaxOps /\ a.then.cell \in Cell
      BY <1>3, TagFields DEF BuyOps
<1>5. TakenFrom(d, {a.then}) /\ OthersUnmoved(d)
  <2>1. a \in Answers(d)
        BY DEF AnswersTo
  <2>2. PurchaseIn(a.then) = {a.then}
        BY <1>3 DEF PurchaseIn
  <2>3. QED
        BY <1>2, <2>1, <2>2, ReturnBuys
<1>6. OncePaid(d) /\ Agreed(d, Flow(d))
      BY DEF PurchaseInv, PurchaseOf
<1>7. QED
      BY <1>3, <1>4, <1>5, <1>6 DEF TakenFrom, Apart, Agreed

\* The first block reads the number and decides on the payment.
LEMMA GotBuyLeavesBuys ==
    ASSUME NEW alone, Inv(alone), PurchaseInv, NEW d \in Device, GotBuyLeaves(d)
    PROVE  PurchaseInv'
<1>1. PICK a \in AnswersTo(d, "buyLeaves") :
          LET leaves == a.snap[CurrentLeaves]
              pays   == Affords(leaves, Price(d, a.then.cell))
          IN  /\ readLeaves' = [readLeaves EXCEPT ![d][a.then.n] = leaves]
              /\ \E w : Return(d, a, IF pays THEN <<SetValue(w)>> ELSE <<>>)
              /\ IF pays
                 THEN outcome' = [outcome EXCEPT ![d][a.then.n] = @ \cup {"paid"}]
                 ELSE UNCHANGED historyVars
      BY DEF GotBuyLeaves
<1> DEFINE t == a.then
           n == a.then.n
           leaves == a.snap[CurrentLeaves]
           pays == Affords(leaves, Price(d, a.then.cell))
<1>2. PICK calls : Return(d, a, calls) /\ Quiet(calls)
      BY <1>1, QuietLiterals, PutsBearNothing
<1>3. /\ t.op = "buyLeaves" /\ n \in 1..MaxOps /\ t.cell \in Cell /\ n \in 1..started[d]
      /\ t \in Flow(d) /\ OncePaid(d)' /\ Flow(d)' \subseteq Flow(d)
      /\ \A u \in Flow(d)' : ~Twin(t, u)
      /\ OthersUnmoved(d)
      BY <1>2, BuyingBlock DEF BuyOps
<1>4. UNCHANGED <<shelf, started>> /\ StartedGrows
      BY SameStarted DEF GotBuyLeaves, Inv, WalletInv
<1>5. /\ readLeaves \in [Device -> [1..MaxOps -> Int \cup {Absent}]] /\ outcome \in Outcomes
      BY DEF Inv, WalletInv, PurchaseInv
<1>6. /\ readLeaves'[d][n] = leaves
      /\ \A m \in (1..MaxOps) \ {n} : readLeaves'[d][m] = readLeaves[d][m]
      /\ \A e \in Device \ {d} : readLeaves'[e] = readLeaves[e]
      BY <1>1, <1>3, <1>5
<1>7. /\ outcome' \in Outcomes
      /\ outcome'[d][n] = IF pays THEN outcome[d][n] \cup {"paid"} ELSE outcome[d][n]
      /\ \A m \in (1..MaxOps) \ {n} : outcome'[d][m] = outcome[d][m]
      /\ \A e \in Device \ {d} : outcome'[e] = outcome[e]
  <2>1. CASE pays
    <3>1. outcome' = [outcome EXCEPT ![d][n] = @ \cup {"paid"}]
          BY <1>1, <2>1
    <3>2. QED
          BY <1>3, <1>5, <2>1, <3>1 DEF Outcomes
  <2>2. CASE ~pays
    <3>1. outcome' = outcome
          BY <1>1, <2>2 DEF historyVars
    <3>2. QED
          BY <1>5, <2>2, <3>1
  <2>3. QED
        BY <2>1, <2>2
<1>8. Agreed(d, Flow(d)) /\ \A m \in 1..MaxOps : Ended(d, m)
      BY DEF PurchaseInv, PurchaseOf
<1>9. readLeaves[d][n] = Absent /\ outcome[d][n] = {}
      BY <1>3, <1>8 DEF Agreed, Ended
<1>10. pays => leaves # Absent
       BY DEF Affords
<1>11. PICK p \in BOOLEAN : p = pays
       BY DEF Affords
<1>12. PICK F : F = Flow(d)'
       OBVIOUS
<1>13. Agreed(d, F)'
  <2>1. \A x : Price(d, x)' = Price(d, x)
        BY <1>4 DEF Price
  <2>2. \A u \in F : u \in Flow(d) /\ u.n \in 1..started[d] /\ u.n \in 1..MaxOps
    <3>1. started[d] \in 0..MaxOps /\ MaxOps \in Nat
          BY SchemaAssumption DEF Inv, WalletInv
    <3>2. \A u \in F : u \in Flow(d) /\ u.n \in 1..started[d]
          BY <1>3, <1>8, <1>12 DEF Agreed
    <3>3. QED
          BY <3>1, <3>2
  <2>3. \A u \in F : u.n = n => u.op # "buyLeaves" /\ u.cell = t.cell
    <3>1. \A u \in F : u.n = n => u.op # "buyLeaves"
          BY <1>3, <1>12 DEF Twin
    <3>2. \A u \in F : u.n = n => u.cell = t.cell
          BY <1>3, <1>8, <2>2 DEF Agreed
    <3>3. QED
          BY <3>1, <3>2
  <2> HIDE DEF n, t, leaves, pays
  <2>4. \A u \in F : u.n \in 1..started'[d]
        BY <1>4, <2>2
  <2>5. \A u, v \in F : u.n = v.n => u.cell = v.cell
        BY <1>8, <2>2 DEF Agreed
  <2>6. \A u \in F : u.op = "buyLeaves" => readLeaves'[d][u.n] = Absent
    <3>1. ASSUME NEW u \in F, u.op = "buyLeaves"
          PROVE  readLeaves'[d][u.n] = Absent
      <4>1. u.n # n
            BY <2>3, <3>1
      <4>2. QED
            BY <1>6, <1>8, <2>2, <3>1, <4>1 DEF Agreed
    <3>2. QED
          BY <3>1
  <2>7. ASSUME NEW u \in F, readLeaves'[d][u.n] # Absent
        PROVE  "paid" \in outcome'[d][u.n] <=> Affords(readLeaves'[d][u.n], Price(d, u.cell)')
    <3>1. CASE u.n = n
      <4>1. u.cell = t.cell
            BY <2>3, <3>1
      <4>2. Affords(readLeaves'[d][u.n], Price(d, u.cell)') <=> pays
            BY <1>6, <2>1, <3>1, <4>1 DEF pays, leaves, t
      <4>3. "paid" \in outcome'[d][n] <=> pays
            BY <1>7, <1>9
      <4>4. QED
            BY <3>1, <4>2, <4>3
    <3>2. CASE u.n # n
      <4>1. readLeaves'[d][u.n] = readLeaves[d][u.n] /\ outcome'[d][u.n] = outcome[d][u.n]
            BY <1>6, <1>7, <2>2, <3>2
      <4>2. QED
            BY <1>8, <2>1, <2>2, <2>7, <4>1 DEF Agreed
    <3>3. QED
          BY <3>1, <3>2
  <2>8. QED
        BY <2>4, <2>5, <2>6, <2>7 DEF Agreed, Affords
<1>14. ASSUME NEW m \in 1..MaxOps
       PROVE  Ended(d, m)'
  <2> HIDE DEF n, t, leaves, pays
  <2>1. CASE m = n
    <3>1. /\ ~(n > started[d])
          /\ outcome'[d][n] = IF pays THEN {"paid"} ELSE {}
          /\ pays => readLeaves'[d][n] # Absent
      <4>1. started[d] \in Nat
            BY <1>4 DEF StartedGrows
      <4>2. ~(n > started[d])
            BY <1>3, <4>1
      <4>3. QED
            BY <1>6, <1>7, <1>9, <1>10, <4>2
    <3>2. QED
          BY <1>4, <2>1, <3>1 DEF Ended
  <2>2. CASE m # n
        BY <1>4, <1>6, <1>7, <1>8, <2>2 DEF Ended
  <2>3. QED
        BY <2>1, <2>2
<1>15. PurchaseOf(d)'
       BY <1>3, <1>12, <1>13, <1>14 DEF PurchaseOf
<1>16. QED
       BY <1>3, <1>4, <1>6, <1>7, <1>15, ElsewhereKeeps

\* The second block decides for itself, and comes to the same end.
LEMMA ItemBuys ==
    ASSUME NEW alone, Inv(alone), PurchaseInv, NEW d \in Device,
           NEW a \in AnswersTo(d, "buyItem"), NEW calls, Quiet(calls), Return(d, a, calls),
           UNCHANGED <<shelf, readLeaves, started>>, readLeaves[d][a.then.n] # Absent,
           NEW end \in {"delivered", "refused"},
           end = "delivered" <=> Affordable(d, a),
           outcome' = [outcome EXCEPT ![d][a.then.n] = @ \cup {end}]
    PROVE  PurchaseInv'
<1> DEFINE n == a.then.n
<1>1. /\ n \in 1..MaxOps /\ n \in 1..started[d] /\ a.then \in Flow(d)
      /\ OncePaid(d)' /\ Flow(d)' \subseteq Flow(d) /\ OthersUnmoved(d)
      BY BuyingBlock DEF BuyOps
<1>2. StartedGrows
      BY SameStarted DEF Inv, WalletInv
<1>3. outcome \in Outcomes
      BY DEF PurchaseInv
<1>4. /\ outcome' \in Outcomes
      /\ outcome'[d][n] = outcome[d][n] \cup {end}
      /\ \A m \in (1..MaxOps) \ {n} : outcome'[d][m] = outcome[d][m]
      /\ \A e \in Device \ {d} : outcome'[e] = outcome[e]
      BY <1>1, <1>3 DEF Outcomes
<1>5. Agreed(d, Flow(d)) /\ \A m \in 1..MaxOps : Ended(d, m)
      BY DEF PurchaseInv, PurchaseOf
<1>6. "paid" \in outcome[d][n] <=> Affordable(d, a)
      BY <1>1, <1>5 DEF Agreed, Affordable
<1>7. PICK F : F = Flow(d)'
      OBVIOUS
<1> HIDE DEF n
<1>8. Agreed(d, F)'
  <2>1. \A x : Price(d, x)' = Price(d, x)
        BY DEF Price
  <2>2. \A u \in F : u \in Flow(d) /\ u.n \in 1..started[d] /\ u.n \in 1..MaxOps
    <3>1. started[d] \in 0..MaxOps /\ MaxOps \in Nat
          BY SchemaAssumption DEF Inv, WalletInv
    <3>2. \A u \in F : u \in Flow(d) /\ u.n \in 1..started[d]
          BY <1>1, <1>5, <1>7 DEF Agreed
    <3>3. QED
          BY <3>1, <3>2
  <2>3. \A m \in 1..MaxOps : "paid" \in outcome'[d][m] <=> "paid" \in outcome[d][m]
        BY <1>4
  <2>4. \A u, v \in F : u.n = v.n => u.cell = v.cell
        BY <1>5, <2>2 DEF Agreed
  <2>5. \A u \in F : u.op = "buyLeaves" => readLeaves'[d][u.n] = Absent
        BY <1>5, <2>2 DEF Agreed
  <2>6. \A u \in F : readLeaves'[d][u.n] # Absent =>
           ("paid" \in outcome'[d][u.n] <=> Affords(readLeaves'[d][u.n], Price(d, u.cell)'))
        BY <1>5, <2>1, <2>2, <2>3 DEF Agreed
  <2>7. \A u \in F : u.n \in 1..started'[d]
        BY <2>2
  <2>8. QED
        BY <2>4, <2>5, <2>6, <2>7 DEF Agreed, Affords
<1>9. ASSUME NEW m \in 1..MaxOps
      PROVE  Ended(d, m)'
  <2>1. CASE m = n
    <3>1. started[d] \in Nat
          BY <1>2 DEF StartedGrows
    <3>2. ~(n > started[d]) /\ readLeaves[d][n] # Absent
          BY <1>1, <3>1 DEF n
    <3>3. /\ "delivered" \in outcome[d][n] => "paid" \in outcome[d][n]
          /\ "refused" \in outcome[d][n] => "paid" \notin outcome[d][n]
          BY <1>1, <1>5 DEF Ended
    <3>4. /\ "delivered" \in outcome'[d][n] => "paid" \in outcome'[d][n]
          /\ "refused" \in outcome'[d][n] => "paid" \notin outcome'[d][n]
          BY <1>4, <1>6, <3>3
    <3>5. QED
          BY <2>1, <3>2, <3>4 DEF Ended
  <2>2. CASE m # n
        BY <1>4, <1>5, <2>2 DEF Ended
  <2>3. QED
        BY <2>1, <2>2
<1>10. PurchaseOf(d)'
       BY <1>1, <1>7, <1>8, <1>9 DEF PurchaseOf
<1>11. QED
       BY <1>1, <1>2, <1>4, <1>10, ElsewhereKeeps

LEMMA DeliverBuys ==
    ASSUME NEW alone, Inv(alone), PurchaseInv, NEW d \in Device, Deliver(d)
    PROVE  PurchaseInv'
<1>1. PICK a \in AnswersTo(d, "buyItem") :
          /\ Affordable(d, a)
          /\ \E w : Return(d, a, <<SetValue(w)>>)
          /\ outcome' = [outcome EXCEPT ![d][a.then.n] = @ \cup {"delivered"}]
          /\ UNCHANGED <<started, storeVars>>
      BY DEF Deliver
<1>2. PICK calls : Return(d, a, calls) /\ Quiet(calls)
      BY <1>1, QuietLiterals, PutsBearNothing
<1>3. readLeaves[d][a.then.n] # Absent
      BY <1>1 DEF Affordable, Affords
<1>4. UNCHANGED <<shelf, readLeaves, started>>
      BY <1>1 DEF storeVars
<1>5. PICK end \in {"delivered", "refused"} : end = "delivered"
      OBVIOUS
<1>6. /\ outcome' = [outcome EXCEPT ![d][a.then.n] = @ \cup {end}]
      /\ end = "delivered" <=> Affordable(d, a)
      BY <1>1, <1>5
<1>7. QED
      BY <1>2, <1>3, <1>4, <1>6, ItemBuys

LEMMA RefuseBuys ==
    ASSUME NEW alone, Inv(alone), PurchaseInv, NEW d \in Device, Refuse(d)
    PROVE  PurchaseInv'
<1>1. PICK a \in AnswersTo(d, "buyItem") :
          /\ readLeaves[d][a.then.n] # Absent
          /\ ~Affordable(d, a)
          /\ Return(d, a, <<>>)
          /\ outcome' = [outcome EXCEPT ![d][a.then.n] = @ \cup {"refused"}]
          /\ UNCHANGED <<started, storeVars>>
      BY DEF Refuse
<1>2. PICK calls : Return(d, a, calls) /\ Quiet(calls)
      BY <1>1, QuietLiterals
<1>3. UNCHANGED <<shelf, readLeaves, started>>
      BY <1>1 DEF storeVars
<1>4. PICK end \in {"delivered", "refused"} : end = "refused"
      OBVIOUS
<1>5. /\ outcome' = [outcome EXCEPT ![d][a.then.n] = @ \cup {end}]
      /\ end = "delivered" <=> Affordable(d, a)
      BY <1>1, <1>4
<1>6. QED
      BY <1>1, <1>2, <1>3, <1>5, ItemBuys

-----------------------------------------------------------------------------
(* In every behaviour, as long as no cell changes its item.                *)

LEMMA StartsGrow ==
    ASSUME WalletInv, NEW d \in Device, started' = started \/ (MayStart(d) /\ Start(d))
    PROVE  StartedGrows
BY StartGrows, SameStarted DEF WalletInv

LEMMA WalletStepBuys ==
    ASSUME NEW alone, Inv(alone), ~Reuse, PurchaseInv, NEW d \in Device,
           StoreStep(d) \/ RewardStep(d) \/ RedeemStep(d)
    PROVE  PurchaseInv'
<1>1. PICK G : G = Known(alone, ledger)
      OBVIOUS
<1>2. DatabaseInv(G, Blocks) /\ WalletInv
      BY <1>1 DEF Inv
<1>3. ASSUME NEW c \in Cell, BuyOnClick(d, c)
      PROVE  PurchaseInv'
      BY <1>2, <1>3, BuyOnClickBuys
<1>4. CASE GotBuyLeaves(d)
      BY <1>4, GotBuyLeavesBuys
<1>5. CASE Deliver(d) \/ Refuse(d)
      BY <1>5, DeliverBuys, RefuseBuys
<1>6. CASE CrashOnNilLeaves(d)
  <2>1. AllFewer
        BY <1>2, <1>6, AppEndsBuys DEF CrashOnNilLeaves, Crash
  <2>2. UNCHANGED <<started, shelf, readLeaves, outcome>>
        BY <1>6 DEF CrashOnNilLeaves, walletVars, storeVars, historyVars
  <2>3. QED
        BY <1>2, <2>1, <2>2, StartsGrow, AsideKeeps
<1>7. CASE RewardStep(d)
  <2>1. AllFewer
        BY <1>2, <1>7, RewardStepBuys
  <2>2. UNCHANGED <<shelf, readLeaves, outcome>>
        BY <1>7 DEF RewardStep, ClaimOnClick, GotClaimDate, GotRewardCurrent,
           GotRewardAllTime, storeVars, historyVars
  <2>3. started' = started \/ (MayStart(d) /\ Start(d))
        BY <1>7 DEF RewardStep, ClaimOnClick, GotClaimDate, GotRewardCurrent,
           GotRewardAllTime
  <2>4. QED
        BY <1>2, <2>1, <2>2, <2>3, StartsGrow, AsideKeeps
<1>8. CASE RedeemStep(d)
  <2>1. AllFewer
        BY <1>2, <1>8, RedeemStepBuys
  <2>2. UNCHANGED <<shelf, readLeaves, outcome>>
        BY <1>8 DEF RedeemStep, RedeemButtonPressed, GotUser, CrashOnPartialUser,
           walletVars, storeVars, historyVars
  <2>3. started' = started \/ (MayStart(d) /\ Start(d))
        BY <1>8 DEF RedeemStep, RedeemButtonPressed, GotUser, CrashOnPartialUser,
           walletVars
  <2>4. QED
        BY <1>2, <2>1, <2>2, <2>3, StartsGrow, AsideKeeps
<1>9. QED
      BY <1>3, <1>4, <1>5, <1>6, <1>7, <1>8 DEF StoreStep, CellForRow

LEMMA OutsideBuys ==
    ASSUME NEW alone, Inv(alone), PurchaseInv, NEW d \in Device,
           SessionAnswer(d) \/ EnvironmentStep(d) \/ DidSignIn(d)
              \/ LandStep(d) \/ AccountStep(d),
           started' = started \/ (MayStart(d) /\ Start(d)),
           UNCHANGED <<shelf, readLeaves, outcome>>
    PROVE  PurchaseInv'
<1>1. PICK G : G = Known(alone, ledger)
      OBVIOUS
<1>2. DatabaseInv(G, Blocks) /\ WalletInv /\ Asks(Blocks)
      BY <1>1, BlocksAsk DEF Inv
<1>3. AllFewer
  <2>1. CASE DidSignIn(d)
        BY <1>2, <2>1, SignInBuys, ScreensAreQuiet DEF DidSignIn
  <2>2. QED
        BY <1>2, <2>1, SessionAnswerBuys, EnvironmentBuys, LandStepBuys, AccountStepBuys
<1>4. QED
      BY <1>2, <1>3, StartsGrow, AsideKeeps

LEMMA PurchaseInitHolds ==
    ASSUME WalletInit
    PROVE  PurchaseInv
<1>1. PICK opening \in Openings : SessionInit(opening)
      BY DEF WalletInit, UsersInit
<1>2. Buys(<<>>) = {} /\ Single(<<>>)
      BY CalmPair, CalmBuysNothing
<1>3. ASSUME NEW d \in Device
      PROVE  PurchaseOf(d)
  <2>1. todo[d] = <<>> /\ wire[d] = <<>> /\ held[d] = <<>> /\ inbox[d] = <<>>
        BY <1>1 DEF SessionInit, DatabaseInit
  <2>2. OncePaid(d) /\ Flow(d) = {}
        BY <1>2, <2>1 DEF OncePaid, Once, Apart, Flow, BuysOfAll
  <2>3. \A n \in 1..MaxOps : Ended(d, n)
        BY DEF WalletInit, Ended
  <2>4. QED
        BY <2>2, <2>3 DEF PurchaseOf, Agreed
<1>4. outcome \in Outcomes
      BY DEF WalletInit, Outcomes
<1>5. QED
      BY <1>3, <1>4 DEF PurchaseInv

LEMMA PurchaseInvDecides ==
    ASSUME PurchaseInv
    PROVE  OneOutcome
<1>1. ASSUME NEW d \in Device, NEW n \in 1..MaxOps
      PROVE  /\ "delivered" \in outcome[d][n] => "paid" \in outcome[d][n]
             /\ "refused" \in outcome[d][n] => outcome[d][n] = {"refused"}
  <2>1. outcome[d][n] \subseteq {"paid", "delivered", "refused"}
        BY DEF PurchaseInv, Outcomes
  <2>2. Ended(d, n)
        BY DEF PurchaseInv, PurchaseOf
  <2>3. QED
        BY <2>1, <2>2 DEF Ended
<1>2. QED
      BY <1>1 DEF OneOutcome

LEMMA WalletBuys ==
    ASSUME ~Reuse, Inv(TRUE), PurchaseInv, [WalletNext]_vars
    PROVE  PurchaseInv'
<1>1. CASE UNCHANGED vars \/ NextDay
  <2>1. AllFewer
        BY <1>1, NoAction DEF vars, NextDay
  <2>2. UNCHANGED <<started, shelf, readLeaves, outcome>>
        BY <1>1 DEF vars, NextDay, walletVars, storeVars, historyVars
  <2>3. StartedGrows
        BY <2>2, SameStarted DEF Inv, WalletInv
  <2>4. QED
        BY <2>1, <2>2, <2>3, AsideKeeps
<1>2. ASSUME NEW d \in Device,
             DidSignIn(d) \/ SessionAnswer(d) \/ EnvironmentStep(d), UNCHANGED walletVars
      PROVE  PurchaseInv'
      BY <1>2, OutsideBuys DEF walletVars, storeVars, historyVars
<1>3. QED
      BY <1>1, <1>2, WalletStepBuys DEF WalletNext

LEMMA GameBuys ==
    ASSUME ~Reuse, GameInv, PurchaseInv, [GameNext]_gameVars
    PROVE  PurchaseInv'
<1>1. Inv(FALSE)
      BY DEF GameInv
<1>2. CASE UNCHANGED gameVars \/ NextDay
  <2>1. AllFewer
        BY <1>2, NoAction DEF gameVars, vars, NextDay
  <2>2. UNCHANGED <<started, shelf, readLeaves, outcome>>
        BY <1>2 DEF gameVars, vars, NextDay, walletVars, storeVars, historyVars
  <2>3. StartedGrows
        BY <1>1, <2>2, SameStarted DEF Inv, WalletInv
  <2>4. QED
        BY <2>1, <2>2, <2>3, AsideKeeps
<1>3. ASSUME NEW d \in Device, WalletPart(d)
      PROVE  PurchaseInv'
      BY <1>1, <1>3, WalletStepBuys DEF WalletPart
<1>4. ASSUME NEW d \in Device, LandPart(d)
      PROVE  PurchaseInv'
  <2>1. UNCHANGED <<shelf, readLeaves, outcome>> /\ LandStep(d)
        BY <1>4 DEF LandPart, storeVars, historyVars
  <2>2. started' = started \/ (MayStart(d) /\ Start(d))
        BY <2>1 DEF LandStep, OnPlaceItem, OnBackButtonPressed, OnPlacementCompleted,
           OnRemove, GotPlaceActive, GotPlaceInventory, GotRemoveActive,
           GotRemoveInventory, CrashOnLand
  <2>3. QED
        BY <1>1, <2>1, <2>2, OutsideBuys
<1>5. ASSUME NEW d \in Device, AccountPart(d)
      PROVE  PurchaseInv'
  <2>1. UNCHANGED <<shelf, readLeaves, outcome>> /\ AccountStep(d)
        BY <1>5 DEF AccountPart, storeVars, historyVars
  <2>2. started' = started \/ (MayStart(d) /\ Start(d))
        BY <2>1 DEF AccountStep, ScreenStep, FirstSignIn, SignInAgain, ChooseAvatar, ChangeAvatar,
           UpdateButtonPressed, LeaderSettingsSwitched, Save, Issue, OpenDashboard,
           GotDashboard, OpenSettings, GotSettings, AppNotifySwitched, CrashOnScreen,
           CrashOnPermission, PermissionKnown, SignOutButtonPressed, DeleteButtonPressed,
           LoginViewDidLoad, accountVars
  <2>3. QED
        BY <1>1, <2>1, <2>2, OutsideBuys
<1>6. ASSUME NEW d \in Device, CommonPart(d)
      PROVE  PurchaseInv'
      BY <1>1, <1>6, OutsideBuys DEF CommonPart, walletVars, storeVars, historyVars
<1>7. QED
      BY <1>2, <1>3, <1>4, <1>5, <1>6 DEF GameNext

\* A purchase is paid for and delivered, or refused for want of leaves, though its
\* two blocks look at the number separately (StoreTableViewCell.swift:47 and 66)
\* and the answers of several purchases interleave.
THEOREM PurchasesHaveOneEnd == WalletSpec => []OneOutcome
<1>1. (~Reuse => PurchaseInv) => OneOutcome
      BY PurchaseInvDecides DEF OneOutcome
<1>2. WalletInit => (~Reuse => PurchaseInv)
      BY PurchaseInitHolds
<1>3. Inv(TRUE) /\ (~Reuse => PurchaseInv) /\ [WalletNext]_vars => (~Reuse => PurchaseInv)'
      BY WalletBuys
<1>4. QED
      BY <1>1, <1>2, <1>3, InvHolds, PTL DEF WalletSpec

\* And so in the whole app, while its users build, change settings, leave and
\* delete the account.
THEOREM GamePurchasesHaveOneEnd == GameSpec => []OneOutcome
<1>1. (~Reuse => PurchaseInv) => OneOutcome
      BY PurchaseInvDecides DEF OneOutcome
<1>2. GameInit => (~Reuse => PurchaseInv)
      BY PurchaseInitHolds DEF GameInit
<1>3. GameInv /\ (~Reuse => PurchaseInv) /\ [GameNext]_gameVars => (~Reuse => PurchaseInv)'
      BY GameBuys
<1>4. QED
      BY <1>1, <1>2, <1>3, GameInvHolds, PTL DEF GameSpec
=============================================================================
