---------------------------- MODULE AccountBook ----------------------------
(***************************************************************************)
(* What the wallet promises to users who take turns: one book of the       *)
(* account, in which every entry follows from the one before it.  Entries  *)
(* are made at once and reach the server one by one, in order.             *)
(*                                                                         *)
(*   book   the account as the server has it, then as each entry that has  *)
(*          not reached the server yet leaves it                           *)
(*   owed   purchases that are paid for and not delivered                  *)
(*   due    leaves of a granted reward that are still to be added to each  *)
(*          of the two totals                                              *)
(***************************************************************************)
EXTENDS Integers, Sequences

CONSTANTS
    Good,       \* kinds of items
    Charge,     \* leaves an item costs
    Purchase,   \* names of purchases
    Reward,     \* leaves a day may yield
    Earning,    \* leaves a redemption may earn
    Date        \* values of the last date

VARIABLES book, owed, due

bookVars == <<book, owed, due>>

Total == {"current", "allTime"}

Newest == book[Len(book)]

\* One more entry.
Enter(account) == book' = Append(book, account)

\* A purchase is made only from leaves that are there.
Pay(p, k) ==
    /\ p \notin owed
    /\ owed' = owed \cup {p}
    /\ Newest.current >= Charge[k]
    /\ Enter([Newest EXCEPT !.current = @ - Charge[k]])
    /\ UNCHANGED due

Deliver(p, k) ==
    /\ p \in owed
    /\ owed' = owed \ {p}
    /\ Enter([Newest EXCEPT !.goods[k] = @ + 1])
    /\ UNCHANGED due

\* A day that has not been rewarded is: the reward is to be added to both
\* totals.
Grant(day, n) ==
    /\ due' = [t \in Total |-> due[t] \cup {n}]
    /\ Newest.lastDate # day
    /\ Enter([Newest EXCEPT !.lastDate = day])
    /\ UNCHANGED owed

Gain(t, n) ==
    /\ n \in due[t]
    /\ due' = [due EXCEPT ![t] = @ \ {n}]
    /\ Enter([Newest EXCEPT ![t] = @ + n])
    /\ UNCHANGED owed

Redeem(n) ==
    /\ Enter([Newest EXCEPT !.current = @ + n, !.allTime = @ + n])
    /\ UNCHANGED <<owed, due>>

\* An entry that changes none of this.
Note == Enter(Newest) /\ UNCHANGED <<owed, due>>

\* The server gets the oldest entry it does not have.
Save ==
    /\ Len(book) > 1
    /\ book' = Tail(book)
    /\ UNCHANGED <<owed, due>>

\* The newest entries are lost, and rewards still to be added with them.
Lose ==
    /\ \E n \in 1..Len(book) : book' = SubSeq(book, 1, n)
    /\ due' = [t \in Total |-> {}]
    /\ UNCHANGED owed

BookInit ==
    /\ Len(book) = 1
    /\ owed = {}
    /\ due = [t \in Total |-> {}]

BookNext ==
    \/ \E p \in Purchase, k \in Good : Pay(p, k) \/ Deliver(p, k)
    \/ \E day \in Date, n \in Reward : Grant(day, n)
    \/ \E t \in Total, n \in Reward : Gain(t, n)
    \/ \E n \in Earning : Redeem(n)
    \/ Note \/ Save \/ Lose

BookSpec == BookInit /\ [][BookNext]_bookVars
=============================================================================
