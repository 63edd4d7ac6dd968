----------------------------- MODULE WalletBook -----------------------------
(***************************************************************************)
(* Wallet implements AccountBook for users who take turns and connections  *)
(* that hold: however the gets and writes of an operation are queued,      *)
(* answered from the cache or by the server, and acknowledged, each block  *)
(* makes its entry in one book.                                            *)
(***************************************************************************)
EXTENDS Wallet

Seqs == INSTANCE SequencesExt

\* The writes of device d that the server does not have.
Unsaved(d) ==
    LET puts == SelectSeq(wire[d] \o todo[d], LAMBDA c : c.kind = "put")
    IN  [i \in DOMAIN puts |-> puts[i].write]

\* Those of the device whose turn it is.
Entries ==
    LET writers == {d \in Device : Unsaved(d) # <<>>}
    IN  IF writers = {} THEN <<>> ELSE Unsaved(CHOOSE d \in writers : TRUE)

\* A leaf after the first n entries.
Entered(l, entries, n) ==
    LET on == {i \in 1..n : l \in DOMAIN entries[i]}
    IN  IF on = {} THEN record[l] ELSE entries[Seqs!Max(on)][l]

TheBook ==
    LET entries == Entries
    IN  [i \in 1..(Len(entries) + 1) |->
            [current  |-> OrZero(Entered(CurrentLeaves, entries, i - 1)),
             allTime  |-> OrZero(Entered(AllTimeLeaves, entries, i - 1)),
             goods    |-> [k \in Key |-> OrZero(Entered(Inventory(k), entries, i - 1))],
             lastDate |-> Entered(LastVisitedDate, entries, i - 1)]]

Purchases == Device \X (1..MaxOps)

Owed ==
    {p \in Purchases : "paid" \in outcome[p[1]][p[2]] /\ "delivered" \notin outcome[p[1]][p[2]]}

\* The blocks that will run on the devices whose process runs.
Awaited ==
    UNION {{c.then : c \in {todo[d][i] : i \in Calls(todo[d], "get")}
                     \cup {wire[d][i] : i \in Calls(wire[d], "get")}
                     \cup {inbox[d][i] : i \in Calls(inbox[d], "reply")}} :
              d \in {e \in Device : up[e]}}

Due(op) == {b.total : b \in {x \in Awaited : x.op = op}}

Book ==
    INSTANCE AccountBook WITH
        Good     <- Key,
        Charge   <- Cost,
        Purchase <- Purchases,
        Reward   <- 0..Cardinality(UNION {{k} \X (1..(Cost[k] \div 10)) : k \in Key}),
        Earning  <- {Worth(form) : form \in [Entry -> Quantity]},
        Date     <- Day,
        book     <- TheBook,
        owed     <- Owed,
        due      <- [current |-> Due("rewardCurrent"), allTime |-> Due("rewardAllTime")]

\* Purchases, claims and redemptions of any device, taken in turns, are entries of
\* one account book: each starts from what the one before it left, pays before it
\* delivers, and grants a day once (StoreTableViewCell.swift:40,
\* GameViewController.swift:91, ManualEntryViewController.swift:208).
ImplementsBook == Book!BookSpec
=============================================================================
