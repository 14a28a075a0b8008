------------------------------- MODULE Wallet --------------------------------
(***************************************************************************)
(* app/wallet.py: the money operations on one users row, performed by      *)
(* concurrent database sessions.  A session loads the row without a lock   *)
(* (its attributes go stale), every operation first takes the row lock and *)
(* re-reads the row (lock_user), and the lock, the new balances and the    *)
(* new ledger rows are published by COMMIT or dropped by ROLLBACK.         *)
(***************************************************************************)
EXTENDS Integers, Sequences

CONSTANTS Sessions,   \* database sessions (API requests, bot updates, workers)
          Keys,       \* idempotency keys the callers use
          Amounts,    \* amounts in paise
          None        \* nobody holds the row lock

ASSUME AmountsAssumption == Amounts \subseteq (Int \ {0}) /\ \A n \in Amounts : n > 0
ASSUME NoneAssumption == None \notin Sessions

VARIABLES row,      \* committed users.cached_balance_paise / cached_reserved_paise
          ledger,   \* committed ledger_entries of this user, in id order
          lock,     \* the session holding the FOR UPDATE lock on the row
          sess      \* per session: is it open, its User object, its unflushed/uncommitted rows

vars == <<row, ledger, lock, sess>>

Rows == [balance : Nat, reserved : Nat]
NoMoney == [balance |-> 0, reserved |-> 0]
Closed == [open |-> FALSE, user |-> NoMoney, added |-> <<>>]

\* A ledger_entries row; amount_paise carries the sign its entry_type implies.
Entries == [key : Keys, type : {"credit", "debit", "reserve", "release", "capture"},
            amount : Int, balance : Nat, reserved : Nat]
Signed(e) ==
    /\ e.type = "credit" => e.amount > 0
    /\ e.type \in {"debit", "capture"} => e.amount < 0
    /\ e.type \in {"reserve", "release"} => e.amount = 0

TypeOK ==
    /\ row \in Rows
    /\ ledger \in Seq(Entries)
    /\ lock \in Sessions \cup {None}
    /\ sess \in [Sessions -> [open : BOOLEAN, user : Rows, added : Seq(Entries)]]
    /\ \A i \in 1..Len(ledger) : Signed(ledger[i])

------------------------------------------------------------------------------
\* The helpers of wallet.py.

\* User.available_paise
Available(u) == u.balance - u.reserved

\* lock_user: flush, then re-read the row under FOR UPDATE.  A session that
\* holds the lock already re-reads its own flushed writes.
StaleUser(t) == sess[t].user
LockedUser(t) == IF lock = t THEN sess[t].user ELSE row

\* The row lock is free or already ours; otherwise SELECT ... FOR UPDATE blocks.
CanLock(t) == sess[t].open /\ lock \in {None, t}

\* _existing: committed rows and this session's own are visible.
ExistingCommitted(t, k) == \E i \in 1..Len(ledger) : ledger[i].key = k
Existing(t, k) ==
    \/ \E i \in 1..Len(ledger) : ledger[i].key = k
    \/ \E i \in 1..Len(sess[t].added) : sess[t].added[i].key = k

\* _append: refuse an illegal balance, else set the cached balances and add the row.
Entry(type, k, amount, balance, reserved) ==
    [key |-> k, type |-> type, amount |-> amount,
     balance |-> balance, reserved |-> reserved]

AppendEntry(t, e) ==
    /\ e.balance >= 0 /\ e.reserved >= 0 /\ e.reserved <= e.balance
    /\ lock' = t
    /\ sess' = [sess EXCEPT ![t] =
                  [open |-> TRUE,
                   user |-> [balance |-> e.balance, reserved |-> e.reserved],
                   added |-> Append(sess[t].added, e)]]
    /\ UNCHANGED <<row, ledger>>

\* release() never takes out more than is reserved.
Clipped(u, n) == IF u.reserved < n THEN u.reserved ELSE n

CreditEntry(u, k, n)  == Entry("credit",  k, n,  u.balance + n, u.reserved)
DebitEntry(u, k, n)   == Entry("debit",   k, -n, u.balance - n, u.reserved)
ReserveEntry(u, k, n) == Entry("reserve", k, 0,  u.balance, u.reserved + n)
ReleaseEntry(u, k, n) == Entry("release", k, 0,  u.balance, u.reserved - Clipped(u, n))
CaptureAsRelease(u, k, n) == Entry("capture", k, 0, u.balance, u.reserved - n)
CaptureEntry(u, k, n) == Entry("capture", k, -n, u.balance - n, u.reserved - n)

------------------------------------------------------------------------------
Init ==
    /\ row = NoMoney
    /\ ledger = <<>>
    /\ lock = None
    /\ sess = [t \in Sessions |-> Closed]

\* session.get(User, ...): an unlocked read that may be stale when it is used.
Open(t) ==
    /\ ~sess[t].open
    /\ sess' = [sess EXCEPT ![t] = [open |-> TRUE, user |-> row, added |-> <<>>]]
    /\ UNCHANGED <<row, ledger, lock>>

\* lock_user alone: what place_order does first, and all that an operation
\* leaves behind that is refused (InsufficientFunds, WalletError) or whose
\* key exists already.
LockUser(t) ==
    /\ CanLock(t)
    /\ lock' = t
    /\ sess' = [sess EXCEPT ![t] =
                  [open |-> TRUE, user |-> LockedUser(t), added |-> sess[t].added]]
    /\ UNCHANGED <<row, ledger>>

Credit(t, k, n) ==
    /\ CanLock(t) /\ ~Existing(t, k)
    /\ AppendEntry(t, CreditEntry(LockedUser(t), k, n))

Debit(t, k, n) ==
    /\ CanLock(t) /\ ~Existing(t, k)
    /\ Available(LockedUser(t)) >= n
    /\ AppendEntry(t, DebitEntry(LockedUser(t), k, n))

Reserve(t, k, n) ==
    /\ CanLock(t) /\ ~Existing(t, k)
    /\ Available(LockedUser(t)) >= n
    /\ AppendEntry(t, ReserveEntry(LockedUser(t), k, n))

Release(t, k, n) ==
    /\ CanLock(t) /\ ~Existing(t, k)
    /\ AppendEntry(t, ReleaseEntry(LockedUser(t), k, n))

Capture(t, k, n) ==
    /\ CanLock(t) /\ ~Existing(t, k)
    /\ LockedUser(t).reserved >= n
    /\ AppendEntry(t, CaptureEntry(LockedUser(t), k, n))

\* The UPDATE of users carries the cached balances only when an operation changed them.
CommittedWholeRow(t) == sess[t].user
CommittedRow(t) == IF sess[t].added = <<>> THEN row ELSE sess[t].user

Unlocked(t) == IF lock = t THEN None ELSE lock

\* session_scope / get_db at the end of a handler.
Commit(t) ==
    /\ sess[t].open
    /\ row' = CommittedRow(t)
    /\ ledger' = ledger \o sess[t].added
    /\ lock' = Unlocked(t)
    /\ sess' = [sess EXCEPT ![t] = Closed]

\* An exception, a lost connection, a killed process: nothing is written.
Rollback(t) ==
    /\ sess[t].open
    /\ lock' = Unlocked(t)
    /\ sess' = [sess EXCEPT ![t] = Closed]
    /\ UNCHANGED <<row, ledger>>

Operation(t, k, n) ==
    \/ Credit(t, k, n)
    \/ Debit(t, k, n)
    \/ Reserve(t, k, n)
    \/ Release(t, k, n)
    \/ Capture(t, k, n)

Next ==
    \E t \in Sessions :
        \/ Open(t)
        \/ LockUser(t)
        \/ \E k \in Keys, n \in Amounts : Operation(t, k, n)
        \/ Commit(t)
        \/ Rollback(t)

Spec == Init /\ [][Next]_vars

------------------------------------------------------------------------------
\* The committed ledger is a legal statement that only grows.
History == INSTANCE Statement WITH log <- ledger

\* Every posting starts from the balances the previous one left, leaves solvent
\* balances, and no key is posted twice, whatever sessions interleave: the row
\* lock plus the re-read of lock_user() lose no update (wallet.py:127, 148).
LedgerLegal == History!Legal(ledger)

\* The cached balances of the users row are those of the newest posting, so the
\* ledger can be replayed into the balance (wallet.py:180-183, session commit).
RowMatchesLedger == row = History!Closing(ledger)

\* Sessions, locks and commits implement the abstract statement.
ImplementsStatement == History!Spec
==============================================================================
