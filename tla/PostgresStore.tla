---------------------------- MODULE PostgresStore ----------------------------
(***************************************************************************)
(* The addon transactions of the Postgres backend                          *)
(* (src/storage/postgres/index.ts), of several connections at once.  The   *)
(* database is read committed: a statement waits for the row locks of      *)
(* other transactions and then sees what they committed, and a cycle of    *)
(* waiting ends with the abort of one of them.                             *)
(*                                                                         *)
(* A row is its version, 0 for none; the lock of the key of a row that is  *)
(* being inserted is the row's.  The revision is one row of                *)
(* store_metadata.  Callers pass no expected version today: the operation  *)
(* has one, and any may come.                                              *)
(***************************************************************************)
EXTENDS Integers, Sequences, FiniteSets

CONSTANTS
    Connections,   \* clients of the pools of all replicas
    PgAddons,      \* provider ids
    NoVersion,     \* no expected version
    MaxCommits,    \* bound: transactions begun
    MaxBreaks      \* bound: connections lost and statements that fail

MetaRow == "store_metadata"
PgRows == PgAddons \cup {MetaRow}
Nobody == "nobody"

ASSUME PgAssumption ==
    /\ IsFiniteSet(PgAddons) /\ PgAddons # {} /\ MetaRow \notin PgAddons
    /\ Nobody \notin Connections
    /\ MaxCommits \in Nat /\ MaxBreaks \in Nat

VARIABLES
    rowVersion,   \* the committed rows: addon -> version
    pgRevision,   \* the committed revision
    owner,        \* row -> connection that has it locked, or Nobody
    tx,           \* connection -> its transaction
    txBegun, breaks,
    mutated,      \* history: transactions that committed a change
    clobbered     \* history: a save with an expected version hit another one

pgVars == <<rowVersion, pgRevision, owner, tx, txBegun, breaks, mutated, clobbered>>

NoTx == [op |-> "none", at |-> "over", todo |-> <<>>, seen |-> 0,
         expected |-> NoVersion, changes |-> {}, bumps |-> FALSE]

PgInit ==
    /\ rowVersion = [a \in PgAddons |-> 0] /\ pgRevision = 0
    /\ owner = [r \in PgRows |-> Nobody]
    /\ tx = [c \in Connections |-> NoTx]
    /\ txBegun = 0 /\ breaks = 0 /\ mutated = 0 /\ clobbered = FALSE
----------------------------------------------------------------------------
Free(row, c) == owner[row] \in {Nobody, c}

BeginTx(c, op, at, todo, expected) ==
    /\ tx[c].at = "over" /\ txBegun < MaxCommits
    /\ txBegun' = txBegun + 1
    /\ tx' = [tx EXCEPT ![c] = [NoTx EXCEPT !.op = op, !.at = at, !.todo = todo,
                                             !.expected = expected]]
    /\ UNCHANGED <<rowVersion, pgRevision, owner, breaks, mutated, clobbered>>

BeginSave(c, a, expected) == BeginTx(c, "save", "select", <<a>>, expected)
BeginRemove(c, a) == BeginTx(c, "remove", "delete", <<a>>, NoVersion)
BeginReorder(c, order) == BeginTx(c, "reorder", "update", order, NoVersion)
BeginBump(c) == BeginTx(c, "bump", "bump", <<>>, NoVersion)

(* The changes that a commit makes visible.                                *)
CommittedBy(c) ==
    [a \in PgAddons |->
        IF a \notin tx[c].changes THEN rowVersion[a]
        ELSE CASE tx[c].op = "save" -> tx[c].seen + 1
               [] tx[c].op = "remove" -> 0
               [] OTHER -> rowVersion[a]]

LocksLeft(c) == [r \in PgRows |-> IF owner[r] = c THEN Nobody ELSE owner[r]]

TxOver(c) == /\ tx' = [tx EXCEPT ![c] = NoTx]
             /\ owner' = LocksLeft(c)

RollsBack(c) == TxOver(c) /\ UNCHANGED <<rowVersion, pgRevision, mutated, clobbered>>

Locks(c, row) == owner' = [owner EXCEPT ![row] = c]

(* BUG: the version is read without FOR UPDATE.                            *)
SelectUnlocked(c) ==
    LET a == tx[c].todo[1]  v == rowVersion[a]  e == tx[c].expected IN
    /\ tx[c].at = "select"
    /\ IF e # NoVersion /\ v > 0 /\ v # e THEN RollsBack(c)
       ELSE /\ tx' = [tx EXCEPT ![c].at = "upsert", ![c].seen = v]
            /\ UNCHANGED <<owner, rowVersion, pgRevision, mutated, clobbered>>
    /\ UNCHANGED <<txBegun, breaks>>

(* SELECT version ... FOR UPDATE: a row that exists is locked; another     *)
(* version than the one expected is an OptimisticLockError.                *)
SelectForUpdate(c) ==
    LET a == tx[c].todo[1]  v == rowVersion[a]  e == tx[c].expected IN
    /\ tx[c].at = "select"
    /\ v > 0 => Free(a, c)
    /\ IF e # NoVersion /\ v > 0 /\ v # e THEN RollsBack(c)
       ELSE /\ tx' = [tx EXCEPT ![c].at = "upsert", ![c].seen = v]
            /\ IF v > 0 THEN Locks(c, a) ELSE UNCHANGED owner
            /\ UNCHANGED <<rowVersion, pgRevision, mutated, clobbered>>
    /\ UNCHANGED <<txBegun, breaks>>

(* INSERT ... ON CONFLICT DO UPDATE: a row inserted meanwhile is written   *)
(* over, with the version of a first save.                                 *)
Upsert(c) ==
    LET a == tx[c].todo[1] IN
    /\ tx[c].at = "upsert" /\ Free(a, c)
    /\ Locks(c, a)
    /\ tx' = [tx EXCEPT ![c].at = "bump", ![c].changes = {a}]
    /\ UNCHANGED <<rowVersion, pgRevision, txBegun, breaks, mutated, clobbered>>

(* DELETE ... RETURNING: nothing deleted, and the transaction is over.     *)
Delete(c) ==
    LET a == tx[c].todo[1] IN
    /\ tx[c].at = "delete"
    /\ rowVersion[a] > 0 => Free(a, c)
    /\ IF rowVersion[a] = 0 THEN TxOver(c)
       ELSE /\ Locks(c, a)
            /\ tx' = [tx EXCEPT ![c].at = "bump", ![c].changes = {a}]
    /\ UNCHANGED <<rowVersion, pgRevision, txBegun, breaks, mutated, clobbered>>

(* One UPDATE of reorderAddons(): an unknown id touches no row.            *)
UpdateOrder(c) ==
    LET a == Head(tx[c].todo) IN
    /\ tx[c].at = "update"
    /\ rowVersion[a] > 0 => Free(a, c)
    /\ IF rowVersion[a] > 0 THEN Locks(c, a) ELSE UNCHANGED owner
    /\ tx' = [tx EXCEPT ![c].todo = Tail(@),
                        ![c].at = IF Len(tx[c].todo) = 1 THEN "bump" ELSE "update"]
    /\ UNCHANGED <<rowVersion, pgRevision, txBegun, breaks, mutated, clobbered>>

(* UPDATE store_metadata: value + 1 of what was committed last, seen once  *)
(* the lock is there.                                                      *)
BumpMeta(c) ==
    /\ tx[c].at = "bump" /\ Free(MetaRow, c)
    /\ Locks(c, MetaRow)
    /\ tx' = [tx EXCEPT ![c].at = "commit", ![c].bumps = TRUE]
    /\ UNCHANGED <<rowVersion, pgRevision, txBegun, breaks, mutated, clobbered>>

CommitTx(c) ==
    /\ tx[c].at = "commit"
    /\ rowVersion' = CommittedBy(c)
    /\ pgRevision' = pgRevision + 1
    /\ mutated' = mutated + 1
    /\ clobbered' = (clobbered \/
                        /\ tx[c].expected # NoVersion /\ tx[c].seen > 0
                        /\ rowVersion[tx[c].todo[1]] # tx[c].expected)
    /\ TxOver(c)
    /\ UNCHANGED <<txBegun, breaks>>
----------------------------------------------------------------------------
(* Who waits for whom.                                                     *)
WantedRow(c) ==
    CASE tx[c].at \in {"select", "delete", "update"} ->
            IF rowVersion[tx[c].todo[1]] > 0 THEN {tx[c].todo[1]} ELSE {}
      [] tx[c].at = "upsert" -> {tx[c].todo[1]}
      [] tx[c].at = "bump" -> {MetaRow}
      [] OTHER -> {}

WaitsFor(c) == {owner[r] : r \in WantedRow(c)} \cap (Connections \ {c})

(* c waits in a ring: for one who waits, through others or not, for c.     *)
InRing(c) ==
    \E ring \in SUBSET Connections :
        c \in ring /\ \A d \in ring : /\ WaitsFor(d) \cap ring # {}
                                      /\ \E f \in ring : d \in WaitsFor(f)

(* The database ends a ring by the abort of one of it, which is rolled     *)
(* back and throws.                                                        *)
DeadlockVictim(c) ==
    /\ InRing(c)
    /\ RollsBack(c)
    /\ UNCHANGED <<txBegun, breaks>>

(* A statement fails, the connection or the process is lost.               *)
TxFails(c) ==
    /\ tx[c].at # "over" /\ breaks < MaxBreaks
    /\ breaks' = breaks + 1
    /\ RollsBack(c)
    /\ UNCHANGED txBegun
----------------------------------------------------------------------------
Orders == {o \in [1..Cardinality(PgAddons) -> PgAddons] :
              \A i, j \in DOMAIN o : i # j => o[i] # o[j]}

PgNext ==
    \E c \in Connections :
        \/ \E a \in PgAddons :
              \/ \E e \in {NoVersion} \cup 1..MaxCommits : BeginSave(c, a, e)
              \/ BeginRemove(c, a)
        \/ (\E o \in Orders : BeginReorder(c, o)) \/ BeginBump(c)
        \/ SelectForUpdate(c) \/ Upsert(c) \/ Delete(c) \/ UpdateOrder(c)
        \/ BumpMeta(c) \/ CommitTx(c) \/ DeadlockVictim(c) \/ TxFails(c)

PgSpec == PgInit /\ [][PgNext]_pgVars
----------------------------------------------------------------------------
PgTypeOK ==
    /\ rowVersion \in [PgAddons -> 0..MaxCommits] /\ pgRevision \in 0..MaxCommits
    /\ owner \in [PgRows -> Connections \cup {Nobody}]
    /\ \A c \in Connections : tx[c].at \in {"over", "select", "upsert", "delete",
                                            "update", "bump", "commit"}

(* The revision counts the transactions that committed a change, through   *)
(* rollbacks and lost connections; a save that expected a version never    *)
(* writes over another one; and since every transaction locks its addons   *)
(* before the revision, only two reorders can wait for each other.         *)
PgSound ==
    /\ pgRevision = mutated
    /\ ~clobbered
    /\ \A c \in Connections : InRing(c) => tx[c].op = "reorder"
=============================================================================
