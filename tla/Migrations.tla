------------------------------ MODULE Migrations ------------------------------
(***************************************************************************)
(* The start of the Postgres backend: init() of                            *)
(* src/storage/postgres/index.ts with runMigrations() of                   *)
(* src/storage/migrations/index.ts, by several replicas at once.  Every    *)
(* statement is a transaction of its own; a replica may die between two of *)
(* them, which frees its advisory lock, and starts again.                  *)
(***************************************************************************)
EXTENDS Integers, FiniteSets

CONSTANTS
    Starters,      \* replicas
    Versions,      \* 1..n: the migrations, in order
    Statements,    \* statements of each
    MaxBootDeaths  \* bound: replicas that die, or lose the database, in init()

ASSUME MigrationAssumption == Versions \subseteq Nat /\ Statements \in Nat \ {0}

VARIABLES
    ran,        \* version -> its statements that have run at least once
    recorded,   \* version -> rows of it in schema_migrations
    hasMeta,    \* the revision row is there
    boot,       \* replica -> step, versions it saw, migration and statement it is at
    bootDeaths

bootVars == <<ran, recorded, hasMeta, boot, bootDeaths>>

NotStarted == [step |-> "down", saw |-> {}, at |-> 0, next |-> 1]

BootInit ==
    /\ ran = [v \in Versions |-> 0] /\ recorded = [v \in Versions |-> 0]
    /\ hasMeta = FALSE
    /\ boot = [s \in Starters |-> NotStarted] /\ bootDeaths = 0
----------------------------------------------------------------------------
LockHolders == {s \in Starters : boot[s].step \in {"locked", "migrating"}}
Applied == {v \in Versions : recorded[v] > 0}
Least(S) == CHOOSE v \in S : \A w \in S : v <= w
ToDo(s) == {v \in Versions \ boot[s].saw : v > boot[s].at}

Start(s) ==
    /\ boot[s].step = "down"
    /\ boot' = [boot EXCEPT ![s].step = "waiting"]
    /\ UNCHANGED <<ran, recorded, hasMeta, bootDeaths>>

(* BUG: the advisory lock is not waited for.                               *)
LockAnyway(s) ==
    /\ boot[s].step = "waiting"
    /\ boot' = [boot EXCEPT ![s].step = "locked"]
    /\ UNCHANGED <<ran, recorded, hasMeta, bootDeaths>>

AdvisoryLock(s) ==
    /\ boot[s].step = "waiting" /\ LockHolders = {}
    /\ boot' = [boot EXCEPT ![s].step = "locked"]
    /\ UNCHANGED <<ran, recorded, hasMeta, bootDeaths>>

(* The versions applied are read once; the first one missing comes next.   *)
ReadApplied(s) ==
    /\ boot[s].step = "locked"
    /\ boot' = [boot EXCEPT ![s].step = IF Versions \subseteq Applied THEN "migrated" ELSE "migrating",
                            ![s].saw = Applied,
                            ![s].at = IF Versions \subseteq Applied THEN 0
                                      ELSE Least(Versions \ Applied)]
    /\ UNCHANGED <<ran, recorded, hasMeta, bootDeaths>>

RunStatement(s) ==
    LET b == boot[s] IN
    /\ b.step = "migrating" /\ b.next <= Statements
    /\ ran' = [ran EXCEPT ![b.at] = IF @ < b.next THEN b.next ELSE @]
    /\ boot' = [boot EXCEPT ![s].next = @ + 1]
    /\ UNCHANGED <<recorded, hasMeta, bootDeaths>>

Onward(s) ==
    boot' = [boot EXCEPT ![s] =
                IF ToDo(s) = {} THEN [@ EXCEPT !.step = "migrated"]
                ELSE [@ EXCEPT !.at = Least(ToDo(s)), !.next = 1]]

(* BUG: the version is recorded before its last statement.                 *)
RecordEarly(s) ==
    LET b == boot[s] IN
    /\ b.step = "migrating" /\ b.next >= Statements
    /\ recorded' = [recorded EXCEPT ![b.at] = @ + 1]
    /\ Onward(s)
    /\ UNCHANGED <<ran, hasMeta, bootDeaths>>

(* A second row of a version would break the primary key.                  *)
Record(s) ==
    LET b == boot[s] IN
    /\ b.step = "migrating" /\ b.next > Statements
    /\ recorded' = [recorded EXCEPT ![b.at] = @ + 1]
    /\ Onward(s)
    /\ UNCHANGED <<ran, hasMeta, bootDeaths>>

(* After the unlock: the revision row, if it is missing.                   *)
InitMeta(s) ==
    /\ boot[s].step = "migrated"
    /\ hasMeta' = TRUE
    /\ boot' = [boot EXCEPT ![s] = [NotStarted EXCEPT !.step = "serving"]]
    /\ UNCHANGED <<ran, recorded, bootDeaths>>

BootDies(s) ==
    /\ boot[s].step # "down" /\ bootDeaths < MaxBootDeaths
    /\ bootDeaths' = bootDeaths + 1
    /\ boot' = [boot EXCEPT ![s] = NotStarted]
    /\ UNCHANGED <<ran, recorded, hasMeta>>
----------------------------------------------------------------------------
BootNext ==
    \E s \in Starters :
        \/ Start(s) \/ AdvisoryLock(s) \/ ReadApplied(s) \/ RunStatement(s)
        \/ Record(s) \/ InitMeta(s) \/ BootDies(s)

BootSpec == BootInit /\ [][BootNext]_bootVars
----------------------------------------------------------------------------
BootTypeOK ==
    /\ ran \in [Versions -> 0..Statements] /\ recorded \in [Versions -> Nat]
    /\ \A s \in Starters :
          boot[s].step \in {"down", "waiting", "locked", "migrating", "migrated", "serving"}

(* A replica serves from a whole schema, migrations are recorded in order, *)
(* each once and none before all of its statements have run, through       *)
(* simultaneous starts and deaths in the middle of a migration.            *)
SchemaWhole ==
    /\ \A v \in Versions : /\ recorded[v] <= 1
                           /\ recorded[v] = 1 => ran[v] = Statements
                           /\ ran[v] > 0 => \A w \in Versions : w < v => recorded[w] = 1
    /\ (\E s \in Starters : boot[s].step = "serving") => hasMeta /\ Applied = Versions
=============================================================================
