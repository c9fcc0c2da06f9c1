------------------------------ MODULE FileStore ------------------------------
(***************************************************************************)
(* The file storage backend (src/storage/file/index.ts): one object in     *)
(* memory, changed by one caller at a time and written as a whole to a     *)
(* temporary file that is then renamed over the file.  close() writes as   *)
(* well, without waiting for its turn.  A write may fail, the process may  *)
(* die between two steps, and the file may be unreadable at a start.       *)
(*                                                                         *)
(* The job operations of the backend are in JobStore, its outbox in        *)
(* Outbox.  No caller passes an expected version; the audit trail, the     *)
(* debrid settings and the health records change no property here.         *)
(***************************************************************************)
EXTENDS Integers, Sequences, FiniteSets

CONSTANTS
    Writers,       \* callers of the storage
    StoredAddons,  \* provider ids
    StoredGrants,  \* playback grants
    MaxWrites,     \* bound: mutations, and so versions and the revision
    MaxDiskFaults, \* bound: failing writes and unreadable files
    MaxDeaths      \* bound: process starts after the first

ASSUME FileStoreAssumption ==
    /\ IsFiniteSet(Writers) /\ MaxWrites \in Nat
    /\ MaxDiskFaults \in Nat /\ MaxDeaths \in Nat

VARIABLES
    data,     \* the object in memory; `n` counts its changes (history)
    file,     \* the object last renamed over the file
    line,     \* callers in runExclusive, in order: the first has its turn
    writer,   \* each caller: step it is at, and its snapshot
    closing,  \* close(): step it is at, and its snapshot
    told,     \* history: latest change a caller was told of
    lost,     \* history: the file was unreadable, or close() was overtaken
    faultsLeft, deaths

fileStoreVars == <<data, file, line, writer, closing, told, lost, faultsLeft, deaths>>

EmptyStore == [n |-> 0, revision |-> 0, version |-> [a \in StoredAddons |-> 0], grants |-> {}]

Quiet == [step |-> "idle", snap |-> EmptyStore]

StoreInit ==
    /\ data = EmptyStore /\ file = EmptyStore
    /\ line = <<>> /\ writer = [w \in Writers |-> Quiet] /\ closing = Quiet
    /\ told = 0 /\ lost = FALSE
    /\ faultsLeft = MaxDiskFaults /\ deaths = 0
----------------------------------------------------------------------------
(* What the operations make of the object.  A version of 0: no record.     *)
BumpRevision(d) == [d EXCEPT !.revision = @ + 1]

SaveAddon(d, a) == [BumpRevision(d) EXCEPT !.version[a] = @ + 1]

RemoveAddon(d, a) == IF d.version[a] = 0 THEN d ELSE [BumpRevision(d) EXCEPT !.version[a] = 0]

ReorderAddons(d) ==
    [BumpRevision(d) EXCEPT
        !.version = [a \in StoredAddons |-> IF @[a] = 0 THEN 0 ELSE @[a] + 1]]

SaveGrant(d, g) == [d EXCEPT !.grants = @ \cup {g}]

RevokeGrant(d, g) == [d EXCEPT !.grants = @ \ {g}]

(* Those that have expired: any of them.                                   *)
CleanupExpiredGrants(d, expired) == [d EXCEPT !.grants = @ \ expired]

Outcomes(d) ==
    {BumpRevision(d), ReorderAddons(d)}
    \cup {SaveAddon(d, a) : a \in StoredAddons} \cup {RemoveAddon(d, a) : a \in StoredAddons}
    \cup {SaveGrant(d, g) : g \in StoredGrants} \cup {RevokeGrant(d, g) : g \in StoredGrants}
    \cup {CleanupExpiredGrants(d, expired) : expired \in SUBSET StoredGrants}
----------------------------------------------------------------------------
(* BUG: the callers do not wait for each other.                            *)
HasTurnAtOnce(w) == writer[w].step # "idle"

(* runExclusive(): a call begins when the one before it is settled,        *)
(* whether it succeeded or not.                                            *)
HasTurn(w) == line # <<>> /\ Head(line) = w

Leaves(w) == /\ line' = Tail(line)
             /\ writer' = [writer EXCEPT ![w] = Quiet]

Call(w) ==
    /\ writer[w].step = "idle"
    /\ line' = Append(line, w)
    /\ writer' = [writer EXCEPT ![w].step = "called"]
    /\ UNCHANGED <<data, file, closing, told, lost, faultsLeft, deaths>>

(* The turn comes: the object is changed, and readers see it, before       *)
(* anything is written.  A call that finds nothing to do is answered.      *)
Change(w) ==
    /\ writer[w].step = "called" /\ HasTurn(w) /\ data.n < MaxWrites
    /\ \E d \in Outcomes(data) :
          IF d = data THEN Leaves(w) /\ UNCHANGED data
          ELSE /\ data' = [d EXCEPT !.n = @ + 1]
               /\ writer' = [writer EXCEPT ![w].step = "changed"]
               /\ UNCHANGED line
    /\ UNCHANGED <<file, closing, told, lost, faultsLeft, deaths>>

(* persist(): the object is turned to text after the directory was made.   *)
Snapshot(w) ==
    /\ writer[w].step = "changed" /\ HasTurn(w)
    /\ writer' = [writer EXCEPT ![w] = [step |-> "written", snap |-> data]]
    /\ UNCHANGED <<data, file, line, closing, told, lost, faultsLeft, deaths>>

(* The rename, and the caller is told.                                     *)
Rename(w) ==
    /\ writer[w].step = "written" /\ HasTurn(w)
    /\ file' = writer[w].snap
    /\ told' = IF told < writer[w].snap.n THEN writer[w].snap.n ELSE told
    /\ Leaves(w)
    /\ UNCHANGED <<data, closing, lost, faultsLeft, deaths>>

(* The write fails and so does the call, but what it changed stays.        *)
WriteFails(w) ==
    /\ writer[w].step \in {"changed", "written"} /\ HasTurn(w)
    /\ faultsLeft > 0 /\ faultsLeft' = faultsLeft - 1
    /\ Leaves(w)
    /\ UNCHANGED <<data, file, closing, told, lost, deaths>>
----------------------------------------------------------------------------
Close ==
    /\ closing.step = "idle"
    /\ closing' = [step |-> "written", snap |-> data]
    /\ UNCHANGED <<data, file, line, writer, told, lost, faultsLeft, deaths>>

(* A write that was answered since the snapshot of close() is undone.      *)
CloseRenames ==
    /\ closing.step = "written"
    /\ file' = closing.snap /\ closing' = [Quiet EXCEPT !.step = "changed"]
    /\ lost' = (lost \/ closing.snap.n < told)
    /\ UNCHANGED <<data, line, writer, told, faultsLeft, deaths>>

(* load(): the file is read.  One that cannot be read or parsed is taken   *)
(* for an empty one, and is written over.                                  *)
ProcessStarts(readable) ==
    /\ deaths < MaxDeaths /\ deaths' = deaths + 1
    /\ data' = IF readable THEN file ELSE EmptyStore
    /\ file' = data'
    /\ told' = IF readable THEN told ELSE 0
    /\ readable \/ faultsLeft > 0
    /\ faultsLeft' = IF readable THEN faultsLeft ELSE faultsLeft - 1
    /\ lost' = (lost \/ ~readable)
    /\ line' = <<>> /\ writer' = [w \in Writers |-> Quiet] /\ closing' = Quiet
----------------------------------------------------------------------------
StoreNext ==
    \/ \E w \in Writers : Call(w) \/ Change(w) \/ Snapshot(w) \/ Rename(w) \/ WriteFails(w)
    \/ Close \/ CloseRenames
    \/ \E readable \in BOOLEAN : ProcessStarts(readable)

StoreSpec == StoreInit /\ [][StoreNext]_fileStoreVars
----------------------------------------------------------------------------
StoreTypeOK ==
    /\ \A w \in Writers : writer[w].step \in {"idle", "called", "changed", "written"}
    /\ data.n \in 0..MaxWrites /\ told \in 0..MaxWrites /\ faultsLeft \in 0..MaxDiskFaults
    /\ \A a \in StoredAddons : data.version[a] \in 0..data.revision

(* What a caller was told is in the file, through crashes and failing      *)
(* writes, unless the file was unreadable or close() overtook a writer;    *)
(* and the file is never of a later state than the memory of the process   *)
(* that serves from it.                                                    *)
AckedSurvive == lost \/ (told <= file.n /\ file.n <= data.n)
=============================================================================
