----------------------------- MODULE MediaIdentity -----------------------------
(***************************************************************************)
(* The media identities (src/media/mediaIdentity.ts): a positive cache of  *)
(* bounded size, a negative one of what TMDB does not know, and requests   *)
(* that miss both and ask TMDB, each on its own.  Time passes in ticks;    *)
(* the time-out of a call ends it within FetchTime of them.                *)
(***************************************************************************)
EXTENDS Integers, Sequences, FiniteSets, SequencesExt

CONSTANTS
    Titles,        \* media keys that pass the validation
    Viewers,       \* requests under way
    Identities,    \* what TMDB may say of a key
    Unknown,       \* ... or that it does not know it
    MostTitles,    \* size of the positive cache: 1000
    PosTtl, NegTtl, FetchTime,
    MaxHour,       \* bound: ticks
    MaxEdits,      \* bound: changes at TMDB
    MaxClears      \* bound: clearCache()

ASSUME MediaAssumption ==
    /\ Unknown \notin Identities /\ MostTitles \in Nat \ {0}
    /\ PosTtl \in Nat /\ NegTtl \in Nat /\ FetchTime \in Nat

Replies == Identities \cup {Unknown}

VARIABLES
    tmdb,       \* what TMDB says of each key now
    editedAt,   \* key -> tick of the last change of that
    known,      \* the positive cache: its keys in the order of insertion
    entry,      \* key -> value and tick of expiry
    missing,    \* key -> tick the negative entry expires at, 0 for none
    view,       \* request -> its key, step, start and what TMDB told it
    hour, edits, clears,
    wrong       \* history: an answer was older than it may be

mediaVars == <<tmdb, editedAt, known, entry, missing, view, hour, edits, clears, wrong>>

AnyTitle == CHOOSE t \in Titles : TRUE
NoView == [step |-> "idle", title |-> AnyTitle, since |-> 0, told |-> Unknown]
NoIdentity == [value |-> Unknown, until |-> 0]

MediaInit ==
    /\ tmdb = [t \in Titles |-> Unknown] /\ editedAt = [t \in Titles |-> 0]
    /\ known = <<>> /\ entry = [t \in Titles |-> NoIdentity]
    /\ missing = [t \in Titles |-> 0]
    /\ view = [v \in Viewers |-> NoView]
    /\ hour = 0 /\ edits = 0 /\ clears = 0 /\ wrong = FALSE
----------------------------------------------------------------------------
FreshIdentity(t) == t \in ToSet(known) /\ hour < entry[t].until

(* An answer that TMDB gave no more than `age` ticks ago.                  *)
Owed(t, value, age) == value = tmdb[t] \/ hour - editedAt[t] <= age

TellsInTime(t, value, age) == wrong' = (wrong \/ ~Owed(t, value, age))

(* resolve(): the positive cache, the negative cache, or a call.           *)
ResolveMedia(v, t) ==
    /\ view[v].step = "idle"
    /\ IF FreshIdentity(t)
       THEN TellsInTime(t, entry[t].value, PosTtl + FetchTime) /\ UNCHANGED view
       ELSE IF hour < missing[t]
       THEN TellsInTime(t, Unknown, NegTtl + FetchTime) /\ UNCHANGED view
       ELSE /\ view' = [view EXCEPT ![v] = [NoView EXCEPT !.step = "calling", !.title = t,
                                                          !.since = hour]]
            /\ UNCHANGED wrong
    /\ UNCHANGED <<tmdb, editedAt, known, entry, missing, hour, edits, clears>>

(* tmdbFetch(): TMDB answers, once.                                        *)
TmdbReplies(v) ==
    /\ view[v].step = "calling"
    /\ view' = [view EXCEPT ![v].step = "told", ![v].told = tmdb[view[v].title]]
    /\ UNCHANGED <<tmdb, editedAt, known, entry, missing, hour, edits, clears, wrong>>

(* A key that was there keeps its place; one too many, and the oldest goes.*)
Stored(t) ==
    LET keys == IF t \in ToSet(known) THEN known ELSE Append(known, t)
    IN  IF Len(keys) > MostTitles THEN Tail(keys) ELSE keys

(* 200: the newest answer replaces one found before.                       *)
IdentityFound(v) ==
    LET t == view[v].title IN
    /\ view[v].step = "told" /\ view[v].told # Unknown
    /\ known' = Stored(t)
    /\ entry' = [entry EXCEPT ![t] = [value |-> view[v].told, until |-> hour + PosTtl]]
    /\ TellsInTime(t, view[v].told, FetchTime)
    /\ view' = [view EXCEPT ![v] = NoView]
    /\ UNCHANGED <<tmdb, editedAt, missing, hour, edits, clears>>

(* 404: remembered for a short while, whatever the positive cache holds.   *)
IdentityMissing(v) ==
    LET t == view[v].title IN
    /\ view[v].step = "told" /\ view[v].told = Unknown
    /\ missing' = [missing EXCEPT ![t] = hour + NegTtl]
    /\ TellsInTime(t, Unknown, FetchTime)
    /\ view' = [view EXCEPT ![v] = NoView]
    /\ UNCHANGED <<tmdb, editedAt, known, entry, hour, edits, clears>>

(* BUG: whatever goes wrong is remembered as missing.                      *)
CallFailsMarked(v) ==
    /\ view[v].step \in {"calling", "told"}
    /\ missing' = [missing EXCEPT ![view[v].title] = hour + NegTtl]
    /\ view' = [view EXCEPT ![v] = NoView]
    /\ UNCHANGED <<tmdb, editedAt, known, entry, hour, edits, clears, wrong>>

(* Time-out, abort, HTTP or JSON error: nothing is remembered.             *)
CallFails(v) ==
    /\ view[v].step \in {"calling", "told"}
    /\ view' = [view EXCEPT ![v] = NoView]
    /\ UNCHANGED <<tmdb, editedAt, known, entry, missing, hour, edits, clears, wrong>>

ClearCache ==
    /\ clears < MaxClears /\ clears' = clears + 1
    /\ known' = <<>> /\ entry' = [t \in Titles |-> NoIdentity]
    /\ missing' = [t \in Titles |-> 0]
    /\ UNCHANGED <<tmdb, editedAt, view, hour, edits, wrong>>
----------------------------------------------------------------------------
TmdbEdits(t, value) ==
    /\ edits < MaxEdits /\ value # tmdb[t]
    /\ edits' = edits + 1
    /\ tmdb' = [tmdb EXCEPT ![t] = value]
    /\ editedAt' = [editedAt EXCEPT ![t] = hour]
    /\ UNCHANGED <<known, entry, missing, view, hour, clears, wrong>>

(* No call outlives its time-out.                                          *)
HourPasses ==
    /\ hour < MaxHour
    /\ \A v \in Viewers : view[v].step # "idle" => hour < view[v].since + FetchTime
    /\ hour' = hour + 1
    /\ UNCHANGED <<tmdb, editedAt, known, entry, missing, view, edits, clears, wrong>>

MediaNext ==
    \/ \E v \in Viewers :
          \/ \E t \in Titles : ResolveMedia(v, t)
          \/ TmdbReplies(v) \/ IdentityFound(v) \/ IdentityMissing(v) \/ CallFails(v)
    \/ ClearCache \/ HourPasses
    \/ \E t \in Titles, value \in Replies : TmdbEdits(t, value)

MediaSpec == MediaInit /\ [][MediaNext]_mediaVars
----------------------------------------------------------------------------
MediaTypeOK ==
    /\ tmdb \in [Titles -> Replies]
    /\ \A t \in Titles : entry[t].value \in Replies
    /\ \A v \in Viewers : view[v].step \in {"idle", "calling", "told"} /\ view[v].told \in Replies

(* An identity is what TMDB said no longer ago than the entry may live and *)
(* a call may take, and "not found" is answered only when TMDB said so     *)
(* within the short time: through concurrent calls for one key whose       *)
(* answers come in any order, evictions and clears.  The cache never       *)
(* outgrows its size and holds no key twice.                               *)
IdentitySound ==
    /\ ~wrong
    /\ Len(known) <= MostTitles /\ IsInjective(known)
    /\ \A t \in ToSet(known) : entry[t].value # Unknown
=============================================================================
