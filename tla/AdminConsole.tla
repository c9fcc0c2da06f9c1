---------------------------- MODULE AdminConsole ----------------------------
(***************************************************************************)
(* The operator console (public/admin/app.js) against the management API:  *)
(* the list it shows, the revision it sends with If-Match, and its calls,  *)
(* which reach the server, and whose answers reach the page, in any order  *)
(* or not at all.  Somebody else changes the addons meanwhile.  The race   *)
(* of two requests inside the server is module AddonCatalog's.  The page   *)
(* shows the whole list: its filters, sorting and pages are left out.      *)
(***************************************************************************)
EXTENDS Integers, Sequences, FiniteSets, SequencesExt

CONSTANTS
    Rows,        \* addons
    MaxCalls,    \* bound: calls the console makes
    MaxForeign,  \* bound: changes by others
    MaxCuts      \* bound: lost messages and expired sessions

ASSUME ConsoleAssumption == IsFiniteSet(Rows)

VARIABLES
    server,        \* the server: revision, status and order of the addons, session
    page,        \* the console: state.revision, the rendered rows, state.actor
    calls,       \* the calls made, with their answers
    foreign,     \* history: revision of the last change by others, of each row
    blind,       \* history: a call of the console overwrote a change it had not seen
    ownRev,      \* history: revision of the last change by the console
    spanned,     \* history: an answer was lost, or a list was rendered between the
                 \* sending of a change and the answer to it that was older than it
    cuts

consoleVars == <<server, page, calls, foreign, blind, ownRev, spanned, cuts>>

(* Those of the list that are of the set, in their order.                  *)
OnlyOf(order, rows) ==
    LET kept[n \in 0..Len(order)] ==
            IF n = 0 THEN <<>>
            ELSE IF order[n] \in rows THEN Append(kept[n - 1], order[n]) ELSE kept[n - 1]
    IN  kept[Len(order)]

InOrder(s) == OnlyOf(s.order, {r \in Rows : s.status[r] # "gone"})

ConsoleInit ==
    /\ \E order \in {SetToSeq(Rows)} :
          /\ server = [rev |-> 1, status |-> [r \in Rows |-> "on"], order |-> order, session |-> TRUE]
          /\ page = [seen |-> 0, rev |-> 0, status |-> [r \in Rows |-> "gone"],
                     order |-> <<>>, signedIn |-> TRUE, renders |-> 0]
    /\ calls = <<>>
    /\ foreign = [r \in Rows |-> 0]
    /\ blind = FALSE /\ ownRev = 0 /\ spanned = FALSE /\ cuts = 0

Mutations == {"toggle", "move", "remove", "refresh"}
----------------------------------------------------------------------------
(* What the operator does.  buildHeaders() adds If-Match to every mutation *)
(* of /v1/addons once a revision is known: the newest one of any answer.   *)
AnyRow == CHOOSE r \in Rows : TRUE

NoCall == [kind |-> "none", row |-> AnyRow, value |-> <<>>, ifMatch |-> 0, base |-> 0,
           renders |-> 0, stage |-> "over", code |-> 0, rev |-> 0, answer |-> <<>>]

NewCall(kind, row, value) ==
    [NoCall EXCEPT !.kind = kind, !.row = row, !.value = value, !.stage = "sent",
                   !.ifMatch = IF kind \in Mutations THEN page.seen ELSE 0,
                   !.base = page.rev, !.renders = page.renders]

Send(call) ==
    /\ Len(calls) < MaxCalls
    /\ calls' = Append(calls, call)
    /\ UNCHANGED <<server, foreign, blind, ownRev, spanned, cuts>>

Shown == {r \in Rows : page.status[r] # "gone"}
Other(status) == IF status = "on" THEN "off" ELSE "on"

LoadAddons == Send(NewCall("list", AnyRow, <<>>)) /\ UNCHANGED page
InspectProvider(r) == r \in Shown /\ Send(NewCall("inspect", r, <<>>)) /\ UNCHANGED page
LoginWithToken ==
    /\ ~page.signedIn /\ Send(NewCall("login", AnyRow, <<>>)) /\ UNCHANGED page

(* The check box changes at once; a failure puts it back.                  *)
ToggleRow(r) ==
    /\ page.signedIn /\ r \in Shown
    /\ Send(NewCall("toggle", r, Other(page.status[r])))
    /\ page' = [page EXCEPT !.status[r] = Other(@)]

(* The order with the row at `from` taken out and put in at `to`.          *)
Moved(order, from, to) ==
    LET was(k) == CASE k = to -> from
                    [] from <= k /\ k < to -> k + 1
                    [] to < k /\ k <= from -> k - 1
                    [] OTHER -> k
    IN  [k \in DOMAIN order |-> order[was(k)]]

(* moveProvider() sends the order of the rows shown, one of them dragged.  *)
MoveProvider(from, to) ==
    /\ page.signedIn /\ {from, to} \subseteq DOMAIN page.order /\ from # to
    /\ Send(NewCall("move", AnyRow, Moved(page.order, from, to)))
    /\ UNCHANGED page

RemoveRow(r) ==
    page.signedIn /\ r \in Shown /\ Send(NewCall("remove", r, <<>>)) /\ UNCHANGED page
RefreshRow(r) ==
    page.signedIn /\ r \in Shown /\ Send(NewCall("refresh", r, <<>>)) /\ UNCHANGED page
----------------------------------------------------------------------------
(* The server.                                                             *)
AnswerWith(i, code, now) ==
    calls' = [calls EXCEPT ![i].stage = "answered", ![i].code = code, ![i].rev = now.rev,
                           ![i].answer = IF calls[i].kind = "list" THEN <<now>> ELSE <<>>]

(* What a mutation makes of the addons.  Refresh reads the manifest anew.  *)
Mutated(call) ==
    LET next == [server EXCEPT !.rev = @ + 1] IN
    CASE call.kind = "toggle" -> [next EXCEPT !.status[call.row] = call.value]
      [] call.kind = "remove" -> [next EXCEPT !.status[call.row] = "gone"]
      [] call.kind = "move" ->
            [next EXCEPT !.order = call.value \o OnlyOf(@, Rows \ ToSet(call.value))]
      [] OTHER -> next

(* BUG: the revision in If-Match is not compared.                          *)
StaleUnchecked(call) == FALSE

(* checkOptimisticConcurrency(): an absent revision passes.                *)
Stale(call) == call.ifMatch > 0 /\ call.ifMatch # server.rev

Refusal(call) ==
    CASE call.kind = "login" -> 200
      [] call.kind # "login" /\ ~server.session -> 401
      [] server.session /\ call.kind \in Mutations /\ Stale(call) -> 412
      [] server.session /\ call.kind \in Mutations \ {"move"} /\ ~Stale(call)
            /\ server.status[call.row] = "gone" -> 404
      [] OTHER -> 200

Serve(i) ==
    LET call == calls[i]  code == Refusal(call) IN
    /\ call.stage = "sent"
    /\ IF code = 200 /\ call.kind \in Mutations
       THEN /\ server' = Mutated(call)
            /\ blind' = (blind \/ \E r \in Rows : foreign[r] > call.base)
            /\ ownRev' = server.rev + 1
            /\ spanned' = (spanned \/ call.renders # page.renders)
       ELSE /\ server' = [server EXCEPT !.session = @ \/ call.kind = "login"]
            /\ UNCHANGED <<blind, ownRev, spanned>>
    /\ AnswerWith(i, code, server')
    /\ UNCHANGED <<page, foreign, cuts>>

Foreigners == Cardinality({r \in Rows : foreign[r] > 0})

(* Another operator, or a job, enables, disables or removes an addon.      *)
OthersChange(r, to) ==
    /\ Foreigners < MaxForeign /\ foreign[r] = 0
    /\ server.status[r] \notin {"gone", to}
    /\ server' = [server EXCEPT !.rev = @ + 1, !.status[r] = to]
    /\ foreign' = [foreign EXCEPT ![r] = server.rev + 1]
    /\ UNCHANGED <<page, calls, blind, ownRev, spanned, cuts>>

Cut == cuts < MaxCuts /\ cuts' = cuts + 1

SessionExpires ==
    /\ server.session /\ Cut
    /\ server' = [server EXCEPT !.session = FALSE]
    /\ UNCHANGED <<page, calls, foreign, blind, ownRev, spanned>>
----------------------------------------------------------------------------
(* The answers.  api() raises the revision to that of the answer's header, *)
(* whatever the call was.                                                  *)
Raised(i) == [page EXCEPT !.seen = IF calls[i].rev > @ THEN calls[i].rev ELSE @]

(* The handler of a failed toggle puts the box of its own row element      *)
(* back; a list rendered since has replaced that element.                  *)
PutBack(call, p) ==
    IF call.kind = "toggle" /\ call.renders = p.renders
    THEN [p EXCEPT !.status[call.row] = Other(call.value)] ELSE p

Over(i) == [calls EXCEPT ![i] = NoCall]

(* refreshCurrentTab() or loadAddons() at the end of a handler.            *)
ThenLoad(i) ==
    /\ Len(calls) < MaxCalls
    /\ calls' = Append(Over(i), NewCall("list", AnyRow, <<>>))

(* loadAddons() renders what it got and takes over its revision, also when *)
(* an older answer overtakes a newer one.                                  *)
Rendered(now) ==
    [page EXCEPT !.rev = now.rev, !.seen = now.rev, !.order = InOrder(now),
                 !.status = now.status, !.renders = @ + 1]

Succeeds(i) ==
    LET call == calls[i] IN
    /\ call.stage = "answered" /\ call.code = 200
    /\ CASE call.kind = "list" -> page' = Rendered(call.answer[1]) /\ calls' = Over(i)
         [] call.kind = "login" -> page' = [page EXCEPT !.signedIn = TRUE] /\ ThenLoad(i)
         [] call.kind \in {"move", "remove", "refresh"} -> page' = Raised(i) /\ ThenLoad(i)
         [] OTHER -> page' = Raised(i) /\ calls' = Over(i)
    /\ spanned' = (spanned \/ (call.kind = "list" /\ call.rev < ownRev))
    /\ UNCHANGED <<server, foreign, blind, ownRev, cuts>>

(* 401 opens the sign-in dialogue, 412 loads the list again.               *)
Fails(i) ==
    LET call == calls[i] IN
    /\ call.stage = "answered" /\ call.code # 200
    /\ page' = [PutBack(call, Raised(i)) EXCEPT !.signedIn = @ /\ call.code # 401]
    /\ IF call.code = 412 THEN ThenLoad(i) ELSE calls' = Over(i)
    /\ UNCHANGED <<server, foreign, blind, ownRev, spanned, cuts>>

(* The request or its answer is lost: the console cannot know which.       *)
Offline(i) ==
    /\ calls[i].stage # "over" /\ Cut
    /\ page' = PutBack(calls[i], page)
    /\ calls' = Over(i)
    /\ spanned' = TRUE
    /\ UNCHANGED <<server, foreign, blind, ownRev>>
----------------------------------------------------------------------------
ConsoleNext ==
    \/ LoadAddons \/ LoginWithToken \/ SessionExpires
    \/ \E r \in Rows :
          \/ InspectProvider(r) \/ ToggleRow(r) \/ RemoveRow(r) \/ RefreshRow(r)
          \/ \E to \in {"on", "off", "gone"} : OthersChange(r, to)
    \/ \E from, to \in 1..Cardinality(Rows) : MoveProvider(from, to)
    \/ \E i \in 1..Len(calls) : Serve(i) \/ Succeeds(i) \/ Fails(i) \/ Offline(i)

ConsoleSpec == ConsoleInit /\ [][ConsoleNext]_consoleVars
----------------------------------------------------------------------------
Statuses == [Rows -> {"on", "off", "gone"}]

ConsoleTypeOK ==
    /\ server.status \in Statuses /\ page.status \in Statuses
    /\ IsInjective(server.order) /\ Range(server.order) = Rows
    /\ IsInjective(page.order) /\ Range(page.order) = Shown
    /\ page.rev <= page.seen /\ page.seen <= server.rev

(* When every call is over, the boxes and the order on the page are those  *)
(* of the server, up to what others changed after the list was made:       *)
(* through toggles in quick succession, conflicts, an ended session and    *)
(* reloads, unless an answer was lost or an older list was rendered over a *)
(* change that was under way.                                              *)
ShownIsTrue ==
    (\A i \in 1..Len(calls) : calls[i].stage = "over") /\ page.signedIn /\ page.rev > 0
        /\ ~spanned /\ (\A r \in Rows : foreign[r] <= page.rev)
    => page.status = server.status /\ page.order = InOrder(server)

(* public/admin/app.js:6: "Optimistic concurrency on mutations": a change  *)
(* is not applied over one its operator has not been shown.                *)
NoBlindWrite == ~blind
=============================================================================
