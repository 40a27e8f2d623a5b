----------------------------- MODULE ParentConsole -----------------------------
(***************************************************************************)
(* The parent console (web/parent/app.js): one page that keeps a session   *)
(* in localStorage, watches the asks of a family on a long poll, answers   *)
(* them, and shows cards of what the family has.  Its functions are        *)
(* asynchronous: each awaits API calls one after the other, and they       *)
(* interleave at every await with each other and with the parent's taps.   *)
(* Of the API this is what the console sees: the rows it lists, adds and   *)
(* removes, whom it refuses, and the feed of asks.                         *)
(***************************************************************************)
EXTENDS Integers, FiniteSets, Sequences

CONSTANTS Family, Id, Session, None, Settings,
          Field           \* the ids of the rows that stand for closed defaults

Card == {"asks", "children", "rules", "grants", "defaults", "devices", "passkeys"}

\* A row the API lists.  A row of "defaults" is a default that is closed; a passkey
\* is the user's, and in the lists of every family.
Item == [card : Card \ {"passkeys"}, family : Family, id : Id]
        \cup [card : {"passkeys"}, family : {None}, id : Id]

\* What proves who asks: of a session, or half of a sign-in that needs a passkey.
Token == [session : Session \cup {None}, era : Nat]

\* What the parent taps, how often, and whether each tap waits for what came before
\* to finish; what others do meanwhile (answer asks, end the session); how often a
\* request is lost or meets trouble; how often tokens run out; whether signing in
\* needs a passkey; the cards that are loaded; what there is at first, and which
\* asks are filed later.
ASSUME ConsoleAssumption ==
    /\ IsFiniteSet(Item) /\ Field \subseteq Id
    /\ None \notin Family \cup Session \cup Item /\ None \notin Token
    /\ \A s \in Settings :
          /\ DOMAIN s = {"taps", "limit", "patient", "others", "mishaps", "eras",
                        "passkey", "cards", "rows", "asks", "signedIn"}
          /\ {s.limit, s.mishaps, s.eras} \subseteq Nat
          /\ s.rows \cup s.asks \subseteq Item /\ \A i \in s.asks : i.card = "asks"
          /\ s.cards \subseteq Card \ {"asks"} /\ ("default" \in s.taps => "defaults" \in s.cards)
          /\ s.signedIn => Session # {}

VARIABLES
    \* The server.
    rows,           \* what the API would list
    mine,           \* the families of the parent
    open, begun,    \* the sessions that are live, and all that began
    era,            \* access and half-finished tokens of an earlier era have run out
    codes,          \* mailed codes nobody has used yet
    \* localStorage, which the page's state mirrors.
    token, refresh, family,
    \* The page.
    panel,          \* what is on screen
    mfa,            \* pendingMfaToken
    shown,          \* card |-> the family it is of (None: "couldn't load") and its rows
    picked, row,    \* the defaults selected on screen, and the row they were loaded from
    lastCount,
    undo,           \* what the Undo of the toast would delete
    busy,           \* asks whose card takes no taps
    jobs,           \* the asynchronous functions under way
    \* Bounds, and history that no action decides by.
    setting, tapped, mishaps,
    asked,          \* asks filed so far
    made, dropped   \* rows the server has made and deleted

server  == <<rows, mine, open, begun, era, codes, asked, made, dropped>>
storage == <<token, refresh, family>>
page    == <<panel, mfa, shown, picked, row, lastCount, undo, busy>>
bounds  == <<setting, tapped, mishaps>>
vars    == <<server, storage, page, jobs, bounds>>

-----------------------------------------------------------------------------
(* The functions of the page: the API calls each awaits, in order. *)

afterLogin           == <<"me", "select", "picker">>
register             == <<"register">>
login                == <<"login">> \o afterLogin
usePasskey           == <<"passkeyOptions", "passkeyLogin">> \o afterLogin
forgot               == <<"forgot">>
reset                == <<"reset">> \o afterLogin
completeConfirmation == <<"verify">> \o afterLogin
selectFamily         == <<"select", "picker">>
createFamily         == <<"createFamily">> \o afterLogin \o <<"selectMade", "picker">>
addChild             == <<"create", "children">>
enrollDevice         == <<"enroll">>
addRule              == <<"create", "rules">>
removeRule           == <<"delete", "rules">>
revokeGrant          == <<"delete", "grants">>
removeDevice         == <<"delete", "devices">>
removePasskey        == <<"delete", "passkeys">>
addPasskey           == <<"passkeyCreation", "create", "passkeys">>
saveDefault          == <<"put">>
signout              == <<"logout">>
closeAccount         == <<"deleteMe">>

\* The calls that carry no access token, and those api() does not renew it for.
SignIns   == {"login", "passkeyLogin", "reset", "verify"}
NoAuth    == SignIns \cup {"register", "forgot", "passkeyOptions"}

\* A call of a function fn: what it is about, what it makes, whether that is a
\* standing decision, the row a PUT replaces; then the request under way.
Blank == [fn |-> "none", n |-> 1, todo |-> <<>>, arg |-> None, made |-> None,
          standing |-> FALSE, row |-> {}, next |-> {},
          stage |-> "out", try |-> "first", token |-> None, family |-> None,
          known |-> -1, status |-> "ok", items |-> {}, gets |-> None]

\* The request that comes next, with the state of the page as it will be.
Sent(j, todo) ==
    [j EXCEPT !.todo = todo, !.stage = "out", !.try = "first",
              !.token = IF Head(todo) \in {"passkeyOptions", "passkeyLogin"} THEN mfa' ELSE token',
              !.family = family', !.known = lastCount', !.status = "ok",
              !.items = {}, !.gets = None]

Call(fn, todo) ==
    LET n == CHOOSE k \in 1..(Cardinality(jobs) + 1) : \A j \in jobs : j.fn = fn => j.n # k
    IN  Sent([Blank EXCEPT !.fn = fn, !.n = n], todo)

Rest(j) == IF Tail(j.todo) = <<>> THEN {} ELSE {Sent(j, Tail(j.todo))}

\* j goes on, and starts calls it does not wait for.
GoOn(j, others) == jobs' = (jobs \ {j}) \cup Rest(j) \cup others
End(j, others)  == jobs' = (jobs \ {j}) \cup others

Load(cards) == {Call(c, <<c>>) : c \in cards \cap setting.cards}

-----------------------------------------------------------------------------
(* What the API does with a request. *)

Valid(t) == t # None /\ t.session \in open /\ t.era = era

ListOf(card, f) == {i \in rows : i.card = card /\ (card = "passkeys" \/ i.family = f)}

Answer(j, status, items, gets) ==
    jobs' = (jobs \ {j}) \cup
            {[j EXCEPT !.stage = "back", !.token = None, !.status = status,
                       !.items = items, !.gets = gets]}

Ok(j) == Answer(j, "ok", {}, None)

Asking(j, requests) == j.stage = "out" /\ j.try # "refresh" /\ Head(j.todo) \in requests

\* requireUser.
Authorized(j, requests) == Asking(j, requests) /\ Valid(j.token)

\* The token of a sign-in that waits for a passkey.
Half(t) == t # None /\ t.era = era

Refuse(j) ==
    /\ j.stage = "out" /\ j.try # "refresh"
    /\ \/ Head(j.todo) \notin NoAuth /\ ~Valid(j.token)
       \/ Head(j.todo) = "passkeyOptions" /\ ~Half(j.token)
    /\ Answer(j, "401", {}, None)
    /\ UNCHANGED server

HandleRefresh(j) ==
    /\ j.stage = "out" /\ j.try = "refresh"
    /\ IF j.token.session \in open
         THEN Answer(j, "ok", {}, [session |-> j.token.session, era |-> era])
         ELSE jobs' = (jobs \ {j}) \cup {[j EXCEPT !.stage = "back", !.status = "401"]}
    /\ UNCHANGED server

\* A session begins, unless the password is only half of it.
HandleSignIn(j) ==
    LET s == CHOOSE x \in Session : x \notin begun
        request == Head(j.todo)
        refused == \/ request \in {"reset", "verify"} /\ request \notin codes
                   \/ request = "passkeyLogin" /\ ~Half(j.token)
        half == request = "login" /\ setting.passkey
    IN
    /\ Asking(j, SignIns)
    /\ \/ refused /\ Answer(j, "401", {}, None) /\ UNCHANGED <<open, begun>>
       \/ /\ ~refused /\ half
          /\ Answer(j, "ok", {}, [session |-> None, era |-> era])
          /\ UNCHANGED <<open, begun>>
       \/ /\ ~refused /\ ~half /\ begun # Session
          /\ open' = (IF request = "reset" THEN {} ELSE open) \cup {s}
          /\ begun' = begun \cup {s}
          /\ Answer(j, "ok", {}, [session |-> s, era |-> era])
    /\ codes' = codes \ {request}
    /\ UNCHANGED <<rows, mine, era, asked, made, dropped>>

\* register and forgot: a code is mailed, whatever the answer says.
HandleMail(j) ==
    /\ Asking(j, {"register", "forgot"})
    /\ codes' = codes \cup {IF Head(j.todo) = "register" THEN "verify" ELSE "reset"}
    /\ Ok(j)
    /\ UNCHANGED <<rows, mine, open, begun, era, asked, made, dropped>>

\* Steps of a sign-in or an enrolment that leave nothing behind.
HandleOptions(j) ==
    /\ \/ Authorized(j, {"passkeyCreation", "enroll"})
       \/ Asking(j, {"passkeyOptions"}) /\ Half(j.token)
    /\ Ok(j)
    /\ UNCHANGED server

HandleMe(j) ==
    /\ Authorized(j, {"me", "picker"})
    /\ jobs' = (jobs \ {j}) \cup {[j EXCEPT !.stage = "back", !.token = None,
                    !.arg = IF mine = {} THEN None ELSE CHOOSE f \in mine : TRUE]}
    /\ UNCHANGED server

CardOf(request) == IF request \in {"select", "selectMade"} THEN "children" ELSE request

HandleList(j) ==
    /\ Authorized(j, {"select", "selectMade"} \cup Card)
    /\ Answer(j, "ok", ListOf(CardOf(Head(j.todo)), j.family), None)
    /\ UNCHANGED server

Make(items) == rows' = rows \cup items /\ made' = made \cup items
Drop(items) == rows' = rows \ items /\ dropped' = dropped \cup items

\* A change of an ask wakes the feeds of its family.
Woken(js, f) == {IF j.stage = "parked" /\ j.family = f THEN [j EXCEPT !.stage = "woken"] ELSE j
                 : j \in js}

\* uid(): an id nothing else has.
Fresh == {id \in Id : \A i \in rows \cup asked \cup made \cup dropped : i.id # id}
New(card, f) == [card |-> card, family |-> IF card = "passkeys" THEN None ELSE f,
                 id |-> CHOOSE id \in Fresh : TRUE]

HandleCreate(j) ==
    /\ Authorized(j, {"create"}) /\ Fresh # {}
    /\ Make({New(j.arg, j.family)})
    /\ Ok(j)
    /\ UNCHANGED <<mine, open, begun, era, codes, asked, dropped>>

HandleCreateFamily(j) ==
    LET f == CHOOSE x \in Family : x \notin mine IN
    /\ Authorized(j, {"createFamily"}) /\ mine # Family
    /\ mine' = mine \cup {f}
    /\ jobs' = (jobs \ {j}) \cup {[j EXCEPT !.stage = "back", !.token = None, !.made = f]}
    /\ UNCHANGED <<rows, open, begun, era, codes, asked, made, dropped>>

\* A rule is deleted where id and family match, and the answer is the same when
\* none does; other rows have to be found first, and one passkey has to remain.
HandleDelete(j) ==
    LET i == j.arg
        rule == Head(j.todo) = "undo" \/ i.card = "rules"
        hit == {x \in ListOf(IF rule THEN "rules" ELSE i.card, j.family) : x.id = i.id}
        refused == ~rule /\ (hit = {} \/ (i.card = "passkeys" /\ ListOf("passkeys", None) = {i}))
    IN
    /\ Authorized(j, {"delete", "undo"})
    /\ Drop(IF refused THEN {} ELSE hit)
    /\ Answer(j, IF refused THEN "refused" ELSE "ok", {}, None)
    /\ UNCHANGED <<mine, open, begun, era, codes, asked, made>>

HandleDecide(j) ==
    LET pending == j.arg \in ListOf("asks", j.family)
        answer  == New(IF j.standing THEN "rules" ELSE "grants", j.family)
    IN
    /\ Authorized(j, {"decide"})
    /\ \/ /\ pending /\ Fresh # {}
          /\ rows' = (rows \ {j.arg}) \cup {answer}
          /\ made' = made \cup {answer}
          /\ jobs' = Woken(jobs \ {j}, j.family) \cup
                     {[j EXCEPT !.stage = "back", !.token = None, !.made = answer]}
       \/ /\ ~pending /\ Answer(j, "refused", {}, None)
          /\ UNCHANGED <<rows, made>>
    /\ UNCHANGED <<mine, open, begun, era, codes, asked, dropped>>

\* PUT defaults replaces the whole row.
HandlePut(j) ==
    /\ Authorized(j, {"put"})
    /\ rows' = (rows \ ListOf("defaults", j.family)) \cup j.next
    /\ Ok(j)
    /\ UNCHANGED <<mine, open, begun, era, codes, asked, made, dropped>>

HandleLogout(j) ==
    /\ Authorized(j, {"logout", "deleteMe"})
    /\ open' = IF Head(j.todo) = "logout" THEN open \ {j.token.session} ELSE {}
    /\ Ok(j)
    /\ UNCHANGED <<rows, mine, begun, era, codes, asked, made, dropped>>

-----------------------------------------------------------------------------
(* GET requests/wait: lists what is pending, compares its length with the   *)
(* console's, and parks until a change wakes it or its time is over.        *)

At(j, stage) == j.todo = <<"wait">> /\ j.stage = stage

ListPending(j) ==
    /\ At(j, "out") /\ j.try # "refresh" /\ Valid(j.token)
    /\ jobs' = (jobs \ {j}) \cup
               {[j EXCEPT !.stage = "listed", !.items = ListOf("asks", j.family)]}
    /\ UNCHANGED server

\* Mutant: the handler parks whatever the console says it has.
AlwaysPark(j) ==
    /\ At(j, "listed")
    /\ jobs' = (jobs \ {j}) \cup {[j EXCEPT !.stage = "parked"]}
    /\ UNCHANGED server

Compare(j) ==
    /\ At(j, "listed")
    /\ IF Cardinality(j.items) # j.known
         THEN Answer(j, "ok", j.items, None)
         ELSE jobs' = (jobs \ {j}) \cup {[j EXCEPT !.stage = "parked"]}
    /\ UNCHANGED server

ListAgain(j) ==
    /\ At(j, "woken")
    /\ Answer(j, "ok", ListOf("asks", j.family), None)
    /\ UNCHANGED server

\* { requests, upToDate: true }
TimeOut(j) ==
    /\ At(j, "parked")
    /\ Answer(j, "upToDate", j.items, None)
    /\ UNCHANGED server

Handle(j) ==
    \/ Refuse(j) \/ HandleRefresh(j) \/ HandleSignIn(j) \/ HandleMail(j) \/ HandleOptions(j)
    \/ HandleMe(j) \/ HandleList(j) \/ HandleCreate(j) \/ HandleCreateFamily(j)
    \/ HandleDelete(j) \/ HandleDecide(j) \/ HandlePut(j) \/ HandleLogout(j)
    \/ ListPending(j) \/ Compare(j) \/ ListAgain(j) \/ TimeOut(j)

-----------------------------------------------------------------------------
(* api(): an answer 401 renews the tokens and sends the request again, once. *)

setTokens(t) == token' = t /\ refresh' = t
clearTokens  == token' = None /\ refresh' = None

\* Mutant: whatever went wrong, the tokens are renewed and the request sent again.
RenewsOnAnyFailure(j) ==
    /\ j.status \notin {"ok", "upToDate"} /\ j.try = "first" /\ refresh # None
    /\ Head(j.todo) \notin NoAuth

Renews(j) == /\ j.status = "401" /\ j.try = "first" /\ refresh # None
             /\ Head(j.todo) \notin NoAuth

RenewTokens(j) ==
    /\ j.stage = "back" /\ Renews(j)
    /\ jobs' = (jobs \ {j}) \cup
               {[j EXCEPT !.stage = "out", !.try = "refresh", !.token = refresh, !.status = "ok"]}
    /\ UNCHANGED <<server, storage, page>>

\* Mutant: no answer counts as a rejection.
RejectedOrLost(status) == status # "ok"

Rejected(status) == status \notin {"ok", "offline"}

Renewed(j) ==
    /\ j.stage = "back" /\ j.try = "refresh"
    /\ \/ /\ j.status = "ok"
          /\ setTokens(j.gets)
          /\ jobs' = (jobs \ {j}) \cup {[j EXCEPT !.stage = "out", !.try = "again",
                                                  !.token = j.gets, !.gets = None]}
       \/ /\ j.status # "ok"
          /\ IF Rejected(j.status) THEN clearTokens ELSE UNCHANGED <<token, refresh>>
          /\ jobs' = (jobs \ {j}) \cup {[j EXCEPT !.try = "again", !.token = None, !.status = "401"]}
    /\ UNCHANGED <<server, family, page>>

-----------------------------------------------------------------------------
(* What the functions do with their answers.  api() throws for a refusal,   *)
(* and no message it throws with is one that isAuthError knows: the API     *)
(* always says it in words.                                                 *)

Settled(j, requests)  == j.stage = "back" /\ j.try # "refresh" /\ ~Renews(j)
                         /\ j.todo # <<>> /\ Head(j.todo) \in requests
Answered(j, requests) == Settled(j, requests) /\ j.status = "ok"
Failed(j, requests)   == Settled(j, requests) /\ j.status \notin {"ok", "upToDate"}

auths  == <<panel, mfa>>
cards  == <<shown, picked, row>>
asking == <<lastCount, undo, busy>>

SignedIn(j) ==
    LET half == j.gets.session = None IN
    /\ Answered(j, SignIns)
    /\ IF half THEN UNCHANGED <<token, refresh>> ELSE setTokens(j.gets)
    /\ mfa' = IF half THEN j.gets ELSE IF Head(j.todo) = "passkeyLogin" THEN None ELSE mfa
    /\ panel' = IF half THEN "passkey" ELSE "signin"
    /\ UNCHANGED <<server, family, cards, asking>>
    /\ IF half THEN End(j, {Call("usePasskey", usePasskey)}) ELSE GoOn(j, {})

AfterMe(j) ==
    /\ Answered(j, {"me"})
    /\ panel' = "console"
    /\ family' = IF family # None THEN family ELSE j.arg
    /\ UNCHANGED <<server, token, refresh, mfa, cards, asking>>
    /\ IF family' = None THEN End(j, Load({"passkeys"})) ELSE GoOn(j, Load({"passkeys"}))

Listed(j) == [of |-> IF j.status = "ok" THEN j.family ELSE None, items |-> j.items]

\* Mutant: a new family is shown with the defaults of the last one.
RefreshedLess == {"rules", "grants", "devices"}

Refreshed == {"rules", "grants", "defaults", "devices"}

\* Mutant: the live loop is started again.
NeverWatched == FALSE

Watched == \E x \in jobs : x.fn = "live"

\* refreshChildren is over, whether or not it could load.
Selected(j) ==
    /\ Settled(j, {"select", "selectMade"})
    /\ shown' = [shown EXCEPT !["children"] = Listed(j)]
    /\ lastCount' = IF Watched THEN lastCount ELSE -1
    /\ UNCHANGED <<server, storage, auths, picked, row, undo, busy>>
    /\ GoOn(j, Load(Refreshed) \cup IF Watched THEN {} ELSE {Call("live", <<"wait">>)})

\* The picker is cosmetic; createFamily selects what it made.
Picked(j) ==
    /\ Settled(j, {"picker"})
    /\ family' = IF Tail(j.todo) = <<>> THEN family ELSE j.made
    /\ UNCHANGED <<server, token, refresh, page>>
    /\ GoOn(j, {})

\* Defaults are drawn anew: a save under way reports to a row nobody sees.
Detached(js) == {IF j.fn = "saveDefault" THEN [j EXCEPT !.known = -2] ELSE j : j \in js}

CardLoaded(j) ==
    LET card == Head(j.todo)
        defaults == card = "defaults" /\ j.status = "ok"
    IN
    /\ Settled(j, Card)
    /\ shown' = [shown EXCEPT ![card] = Listed(j)]
    /\ picked' = IF defaults THEN j.items ELSE picked
    /\ row' = IF defaults THEN j.items ELSE row
    /\ jobs' = IF defaults THEN Detached(jobs \ {j}) ELSE jobs \ {j}
    /\ UNCHANGED <<server, storage, auths, asking>>

\* A change is followed by a refresh of its card; refreshRules loads the grants too.
With(j) == IF Tail(j.todo) = <<"rules">> THEN Load({"grants"}) ELSE {}

Changed(j) ==
    /\ Answered(j, {"create", "delete", "createFamily", "passkeyOptions", "passkeyCreation",
                    "enroll", "register", "forgot"})
    /\ UNCHANGED <<server, storage, page>>
    /\ GoOn(j, With(j))

Decided(j) ==
    /\ Answered(j, {"decide"})
    /\ undo' = IF j.standing THEN j.made ELSE None
    /\ UNCHANGED <<server, storage, auths, cards, lastCount, busy>>
    /\ End(j, Load({"rules", "grants"}))

TakenBack(j) ==
    /\ Answered(j, {"undo"})
    /\ undo' = None
    /\ UNCHANGED <<server, storage, auths, cards, lastCount, busy>>
    /\ End(j, Load({"rules", "grants"}))

Saved(j) ==
    /\ Answered(j, {"put"})
    /\ row' = IF j.known = -2 THEN row ELSE j.next
    /\ UNCHANGED <<server, storage, auths, shown, picked, asking>>
    /\ End(j, {})

\* The control goes back to what its row said when it was changed.
NotSaved(j) ==
    /\ Failed(j, {"put"})
    /\ picked' = IF j.known = -2 THEN picked ELSE (picked \ {j.arg}) \cup ({j.arg} \cap j.row)
    /\ UNCHANGED <<server, storage, auths, shown, row, asking>>
    /\ End(j, {})

NotDecided(j) ==
    /\ Failed(j, {"decide"})
    /\ busy' = busy \ {j.arg.id}
    /\ undo' = None
    /\ UNCHANGED <<server, storage, auths, cards, lastCount>>
    /\ End(j, {})

\* Any other failure is told where it happened.
GaveUp(j) ==
    /\ Failed(j, {"me", "create", "delete", "undo", "createFamily", "passkeyOptions",
                  "passkeyCreation", "enroll", "register", "forgot", "deleteMe"} \cup SignIns)
    /\ panel' = CASE j.fn = "resume" -> "trouble"
                  [] j.fn = "completeConfirmation" -> "signin"
                  [] OTHER -> panel
    /\ UNCHANGED <<server, storage, mfa, cards, asking>>
    /\ End(j, {})

-----------------------------------------------------------------------------
(* A page begins: nothing is shown, no function is under way. *)

NoCards == [c \in setting.cards \cup {"asks", "children"} |-> [of |-> None, items |-> {}]]

NewPage == /\ mfa' = None /\ undo' = None /\ busy' = {} /\ lastCount' = -1
           /\ shown' = NoCards /\ picked' = {} /\ row' = {}

resume == /\ NewPage
          /\ IF refresh' = None
               THEN panel' = "signin" /\ jobs' = {}
               ELSE panel' = "resuming" /\ jobs' = {Call("resume", afterLogin)}

\* Whatever logout answered.
SignedOut(j) ==
    /\ Settled(j, {"logout"})
    /\ clearTokens
    /\ UNCHANGED <<server, family>>
    /\ resume

Closed(j) ==
    /\ Answered(j, {"deleteMe"})
    /\ clearTokens /\ family' = None
    /\ panel' = "closed"
    /\ UNCHANGED <<server, mfa, cards, asking>>
    /\ End(j, {})

-----------------------------------------------------------------------------
(* startLiveRequests: one long poll after the other. *)

Waited(j) ==
    /\ Settled(j, {"wait"}) /\ j.status \in {"ok", "upToDate"}
    /\ IF j.status = "upToDate"
         THEN UNCHANGED <<shown, lastCount, busy>>
         ELSE /\ shown' = [shown EXCEPT !["asks"] = [of |-> j.family, items |-> j.items]]
              /\ lastCount' = Cardinality(j.items)
              /\ busy' = {}
    /\ UNCHANGED <<server, storage, auths, picked, row, undo>>
    /\ jobs' = (jobs \ {j}) \cup {Sent(j, j.todo)}

BackOff(j) ==
    /\ Failed(j, {"wait"})
    /\ jobs' = (jobs \ {j}) \cup {[j EXCEPT !.stage = "resting", !.status = "ok"]}
    /\ UNCHANGED <<server, storage, page>>

PollAgain(j) ==
    /\ At(j, "resting")
    /\ UNCHANGED <<server, storage, page>>
    /\ jobs' = (jobs \ {j}) \cup {Sent(j, j.todo)}

Deliver(j) ==
    \/ RenewTokens(j) \/ Renewed(j) \/ SignedIn(j) \/ AfterMe(j) \/ Selected(j) \/ Picked(j)
    \/ CardLoaded(j) \/ Changed(j) \/ Decided(j) \/ TakenBack(j) \/ Saved(j) \/ NotSaved(j)
    \/ NotDecided(j) \/ GaveUp(j) \/ SignedOut(j) \/ Closed(j)
    \/ Waited(j) \/ BackOff(j) \/ PollAgain(j)

-----------------------------------------------------------------------------
(* The parent.  Some controls are busy while their function runs and take no taps. *)

Tap(what) ==
    /\ what \in setting.taps
    /\ tapped < setting.limit /\ tapped' = tapped + 1
    /\ setting.patient => \A j \in jobs : j.fn = "live"
    /\ UNCHANGED <<server, setting, mishaps>>

Start(fn, todo, arg) == jobs' = jobs \cup {[Call(fn, todo) EXCEPT !.arg = arg]}

Idle(fn) == \A j \in jobs : j.fn # fn

auth ==
    /\ panel = "signin" /\ Idle("login") /\ Idle("register")
    /\ \/ Tap("login") /\ UNCHANGED <<storage, page>> /\ Start("login", login, None)
       \/ Tap("register") /\ UNCHANGED <<storage, page>> /\ Start("register", register, None)

Forgot ==
    /\ panel = "signin" /\ Idle("forgot") /\ Tap("forgot")
    /\ UNCHANGED <<storage, page>> /\ Start("forgot", forgot, None)

TryPasskey ==
    /\ panel = "passkey" /\ mfa # None /\ Tap("passkey")
    /\ UNCHANGED <<storage, page>> /\ Start("usePasskey", usePasskey, None)

endPasskeyStep ==
    /\ panel = "passkey" /\ Tap("cancel")
    /\ mfa' = None /\ panel' = "signin"
    /\ UNCHANGED <<storage, cards, asking, jobs>>

\* A mailed link opens the page again.
OpenLink ==
    /\ Tap("link")
    /\ UNCHANGED storage
    /\ NewPage
    /\ \/ /\ "verify" \in codes /\ panel' = "resuming"
          /\ jobs' = {Call("completeConfirmation", completeConfirmation)}
       \/ /\ "reset" \in codes /\ panel' = "reset" /\ jobs' = {}

Reset ==
    /\ panel = "reset" /\ Idle("reset") /\ Tap("reset")
    /\ UNCHANGED <<storage, page>> /\ Start("reset", reset, None)

TryAgain ==
    /\ panel = "trouble" /\ Tap("again")
    /\ UNCHANGED storage
    /\ resume

selectFamilyTapped ==
    /\ panel = "console" /\ Tap("family")
    /\ \E f \in mine \ {family} : family' = f
    /\ UNCHANGED <<token, refresh, page>>
    /\ Start("selectFamily", selectFamily, None)

\* Forms and buttons whose calls need nothing but the state of the page; setting up
\* a device and adding a rule keep theirs busy.
Form == {<<"createFamily", createFamily, None>>, <<"addChild", addChild, "children">>,
         <<"enrollDevice", enrollDevice, None>>, <<"addRule", addRule, "rules">>,
         <<"addPasskey", addPasskey, "passkeys">>,
         <<"signout", signout, None>>, <<"closeAccount", closeAccount, None>>}

Submit ==
    /\ panel = "console"
    /\ \E f \in Form : /\ Tap(f[1])
                       /\ f[1] \in {"enrollDevice", "addRule"} => Idle(f[1])
                       /\ f[1] \in {"addChild", "enrollDevice", "addRule"} => family # None
                       /\ UNCHANGED <<storage, page>> /\ Start(f[1], f[2], f[3])

\* The rows of a card carry the button that takes them away.
Removal == {<<"rules", removeRule>>, <<"grants", revokeGrant>>, <<"devices", removeDevice>>,
            <<"passkeys", removePasskey>>}

Remove ==
    /\ panel = "console" /\ Tap("remove")
    /\ \E r \in Removal : r[1] \in setting.cards
         /\ \E i \in shown[r[1]].items : UNCHANGED <<storage, page>> /\ Start("remove", r[2], i)

saveDefaultTapped ==
    /\ panel = "console" /\ Tap("default")
    /\ \E i \in [card : {"defaults"}, family : {shown["defaults"].of} \ {None}, id : Field] :
         /\ picked' = (IF i \in picked THEN picked \ {i} ELSE picked \cup {i})
         /\ UNCHANGED <<storage, auths, shown, row, asking>>
         /\ jobs' = jobs \cup
              {[Call("saveDefault", saveDefault) EXCEPT !.arg = i, !.row = row, !.known = 0,
                  !.next = IF i \in picked THEN row \ {i} ELSE row \cup {i}]}

decide ==
    /\ panel = "console" /\ Tap("decide")
    /\ \E i \in shown["asks"].items, standing \in BOOLEAN :
         /\ i.id \notin busy /\ busy' = busy \cup {i.id}
         /\ UNCHANGED <<storage, auths, cards, lastCount, undo>>
         /\ jobs' = jobs \cup {[Call("decide", <<"decide">>) EXCEPT !.arg = i, !.standing = standing]}

undoTapped ==
    /\ undo # None /\ Tap("undo")
    /\ undo' = None
    /\ UNCHANGED <<storage, auths, cards, lastCount, busy>>
    /\ Start("undo", <<"undo">>, undo)

Parent == auth \/ Forgot \/ TryPasskey \/ endPasskeyStep \/ OpenLink \/ Reset \/ TryAgain
          \/ selectFamilyTapped \/ Submit \/ Remove \/ saveDefaultTapped \/ decide \/ undoTapped

-----------------------------------------------------------------------------
(* What happens outside the page. *)

FileAsk ==
    \E i \in setting.asks \ asked :
        /\ rows' = rows \cup {i} /\ asked' = asked \cup {i}
        /\ jobs' = Woken(jobs, i.family)
        /\ UNCHANGED <<mine, open, begun, era, codes, made, dropped, storage, page, bounds>>

OtherDecides ==
    /\ "decide" \in setting.others
    /\ \E i \in rows : /\ i.card = "asks"
                       /\ rows' = rows \ {i}
                       /\ jobs' = Woken(jobs, i.family)
    /\ UNCHANGED <<mine, open, begun, era, codes, asked, made, dropped, storage, page, bounds>>

EndSession ==
    /\ "revoke" \in setting.others /\ open # {} /\ open' = {}
    /\ UNCHANGED <<rows, mine, begun, era, codes, asked, made, dropped, storage, page, jobs, bounds>>

ExpireTokens ==
    /\ era < setting.eras /\ era' = era + 1
    /\ UNCHANGED <<rows, mine, open, begun, codes, asked, made, dropped, storage, page, jobs, bounds>>

\* A request or its answer is lost, or the server has trouble and says 429 or 500.
Mishap(j) ==
    /\ mishaps < setting.mishaps /\ mishaps' = mishaps + 1
    /\ \/ /\ j.stage \in {"out", "parked"} \/ (j.stage = "back" /\ j.status = "ok")
          /\ Answer(j, "offline", {}, None)
       \/ j.stage = "out" /\ Answer(j, "trouble", {}, None)
    /\ UNCHANGED <<server, storage, page, setting, tapped>>

OpenPage ==
    /\ panel = "opening"
    /\ UNCHANGED <<server, storage, bounds>>
    /\ resume

-----------------------------------------------------------------------------
Init ==
    /\ setting \in Settings
    /\ rows = setting.rows /\ asked = {} /\ made = {} /\ dropped = {}
    /\ mine = {i.family : i \in {x \in rows : x.card = "children"}}
    /\ open = (IF setting.signedIn THEN {CHOOSE s \in Session : TRUE} ELSE {})
    /\ begun = open /\ era = 0 /\ codes = {}
    /\ token = (IF open = {} THEN None ELSE [session |-> CHOOSE s \in open : TRUE, era |-> 0])
    /\ refresh = token /\ family = None
    /\ panel = "opening"
    /\ mfa = None /\ undo = None /\ busy = {} /\ lastCount = -1
    /\ shown = NoCards /\ picked = {} /\ row = {}
    /\ jobs = {} /\ tapped = 0 /\ mishaps = 0

Step(j) == \/ Handle(j) /\ UNCHANGED <<storage, page, bounds>>
           \/ Deliver(j) /\ UNCHANGED bounds

Next == \/ \E j \in jobs : Step(j)
        \/ \E j \in jobs : Mishap(j)
        \/ OpenPage \/ Parent
        \/ FileAsk \/ OtherDecides \/ EndSession \/ ExpireTokens

Spec == Init /\ [][Next]_vars

\* The functions and the server go on; a parent, a mishap or an ask need not happen.
Running == Card \cup
    {"resume", "live", "login", "usePasskey", "reset", "completeConfirmation", "createFamily",
     "selectFamily", "signout", "closeAccount", "decide"}

FairSpec == Spec /\ WF_vars(OpenPage)
                 /\ \A fn \in Running : WF_vars(\E j \in jobs : j.fn = fn /\ Step(j))

-----------------------------------------------------------------------------
(* Properties *)

\* Every variable keeps its type, what is shown and selected are rows, and the page
\* never has two live loops: a second would ask for the first one's answers.
TypeOK ==
    /\ rows \cup asked \cup made \cup dropped \subseteq Item
    /\ mine \subseteq Family /\ open \subseteq begun /\ begun \subseteq Session
    /\ token # None <=> refresh # None
    /\ \A t \in {token, refresh, mfa} \ {None} : t.era <= era
    /\ family \in Family \cup {None}
    /\ panel \in {"opening", "signin", "passkey", "reset", "resuming", "console", "trouble", "closed"}
    /\ \A c \in DOMAIN shown : shown[c].items \subseteq {i \in Item : i.card = c}
    /\ picked \cup row \subseteq {i \in Item : i.card = "defaults"}
    /\ lastCount \in -1..Cardinality(Item)
    /\ Cardinality({j \in jobs : j.fn = "live"}) <= 1

\* Whatever is lost, answered late or asked again with new tokens, one tap changes at
\* most one row of the family: api() resends only what was refused (app.js, api).
OneTapOneChange == Cardinality(made \cup (dropped \ made)) <= tapped

\* The page forgets the session only when the parent leaves, when the session has
\* ended, or when the server answered a renewal with trouble of its own or refused
\* one that was of an earlier session; losing the connection never signs a parent
\* out (app.js, api and resume).
SessionKept ==
    [][refresh # None /\ refresh' = None =>
          \/ refresh.session \notin open
          \/ \E j \in jobs : j.stage = "back" /\ Head(j.todo) \in {"logout", "deleteMe"}
          \/ \E j \in jobs : j.try = "refresh" /\ j.status = "trouble"
          \/ \E j \in jobs : j.try = "refresh" /\ j.status = "401" /\ j.token.session # refresh.session]_vars

\* When one parent alone makes changes and waits for each to finish, tokens do not run
\* out and no second family is founded (the cards of the first may come in after its
\* own), the cards show what the server has of the selected family, and so do the
\* controls of the defaults (app.js, selectFamily, the refresh functions, saveDefault).
Quiet == /\ setting.patient /\ setting.mishaps = 0 /\ setting.others = {} /\ setting.eras = 0
         /\ "createFamily" \notin setting.taps
         /\ panel = "console" /\ family # None /\ \A j \in jobs : j.fn = "live"
ShownIsTrue ==
    Quiet => /\ \A c \in setting.cards :
                   /\ c \in {"passkeys", "defaults"} \/ shown[c].of = family
                   /\ c = "defaults" \/ shown[c].items = ListOf(c, family)
             /\ "defaults" \in setting.cards => picked = ListOf("defaults", family) /\ row = picked

\* While the session lives, the number of asks on screen comes to be the number that
\* wait in the selected family and stays so, after lost requests, expired tokens, and
\* asks that come and go (app.js, startLiveRequests; api.ts, requests/wait).
Watching == panel = "console" /\ family # None /\ refresh # None /\ refresh.session \in open
CountArrives ==
    <>[](Watching => lastCount = Cardinality(ListOf("asks", family)))

\* The asks on screen come to be the ones that wait.  The comment of the feed says
\* that a decision and an ask that net to the same length are still delivered; they
\* are when the feed is parked, and not when it is between two polls.
AsksArrive ==
    <>[](Watching => shown["asks"].items = ListOf("asks", family))
===============================================================================
