---------------------------- MODULE ConsoleProofs ----------------------------
(***************************************************************************)
(* Proofs about the parent console, for any number of families, rows,      *)
(* calls under way, taps and mishaps.                                      *)
(***************************************************************************)
EXTENDS ParentConsole, FiniteSetTheorems, SequenceTheorems, TLAPS

-----------------------------------------------------------------------------
(* What the functions of the page have left to do: the ends of their lists. *)

SelectRest == {<<"select", "picker">>, <<"picker">>}

MeRest == SelectRest \cup {<<"me", "select", "picker">>}

EnterRest == MeRest \cup
    {<<"login", "me", "select", "picker">>, <<"passkeyLogin", "me", "select", "picker">>,
     <<"passkeyOptions", "passkeyLogin", "me", "select", "picker">>,
     <<"reset", "me", "select", "picker">>, <<"verify", "me", "select", "picker">>}

FoundRest == {<<"createFamily", "me", "select", "picker", "selectMade", "picker">>,
              <<"me", "select", "picker", "selectMade", "picker">>,
              <<"select", "picker", "selectMade", "picker">>,
              <<"picker", "selectMade", "picker">>, <<"selectMade", "picker">>}

LoadRest == {<<c>> : c \in Card}

MakeRest == {<<"create", "children">>, <<"create", "rules">>, <<"create", "passkeys">>,
             <<"passkeyCreation", "create", "passkeys">>}

DropRest == {<<"delete", "rules">>, <<"delete", "grants">>, <<"delete", "devices">>,
             <<"delete", "passkeys">>}

SingleRest == {<<"register">>, <<"forgot">>, <<"enroll">>, <<"put">>, <<"logout">>, <<"deleteMe">>,
               <<"decide">>, <<"undo">>, <<"wait">>}

Rests == EnterRest \cup FoundRest \cup LoadRest \cup MakeRest \cup DropRest \cup SingleRest

EnterHeads == {"login", "passkeyLogin", "passkeyOptions", "reset", "verify", "me", "select", "picker"}

FoundHeads == {"createFamily", "me", "select", "picker", "selectMade"}

SingleHeads == {"register", "forgot", "enroll", "put", "logout", "deleteMe", "decide", "undo", "wait"}

LEMMA EnterRests ==
    ASSUME NEW t \in EnterRest
    PROVE  /\ t # <<>>
           /\ Head(t) \in EnterHeads
           /\ Tail(t) = <<>> \/ Tail(t) \in EnterRest
  <1>1. CASE t = <<"picker">>
    BY <1>1 DEF EnterRest, MeRest, SelectRest, EnterHeads
  <1>2. CASE t = <<"select", "picker">>
    BY <1>2 DEF EnterRest, MeRest, SelectRest, EnterHeads
  <1>3. CASE t = <<"me", "select", "picker">>
    BY <1>3 DEF EnterRest, MeRest, SelectRest, EnterHeads
  <1>4. CASE t = <<"login", "me", "select", "picker">>
    BY <1>4 DEF EnterRest, MeRest, SelectRest, EnterHeads
  <1>5. CASE t = <<"passkeyLogin", "me", "select", "picker">>
    BY <1>5 DEF EnterRest, MeRest, SelectRest, EnterHeads
  <1>6. CASE t = <<"passkeyOptions", "passkeyLogin", "me", "select", "picker">>
    BY <1>6 DEF EnterRest, MeRest, SelectRest, EnterHeads
  <1>7. CASE t = <<"reset", "me", "select", "picker">>
    BY <1>7 DEF EnterRest, MeRest, SelectRest, EnterHeads
  <1>8. CASE t = <<"verify", "me", "select", "picker">>
    BY <1>8 DEF EnterRest, MeRest, SelectRest, EnterHeads
  <1> QED
    BY <1>1, <1>2, <1>3, <1>4, <1>5, <1>6, <1>7, <1>8 DEF EnterRest, MeRest, SelectRest, EnterHeads

LEMMA FoundRests ==
    ASSUME NEW t \in FoundRest
    PROVE  /\ t # <<>>
           /\ Head(t) \in FoundHeads
           /\ Tail(t) \in FoundRest \cup {<<"picker">>}
  <1>1. CASE t = <<"createFamily", "me", "select", "picker", "selectMade", "picker">>
    BY <1>1 DEF FoundRest, FoundHeads
  <1>2. CASE t = <<"me", "select", "picker", "selectMade", "picker">>
    BY <1>2 DEF FoundRest, FoundHeads
  <1>3. CASE t = <<"select", "picker", "selectMade", "picker">>
    BY <1>3 DEF FoundRest, FoundHeads
  <1>4. CASE t = <<"picker", "selectMade", "picker">>
    BY <1>4 DEF FoundRest, FoundHeads
  <1>5. CASE t = <<"selectMade", "picker">>
    BY <1>5 DEF FoundRest, FoundHeads
  <1> QED
    BY <1>1, <1>2, <1>3, <1>4, <1>5 DEF FoundRest, FoundHeads

LEMMA MakeRests ==
    ASSUME NEW t \in MakeRest
    PROVE  /\ t # <<>>
           /\ Head(t) \in {"create", "passkeyCreation"}
           /\ Head(t) = "create" => Tail(t) \in LoadRest
           /\ Head(t) = "passkeyCreation" => Tail(t) = <<"create", "passkeys">>
  <1>1. CASE t = <<"create", "children">>
    BY <1>1 DEF MakeRest, LoadRest, Card
  <1>2. CASE t = <<"create", "rules">>
    BY <1>2 DEF MakeRest, LoadRest, Card
  <1>3. CASE t = <<"create", "passkeys">>
    BY <1>3 DEF MakeRest, LoadRest, Card
  <1>4. CASE t = <<"passkeyCreation", "create", "passkeys">>
    BY <1>4 DEF MakeRest, LoadRest, Card
  <1> QED
    BY <1>1, <1>2, <1>3, <1>4 DEF MakeRest, LoadRest, Card

LEMMA DropRests ==
    ASSUME NEW t \in DropRest
    PROVE  t # <<>> /\ Head(t) = "delete" /\ Tail(t) \in LoadRest
  <1>1. CASE t = <<"delete", "rules">>
    BY <1>1 DEF DropRest, LoadRest, Card
  <1>2. CASE t = <<"delete", "grants">>
    BY <1>2 DEF DropRest, LoadRest, Card
  <1>3. CASE t = <<"delete", "devices">>
    BY <1>3 DEF DropRest, LoadRest, Card
  <1>4. CASE t = <<"delete", "passkeys">>
    BY <1>4 DEF DropRest, LoadRest, Card
  <1> QED
    BY <1>1, <1>2, <1>3, <1>4 DEF DropRest, LoadRest, Card

LEMMA LoadRests ==
    ASSUME NEW t \in LoadRest
    PROVE  t # <<>> /\ Head(t) \in Card /\ Tail(t) = <<>> /\ t = <<Head(t)>>
  <1>1. PICK c \in Card : t = <<c>>
    BY DEF LoadRest
  <1>2. QED
    BY <1>1

LEMMA SingleRests ==
    ASSUME NEW t \in SingleRest
    PROVE  t # <<>> /\ Head(t) \in SingleHeads /\ Tail(t) = <<>> /\ t = <<Head(t)>>
  <1>1. CASE t = <<"register">>
    BY <1>1 DEF SingleRest, SingleHeads
  <1>2. CASE t = <<"forgot">>
    BY <1>2 DEF SingleRest, SingleHeads
  <1>3. CASE t = <<"enroll">>
    BY <1>3 DEF SingleRest, SingleHeads
  <1>4. CASE t = <<"put">>
    BY <1>4 DEF SingleRest, SingleHeads
  <1>5. CASE t = <<"logout">>
    BY <1>5 DEF SingleRest, SingleHeads
  <1>6. CASE t = <<"deleteMe">>
    BY <1>6 DEF SingleRest, SingleHeads
  <1>7. CASE t = <<"decide">>
    BY <1>7 DEF SingleRest, SingleHeads
  <1>8. CASE t = <<"undo">>
    BY <1>8 DEF SingleRest, SingleHeads
  <1>9. CASE t = <<"wait">>
    BY <1>9 DEF SingleRest, SingleHeads
  <1> QED
    BY <1>1, <1>2, <1>3, <1>4, <1>5, <1>6, <1>7, <1>8, <1>9 DEF SingleRest, SingleHeads

LEMMA EnterIsNotFound ==
    ASSUME NEW t \in EnterRest
    PROVE  t \notin FoundRest
  <1>1. CASE t = <<"picker">>
    BY <1>1 DEF EnterRest, MeRest, SelectRest, FoundRest
  <1>2. CASE t = <<"select", "picker">>
    BY <1>2 DEF EnterRest, MeRest, SelectRest, FoundRest
  <1>3. CASE t = <<"me", "select", "picker">>
    BY <1>3 DEF EnterRest, MeRest, SelectRest, FoundRest
  <1>4. CASE t = <<"login", "me", "select", "picker">>
    BY <1>4 DEF EnterRest, MeRest, SelectRest, FoundRest
  <1>5. CASE t = <<"passkeyLogin", "me", "select", "picker">>
    BY <1>5 DEF EnterRest, MeRest, SelectRest, FoundRest
  <1>6. CASE t = <<"passkeyOptions", "passkeyLogin", "me", "select", "picker">>
    BY <1>6 DEF EnterRest, MeRest, SelectRest, FoundRest
  <1>7. CASE t = <<"reset", "me", "select", "picker">>
    BY <1>7 DEF EnterRest, MeRest, SelectRest, FoundRest
  <1>8. CASE t = <<"verify", "me", "select", "picker">>
    BY <1>8 DEF EnterRest, MeRest, SelectRest, FoundRest
  <1> QED
    BY <1>1, <1>2, <1>3, <1>4, <1>5, <1>6, <1>7, <1>8 DEF EnterRest, MeRest, SelectRest, FoundRest

\* Of all that a function may have left.
LEMMA RestHeads ==
    ASSUME NEW t \in Rests
    PROVE  /\ t # <<>>
           /\ t \in EnterRest <=> Head(t) \in EnterHeads /\ t \notin FoundRest
           /\ t \in FoundRest => Head(t) \in FoundHeads
           /\ t \in MakeRest <=> Head(t) \in {"create", "passkeyCreation"}
           /\ t \in DropRest <=> Head(t) = "delete"
           /\ t \in LoadRest <=> Head(t) \in Card
           /\ t \in LoadRest => t = <<Head(t)>>
           /\ t \in SingleRest <=> Head(t) \in SingleHeads
           /\ t \in SingleRest => t = <<Head(t)>>
           /\ Tail(t) # <<>> => Tail(t) \in Rests
  <1> USE DEF EnterHeads, FoundHeads, SingleHeads, Card
  <1>1. CASE t \in EnterRest
    BY <1>1, EnterRests, EnterIsNotFound, FoundRests, MakeRests, DropRests, LoadRests, SingleRests DEF Rests
  <1>2. CASE t \in FoundRest
    <2>1. <<"picker">> \in Rests
      BY DEF Rests, EnterRest, MeRest, SelectRest
    <2>2. QED
      BY <1>2, <2>1, EnterIsNotFound, FoundRests, MakeRests, DropRests, LoadRests, SingleRests DEF Rests
  <1>3. CASE t \in MakeRest
    <2>1. <<"create", "passkeys">> \in Rests
      BY DEF Rests, MakeRest
    <2>2. QED
      BY <1>3, <2>1, EnterRests, FoundRests, MakeRests, DropRests, LoadRests, SingleRests DEF Rests
  <1>4. CASE t \in DropRest
    BY <1>4, EnterRests, FoundRests, MakeRests, DropRests, LoadRests, SingleRests DEF Rests
  <1>5. CASE t \in LoadRest
    BY <1>5, EnterRests, FoundRests, MakeRests, DropRests, LoadRests, SingleRests DEF Rests
  <1>6. CASE t \in SingleRest
    BY <1>6, EnterRests, FoundRests, MakeRests, DropRests, LoadRests, SingleRests DEF Rests
  <1>7. QED
    BY <1>1, <1>2, <1>3, <1>4, <1>5, <1>6 DEF Rests

LEMMA LoadHas == ASSUME NEW c \in Card PROVE <<c>> \in LoadRest /\ <<c>> \in Rests
  BY DEF LoadRest, Rests

-----------------------------------------------------------------------------
(* Types. *)

JobFields == {"fn", "n", "todo", "arg", "made", "standing", "row", "next", "stage", "try", "token",
              "family", "known", "status", "items", "gets"}

TokenOK(t) == t \in Token /\ t.session \in begun \cup {None} /\ t.era <= era

ShapeOK(j) ==
    /\ DOMAIN j = JobFields /\ j.todo \in Rests
    /\ j.stage \in {"out", "back", "listed", "parked", "woken", "resting"}
    /\ j.try \in {"first", "refresh", "again"}
    /\ j.status \in {"ok", "401", "refused", "offline", "trouble", "upToDate"}
    /\ j.stage \in {"listed", "parked", "woken", "resting"} => j.todo = <<"wait">> /\ j.try # "refresh"
    /\ j.stage = "out" => j.status = "ok"
    /\ j.family \in Family \cup {None}

\* The request is answered with what it asked for.
Done(j) == j.stage = "back" /\ j.try # "refresh" /\ j.status = "ok"

\* A session that was refused has ended; it does not come back.
RefusedOK(j) == j.stage = "back" /\ j.try = "refresh" /\ j.status = "401" => j.token.session \notin open

TokensOK(j) ==
    /\ j.token # None => TokenOK(j.token)
    /\ j.gets # None => TokenOK(j.gets)
    /\ j.try = "refresh" /\ j.stage = "out" => j.token # None /\ j.token.session \in begun
    /\ j.try = "refresh" /\ j.stage = "back" /\ j.status = "401" => j.token # None /\ j.token.session \in begun
    /\ j.try = "refresh" /\ j.stage = "back" /\ j.status = "ok" => j.gets # None /\ j.gets.session \in begun
    /\ Done(j) /\ Head(j.todo) \in SignIns => j.gets # None
    /\ RefusedOK(j)
    /\ j.try = "refresh" /\ j.stage = "back" => j.status \in {"ok", "401", "offline", "trouble"}

\* The card a request lists.
CardsOf(request) == IF request = "wait" THEN "asks" ELSE CardOf(request)

ItemsOK(j) == j.items \subseteq {i \in Item : i.card = CardsOf(Head(j.todo))}

Defaults == {i \in Item : i.card = "defaults"}

ArgOK(j) ==
    /\ j.todo \in EnterRest \cup FoundRest => j.arg \in Family \cup {None}
    /\ j.todo \in MakeRest =>
         /\ j.arg \in {"children", "rules", "passkeys"}
         /\ j.todo \in {<<"create", j.arg>>, <<"passkeyCreation", "create", j.arg>>}
         /\ j.arg # "passkeys" => j.family # None
    /\ j.todo = <<"put">> => j.next \subseteq Defaults /\ j.row \subseteq Defaults
    /\ j.todo \in FoundRest /\ (Head(j.todo) # "createFamily" \/ Done(j)) => j.made \in Family

JobOK(j) == ShapeOK(j) /\ TokensOK(j) /\ ItemsOK(j) /\ ArgOK(j)

JobsOK == \A j \in jobs : JobOK(j)

\* At most one live loop.
OneLoop == \A j, k \in jobs : j.fn = "live" /\ k.fn = "live" => j = k

ServerOK ==
    /\ rows \cup asked \cup made \cup dropped \subseteq Item
    /\ mine \subseteq Family /\ open \subseteq begun /\ begun \subseteq Session /\ era \in Nat

\* What the page knows of its session.
KeysOK ==
    /\ (token # None <=> refresh # None)
    /\ \A t \in {token, refresh, mfa} \ {None} : TokenOK(t)
    /\ refresh # None => refresh.session \in begun
    /\ token # None => token.session \in begun

ShownOK ==
    /\ DOMAIN shown = setting.cards \cup {"asks", "children"}
    /\ \A c \in DOMAIN shown : /\ shown[c].items \subseteq {i \in Item : i.card = c}
                               /\ shown[c].of \in Family \cup {None}

ViewOK ==
    /\ family \in Family \cup {None}
    /\ panel \in {"opening", "signin", "passkey", "reset", "resuming", "console", "trouble", "closed"}
    /\ picked \subseteq Defaults /\ row \subseteq Defaults
    /\ lastCount \in Int /\ -1 <= lastCount /\ lastCount <= Cardinality(Item)

PageOK == KeysOK /\ ShownOK /\ ViewOK

BoundsOK == setting \in Settings /\ tapped \in Nat /\ mishaps \in Nat /\ IsFiniteSet(jobs)

TypeInv == ServerOK /\ PageOK /\ BoundsOK /\ JobsOK /\ OneLoop

\* Time goes on; a session that has ended does not come back.
Forward ==
    /\ era \in Nat /\ era' \in Nat /\ era <= era' /\ begun \subseteq begun'
    /\ \A s \in begun : s \notin open => s \notin open'

LEMMA TokenStays ==
    ASSUME Forward, NEW t, TokenOK(t)
    PROVE  TokenOK(t)'
  BY DEF TokenOK, Forward, Token

LEMMA JobStays ==
    ASSUME Forward, NEW j, JobOK(j)
    PROVE  JobOK(j)'
  <1>1. ShapeOK(j)' /\ ItemsOK(j)' /\ ArgOK(j)'
    BY DEF JobOK, ShapeOK, ItemsOK, ArgOK, Done
  <1>2. TokensOK(j)'
    <2>1. TokensOK(j)
      BY DEF JobOK
    <2>2. j.token # None => TokenOK(j.token)'
      BY <2>1, TokenStays DEF TokensOK
    <2>3. j.gets # None => TokenOK(j.gets)'
      BY <2>1, TokenStays DEF TokensOK
    <2>4. RefusedOK(j)'
      BY <2>1 DEF TokensOK, RefusedOK, Forward
    <2>5. QED
      BY <2>1, <2>2, <2>3, <2>4 DEF TokensOK, Forward, Done
  <1>3. QED
    BY <1>1, <1>2 DEF JobOK

-----------------------------------------------------------------------------
(* A request that is sent. *)

\* What is known of the page and the clock when a request is sent.
Sends == /\ Forward /\ family' \in Family \cup {None}
         /\ (token' # None => TokenOK(token)') /\ (mfa' # None => TokenOK(mfa)')

\* x is a request that has just been sent.
Out(x, todo) ==
    /\ DOMAIN x = JobFields /\ x.todo = todo /\ x.stage = "out" /\ x.try = "first"
    /\ x.token = (IF Head(todo) \in {"passkeyOptions", "passkeyLogin"} THEN mfa' ELSE token')
    /\ x.family = family' /\ x.status = "ok" /\ x.items = {} /\ x.gets = None

LEMMA SentFields ==
    ASSUME NEW j, NEW x, NEW todo, DOMAIN j = JobFields, x = Sent(j, todo)
    PROVE  /\ Out(x, todo)
           /\ x.fn = j.fn /\ x.n = j.n /\ x.arg = j.arg /\ x.made = j.made
           /\ x.standing = j.standing /\ x.row = j.row /\ x.next = j.next
  BY DEF Sent, JobFields, Out

LEMMA SentJob ==
    ASSUME Sends, NEW x, NEW todo \in Rests, Out(x, todo), ArgOK(x)
    PROVE  JobOK(x)'
  <1>1. ShapeOK(x)'
    BY DEF ShapeOK, Sends, Out
  <1>2. ItemsOK(x)'
    BY DEF ItemsOK, Out
  <1>3. TokensOK(x)'
    <2>1. x.token # None => TokenOK(x.token)'
      BY DEF Sends, Out
    <2>2. QED
      BY <2>1 DEF TokensOK, RefusedOK, Done, Out
  <1>4. ArgOK(x)'
    BY DEF ArgOK, Done, Defaults
  <1>5. QED
    BY <1>1, <1>2, <1>3, <1>4 DEF JobOK

LEMMA RestJob ==
    ASSUME Sends, NEW j, JobOK(j), Head(j.todo) = "createFamily" => Done(j), NEW x \in Rest(j)
    PROVE  JobOK(x)' /\ x.fn = j.fn
  <1>1. Tail(j.todo) # <<>> /\ x = Sent(j, Tail(j.todo))
    BY DEF Rest
  <1>2. DOMAIN j = JobFields /\ j.todo \in Rests /\ ArgOK(j)
    BY DEF JobOK, ShapeOK
  <1>3. PICK r : r = Tail(j.todo)
    OBVIOUS
  <1>4. x = Sent(j, r) /\ r \in Rests
    BY <1>1, <1>2, <1>3, RestHeads
  <1>5. /\ x.todo = r /\ x.arg = j.arg /\ x.made = j.made /\ x.next = j.next /\ x.row = j.row
        /\ ~Done(x)
    BY <1>2, <1>4, SentFields DEF Done, Out
  <1>6. ArgOK(x)
    <2>1. CASE j.todo \in EnterRest
      <3>1. r \in EnterRest
        BY <1>1, <1>3, <2>1, EnterRests
      <3>2. r \notin MakeRest /\ r \notin FoundRest /\ r # <<"put">>
        BY <3>1, EnterIsNotFound, EnterRests, MakeRests DEF EnterHeads
      <3>3. QED
        BY <1>2, <1>5, <2>1, <3>1, <3>2 DEF ArgOK
    <2>2. CASE j.todo \in FoundRest
      <3>1. r \in FoundRest \/ r = <<"picker">>
        BY <1>3, <2>2, FoundRests
      <3>2. r \notin MakeRest /\ r # <<"put">> /\ <<"picker">> \notin FoundRest
        BY <1>4, <3>1, RestHeads, FoundRests, EnterIsNotFound DEF FoundHeads, EnterRest, MeRest, SelectRest
      <3>3. QED
        BY <1>2, <1>5, <2>2, <3>1, <3>2 DEF ArgOK
    <2>3. CASE j.todo \in MakeRest
      <3>1. \/ r \in LoadRest
            \/ r = <<"create", "passkeys">> /\ j.todo = <<"passkeyCreation", "create", j.arg>>
        <4>1. CASE j.todo = <<"create", j.arg>>
          <5>1. PICK c \in {"children", "rules", "passkeys"} : c = j.arg
            BY <1>2, <2>3 DEF ArgOK
          <5>2. r = Tail(<<"create", c>>) /\ Tail(<<"create", c>>) = <<c>>
            BY <1>3, <4>1, <5>1
          <5>3. c \in Card
            BY DEF Card
          <5>4. <<c>> \in LoadRest
            BY <5>3, LoadHas
          <5>5. r = <<c>>
            BY <5>2
          <5>6. QED
            BY <5>4, <5>5
        <4>2. CASE j.todo = <<"passkeyCreation", "create", j.arg>>
          BY <1>3, <2>3, <4>2, MakeRests
        <4>3. QED
          BY <1>2, <2>3, <4>1, <4>2 DEF ArgOK
      <3>2. CASE r \in LoadRest
        <4>1. r \notin EnterRest \cup FoundRest \cup MakeRest /\ r # <<"put">>
          BY <1>4, <3>2, RestHeads, LoadRests, EnterRests, FoundRests, MakeRests DEF EnterHeads, FoundHeads, Card
        <4>2. QED
          BY <1>5, <4>1 DEF ArgOK
      <3>3. CASE r = <<"create", "passkeys">> /\ j.todo = <<"passkeyCreation", "create", j.arg>>
        <4>1. r \notin EnterRest \cup FoundRest /\ r # <<"put">> /\ j.arg = "passkeys"
          BY <1>2, <1>3, <2>3, <3>3, EnterRests, FoundRests DEF EnterHeads, FoundHeads
        <4>2. QED
          BY <1>5, <3>3, <4>1 DEF ArgOK
      <3>4. QED
        BY <3>1, <3>2, <3>3
    <2>4. CASE j.todo \in DropRest
      <3>1. r \in LoadRest
        BY <1>3, <2>4, DropRests
      <3>2. r \notin EnterRest \cup FoundRest \cup MakeRest /\ r # <<"put">>
        BY <1>4, <3>1, RestHeads, LoadRests, EnterRests, FoundRests, MakeRests DEF EnterHeads, FoundHeads, Card
      <3>3. QED
        BY <1>5, <3>2 DEF ArgOK
    <2>5. CASE j.todo \in LoadRest \cup SingleRest
      BY <1>1, <2>5, LoadRests, SingleRests
    <2>6. QED
      BY <1>2, <2>1, <2>2, <2>3, <2>4, <2>5 DEF Rests
  <1>7. QED
    BY <1>2, <1>4, <1>6, SentFields, SentJob

LEMMA CallFields ==
    ASSUME NEW fn, NEW todo, NEW x, x = Call(fn, todo)
    PROVE  Out(x, todo) /\ x.fn = fn /\ x.arg = None /\ x.made = None /\ x.row = {} /\ x.next = {}
  <1>1. PICK n : x = Sent([Blank EXCEPT !.fn = fn, !.n = n], todo)
    BY DEF Call
  <1>2. PICK b : b = [Blank EXCEPT !.fn = fn, !.n = n]
    OBVIOUS
  <1>3. DOMAIN b = JobFields /\ b.fn = fn /\ b.arg = None /\ b.made = None /\ b.row = {} /\ b.next = {}
    BY <1>2 DEF Blank, JobFields
  <1>4. x = Sent(b, todo)
    BY <1>1, <1>2
  <1>5. QED
    BY <1>3, <1>4, SentFields

\* A call that is about nothing yet.
LEMMA CallJob ==
    ASSUME Sends, NEW fn, NEW todo \in Rests, NEW x, x = Call(fn, todo), todo \notin MakeRest,
           todo \in FoundRest => Head(todo) = "createFamily"
    PROVE  JobOK(x)' /\ x.fn = fn
  <1>1. ArgOK(x)
    BY CallFields DEF ArgOK, Done, Out
  <1>2. QED
    BY <1>1, CallFields, SentJob

LEMMA LoadJobs ==
    ASSUME Sends, NEW cs \in SUBSET Card, NEW x \in Load(cs)
    PROVE  JobOK(x)' /\ x.fn \in Card /\ x.todo = <<x.fn>>
  <1>1. PICK c \in cs \cap setting.cards : x = Call(c, <<c>>)
    BY DEF Load
  <1>2. c \in Card
    BY <1>1
  <1>3. <<c>> \in Rests /\ <<c>> \notin MakeRest \cup FoundRest
    BY <1>2, LoadHas, LoadRests, MakeRests, FoundRests DEF Card, FoundHeads
  <1>4. QED
    BY <1>1, <1>2, <1>3, CallJob, CallFields DEF Out

-----------------------------------------------------------------------------
(* What happens to one call. *)

LEMMA OneMoves ==
    ASSUME TypeInv, Forward, NEW j \in jobs, NEW x, jobs' = (jobs \ {j}) \cup {x}, x.fn = j.fn \/ x.fn # "live",
           JobOK(x)'
    PROVE  JobsOK' /\ OneLoop' /\ IsFiniteSet(jobs)'
  <1>1. JobsOK'
    BY JobStays DEF TypeInv, JobsOK
  <1>2. OneLoop'
    BY DEF TypeInv, OneLoop
  <1>3. IsFiniteSet(jobs \ {j})
    BY FS_RemoveElement DEF TypeInv, BoundsOK
  <1>4. IsFiniteSet(jobs')
    BY <1>3, FS_AddElement
  <1>5. QED
    BY <1>1, <1>2, <1>4

LEMMA PageStays ==
    ASSUME TypeInv, Forward, UNCHANGED <<storage, page, bounds>>
    PROVE  PageOK' /\ (IsFiniteSet(jobs)' => BoundsOK')
  <1>1. \A t \in {token', refresh', mfa'} \ {None} : TokenOK(t)'
    BY TokenStays DEF TypeInv, PageOK, KeysOK, storage, page
  <1>2. UNCHANGED <<token, refresh, family, panel, mfa, shown, picked, row, lastCount, setting, tapped, mishaps>>
    BY DEF storage, page, bounds
  <1>3. KeysOK'
    BY <1>1, <1>2 DEF TypeInv, PageOK, KeysOK, Forward
  <1>5. ShownOK' /\ ViewOK'
    BY <1>2 DEF TypeInv, PageOK, ShownOK, ViewOK, Defaults
  <1>4. QED
    BY <1>2, <1>3, <1>5 DEF TypeInv, PageOK, BoundsOK

\* x is j with an answer.
Back(j, x) ==
    /\ DOMAIN x = JobFields /\ x.stage = "back" /\ x.token = None
    /\ x.fn = j.fn /\ x.n = j.n /\ x.todo = j.todo /\ x.try = j.try /\ x.arg = j.arg /\ x.made = j.made
    /\ x.standing = j.standing /\ x.row = j.row /\ x.next = j.next /\ x.family = j.family /\ x.known = j.known

LEMMA AnswerFields ==
    ASSUME NEW j \in jobs, DOMAIN j = JobFields, NEW status, NEW items, NEW gets, Answer(j, status, items, gets)
    PROVE  \E x : /\ jobs' = (jobs \ {j}) \cup {x} /\ Back(j, x)
                  /\ x.status = status /\ x.items = items /\ x.gets = gets
  <1>1. PICK x : /\ x = [j EXCEPT !.stage = "back", !.token = None, !.status = status, !.items = items, !.gets = gets]
                 /\ jobs' = (jobs \ {j}) \cup {x}
    BY DEF Answer
  <1>2. Back(j, x) /\ x.status = status /\ x.items = items /\ x.gets = gets
    BY <1>1 DEF Back, JobFields
  <1>3. QED
    BY <1>1, <1>2

\* A request is answered.
LEMMA AnswerJob ==
    ASSUME Forward, NEW j, JobOK(j), NEW x, Back(j, x),
           x.status \in {"ok", "401", "refused", "offline", "trouble", "upToDate"},
           x.items \subseteq {i \in Item : i.card = CardsOf(Head(j.todo))},
           x.gets # None => TokenOK(x.gets)',
           j.try = "refresh" => x.status \in {"ok", "offline", "trouble"} /\ (x.status = "ok" => x.gets # None /\ x.gets.session \in begun'),
           j.try # "refresh" /\ x.status = "ok" =>
               /\ Head(j.todo) \in SignIns => x.gets # None
               /\ Head(j.todo) # "createFamily"
    PROVE  JobOK(x)'
  <1>2. /\ DOMAIN x = JobFields /\ x.todo = j.todo /\ x.stage = "back" /\ x.try = j.try /\ x.fn = j.fn
        /\ x.arg = j.arg /\ x.family = j.family
        /\ x.made = j.made /\ x.next = j.next /\ x.row = j.row /\ x.token = None
    BY DEF Back
  <1>3. ShapeOK(x)'
    BY <1>2 DEF JobOK, ShapeOK
  <1>4. TokensOK(x)'
    BY <1>2 DEF TokensOK, RefusedOK, Done
  <1>5. ItemsOK(x)'
    BY <1>2 DEF ItemsOK
  <1>6. ArgOK(x)'
    BY <1>2 DEF JobOK, ArgOK, Done, Defaults
  <1>7. QED
    BY <1>2, <1>3, <1>4, <1>5, <1>6 DEF JobOK

LEMMA ImageFinite ==
    ASSUME NEW S, IsFiniteSet(S), NEW g, DOMAIN g = S, NEW T, T = {g[k] : k \in S}
    PROVE  IsFiniteSet(T) /\ Cardinality(T) <= Cardinality(S)
  <1>1. [k \in S |-> g[k]] \in Surjection(S, T)
    BY DEF Surjection
  <1>2. QED
    BY <1>1, FS_Surjection

LEMMA WokenFields ==
    ASSUME NEW js, NEW f, NEW y \in Woken(js, f), \A k \in js : DOMAIN k = JobFields
    PROVE  \E k \in js : /\ y = IF k.stage = "parked" /\ k.family = f THEN [k EXCEPT !.stage = "woken"] ELSE k
                         /\ y = k \/ (k.stage = "parked" /\ y.stage = "woken")
                         /\ DOMAIN y = JobFields
                         /\ \A a \in JobFields \ {"stage"} : y[a] = k[a]
  BY DEF Woken, JobFields

LEMMA WokenJob ==
    ASSUME Forward, NEW k, JobOK(k), NEW y, y = k \/ (k.stage = "parked" /\ y.stage = "woken"),
           DOMAIN y = JobFields, \A a \in JobFields \ {"stage"} : y[a] = k[a]
    PROVE  JobOK(y)'
  <1>1. CASE y = k
    BY <1>1, JobStays
  <1>2. CASE k.stage = "parked" /\ y.stage = "woken"
    <2>1. /\ y.fn = k.fn /\ y.todo = k.todo /\ y.try = k.try /\ y.token = k.token /\ y.family = k.family
          /\ y.status = k.status /\ y.items = k.items /\ y.gets = k.gets /\ y.arg = k.arg /\ y.made = k.made
          /\ y.next = k.next /\ y.row = k.row
      BY DEF JobFields
    <2>2. JobOK(k)'
      BY JobStays
    <2>3. ShapeOK(y)' /\ ItemsOK(y)'
      BY <1>2, <2>1, <2>2 DEF JobOK, ShapeOK, ItemsOK
    <2>4. TokensOK(y)'
      BY <1>2, <2>1, <2>2 DEF JobOK, TokensOK, RefusedOK, Done
    <2>5. k.todo = <<"wait">>
      BY <1>2 DEF JobOK, ShapeOK
    <2>6. ArgOK(y)'
      <3>1. Head(k.todo) = "wait" /\ k.todo \in Rests
        BY <2>5 DEF Rests, SingleRest
      <3>2. k.todo \notin EnterRest \cup FoundRest \cup MakeRest /\ k.todo # <<"put">>
        BY <2>5, <3>1, RestHeads DEF EnterHeads, FoundHeads
      <3>3. QED
        BY <2>1, <3>2 DEF ArgOK
    <2>7. QED
      BY <2>3, <2>4, <2>6 DEF JobOK
  <1>3. QED
    BY <1>1, <1>2

\* Feeds are woken, and perhaps one call goes on.
LEMMA WakeMoves ==
    ASSUME TypeInv, Forward, NEW j, NEW f, NEW N, jobs' = Woken(jobs \ {j}, f) \cup N,
           \/ N = {}
           \/ \E x : N = {x} /\ j \in jobs /\ x.fn = j.fn /\ JobOK(x)'
    PROVE  JobsOK' /\ OneLoop' /\ IsFiniteSet(jobs)'
  <1>1. \A k \in jobs : JobOK(k) /\ DOMAIN k = JobFields
    BY DEF TypeInv, JobsOK, JobOK, ShapeOK
  <1>2. \A y \in Woken(jobs \ {j}, f) :
            /\ JobOK(y)'
            /\ \E k \in jobs \ {j} : y.fn = k.fn
                  /\ y = IF k.stage = "parked" /\ k.family = f THEN [k EXCEPT !.stage = "woken"] ELSE k
    <2> SUFFICES ASSUME NEW y \in Woken(jobs \ {j}, f)
                 PROVE  /\ JobOK(y)'
                        /\ \E k \in jobs \ {j} : y.fn = k.fn
                              /\ y = IF k.stage = "parked" /\ k.family = f THEN [k EXCEPT !.stage = "woken"] ELSE k
      OBVIOUS
    <2>1. PICK k \in jobs \ {j} :
              /\ y = IF k.stage = "parked" /\ k.family = f THEN [k EXCEPT !.stage = "woken"] ELSE k
              /\ y = k \/ (k.stage = "parked" /\ y.stage = "woken")
              /\ DOMAIN y = JobFields
              /\ \A a \in JobFields \ {"stage"} : y[a] = k[a]
      BY <1>1, WokenFields
    <2>2. JobOK(y)'
      BY <1>1, <2>1, WokenJob
    <2>3. y.fn = k.fn
      BY <2>1 DEF JobFields
    <2>4. QED
      BY <2>1, <2>2, <2>3
  <1>3. JobsOK'
    BY <1>2 DEF JobsOK
  <1>4. OneLoop'
    <2> SUFFICES ASSUME NEW u \in jobs', NEW v \in jobs', u.fn = "live", v.fn = "live" PROVE u = v
      BY DEF OneLoop
    <2>1. \A h, k \in jobs : h.fn = "live" /\ k.fn = "live" => h = k
      BY DEF TypeInv, OneLoop
    <2>2. ASSUME NEW w \in N PROVE N = {w} /\ j \in jobs /\ w.fn = j.fn
      BY <2>2
    <2>3. CASE u \in Woken(jobs \ {j}, f) /\ v \in Woken(jobs \ {j}, f)
      <3>1. PICK h \in jobs \ {j} :
              /\ u.fn = h.fn
              /\ u = IF h.stage = "parked" /\ h.family = f THEN [h EXCEPT !.stage = "woken"] ELSE h
        BY <1>2, <2>3
      <3>2. PICK k \in jobs \ {j} :
              /\ v.fn = k.fn
              /\ v = IF k.stage = "parked" /\ k.family = f THEN [k EXCEPT !.stage = "woken"] ELSE k
        BY <1>2, <2>3
      <3>3. h = k
        BY <2>1, <3>1, <3>2
      <3>4. QED
        BY <3>1, <3>2, <3>3
    <2>4. CASE u \in N /\ v \in Woken(jobs \ {j}, f)
      <3>1. PICK k \in jobs \ {j} : v.fn = k.fn
        BY <1>2, <2>4
      <3>2. QED
        BY <2>1, <2>2, <2>4, <3>1
    <2>5. CASE v \in N /\ u \in Woken(jobs \ {j}, f)
      <3>1. PICK k \in jobs \ {j} : u.fn = k.fn
        BY <1>2, <2>5
      <3>2. QED
        BY <2>1, <2>2, <2>5, <3>1
    <2>6. CASE u \in N /\ v \in N
      BY <2>2, <2>6
    <2>7. QED
      BY <2>3, <2>4, <2>5, <2>6
  <1>5. IsFiniteSet(jobs)'
    <2>1. IsFiniteSet(jobs \ {j})
      BY FS_Subset DEF TypeInv, BoundsOK
    <2>2. PICK g : g = [k \in jobs \ {j} |-> IF k.stage = "parked" /\ k.family = f
                                               THEN [k EXCEPT !.stage = "woken"] ELSE k]
      OBVIOUS
    <2>3. DOMAIN g = jobs \ {j} /\ Woken(jobs \ {j}, f) = {g[k] : k \in jobs \ {j}}
      BY <2>2 DEF Woken
    <2>4. IsFiniteSet(Woken(jobs \ {j}, f))
      BY <2>1, <2>3, ImageFinite
    <2>5. IsFiniteSet(N)
      BY FS_EmptySet, FS_Singleton
    <2>6. QED
      BY <2>4, <2>5, FS_Union
  <1>6. QED
    BY <1>3, <1>4, <1>5

-----------------------------------------------------------------------------
(* The API keeps the types. *)

LEMMA Handled ==
    ASSUME TypeInv, Forward, ServerOK', UNCHANGED <<storage, page, bounds>>,
           NEW j \in jobs, NEW x, jobs' = (jobs \ {j}) \cup {x}, x.fn = j.fn, JobOK(x)'
    PROVE  TypeInv'
  BY OneMoves, PageStays DEF TypeInv

LEMMA SameServer ==
    ASSUME TypeInv, UNCHANGED server
    PROVE  Forward /\ ServerOK'
  BY DEF TypeInv, ServerOK, server, Forward

LEMMA JobFacts ==
    ASSUME TypeInv, NEW j \in jobs
    PROVE  /\ JobOK(j) /\ DOMAIN j = JobFields /\ j.todo \in Rests /\ TokensOK(j) /\ ItemsOK(j) /\ ArgOK(j)
           /\ j.stage \in {"listed", "parked", "woken", "resting"} =>
                 j.todo = <<"wait">> /\ Head(j.todo) = "wait" /\ j.try # "refresh"
  <1>1. Head(<<"wait">>) = "wait"
    OBVIOUS
  <1>2. QED
    BY <1>1 DEF TypeInv, JobsOK, JobOK, ShapeOK

\* An answer without rows or tokens.
LEMMA PlainAnswer ==
    ASSUME TypeInv, Forward, NEW j \in jobs, NEW status, Answer(j, status, {}, None),
           status \in {"ok", "401", "refused", "offline", "trouble", "upToDate"},
           j.try = "refresh" => status \in {"offline", "trouble"},
           status = "ok" => Head(j.todo) \notin SignIns \cup {"createFamily"}
    PROVE  \E x : jobs' = (jobs \ {j}) \cup {x} /\ x.fn = j.fn /\ JobOK(x)'
  <1>1. PICK x : /\ jobs' = (jobs \ {j}) \cup {x} /\ Back(j, x)
                 /\ x.status = status /\ x.items = {} /\ x.gets = None
    BY JobFacts, AnswerFields
  <1>2. JobOK(x)'
    BY <1>1, JobFacts, AnswerJob
  <1>3. QED
    BY <1>1, <1>2 DEF Back

\* An answer with a list.
LEMMA ListAnswer ==
    ASSUME TypeInv, Forward, NEW j \in jobs, NEW status, NEW items, Answer(j, status, items, None),
           items \subseteq {i \in Item : i.card = CardsOf(Head(j.todo))},
           status \in {"ok", "upToDate"}, j.try # "refresh", Head(j.todo) \notin SignIns \cup {"createFamily"}
    PROVE  \E x : jobs' = (jobs \ {j}) \cup {x} /\ x.fn = j.fn /\ JobOK(x)'
  <1>1. PICK x : /\ jobs' = (jobs \ {j}) \cup {x} /\ Back(j, x)
                 /\ x.status = status /\ x.items = items /\ x.gets = None
    BY JobFacts, AnswerFields
  <1>2. JobOK(x)'
    BY <1>1, JobFacts, AnswerJob
  <1>3. QED
    BY <1>1, <1>2 DEF Back

\* An answer with a token.
LEMMA TokenAnswer ==
    ASSUME TypeInv, Forward, NEW j \in jobs, NEW gets, Answer(j, "ok", {}, gets),
           gets # None, TokenOK(gets)', Head(j.todo) # "createFamily" \/ j.try = "refresh",
           j.try = "refresh" => gets.session \in begun'
    PROVE  \E x : jobs' = (jobs \ {j}) \cup {x} /\ x.fn = j.fn /\ JobOK(x)'
  <1>1. PICK x : /\ jobs' = (jobs \ {j}) \cup {x} /\ Back(j, x)
                 /\ x.status = "ok" /\ x.items = {} /\ x.gets = gets
    BY JobFacts, AnswerFields
  <1>2. JobOK(x)'
    BY <1>1, JobFacts, AnswerJob
  <1>3. QED
    BY <1>1, <1>2 DEF Back

LEMMA ListedRows ==
    ASSUME TypeInv, NEW c, NEW f
    PROVE  ListOf(c, f) \subseteq {i \in Item : i.card = c}
  BY DEF ListOf, TypeInv, ServerOK

LEMMA RefuseTypes ==
    ASSUME TypeInv, NEW j \in jobs, UNCHANGED <<storage, page, bounds>>, Refuse(j)
    PROVE  TypeInv'
  BY SameServer, PlainAnswer, Handled DEF Refuse

LEMMA RefreshTypes ==
    ASSUME TypeInv, NEW j \in jobs, UNCHANGED <<storage, page, bounds>>, HandleRefresh(j)
    PROVE  TypeInv'
  <1>1. j.stage = "out" /\ j.try = "refresh" /\ Forward /\ ServerOK' /\ UNCHANGED <<open, begun, era>>
    BY SameServer DEF HandleRefresh, server
  <1>2. /\ j.token # None /\ j.token.session \in begun /\ TokenOK(j.token) /\ begun \subseteq Session /\ era \in Nat
    BY <1>1, JobFacts DEF TokensOK, TypeInv, ServerOK
  <1>3. CASE j.token.session \in open
    <2>1. PICK g : g = [session |-> j.token.session, era |-> era]
      OBVIOUS
    <2>2. g \in Token /\ g # None /\ g.session \in begun /\ g.era = era
      BY <1>2, <2>1, ConsoleAssumption DEF Token
    <2>3. TokenOK(g)'
      BY <1>1, <1>2, <2>2 DEF TokenOK
    <2>4. Answer(j, "ok", {}, g)
      BY <1>3, <2>1 DEF HandleRefresh
    <2>5. QED
      BY <1>1, <2>2, <2>3, <2>4, TokenAnswer, Handled
  <1>4. CASE j.token.session \notin open
    <2>1. PICK x : x = [j EXCEPT !.stage = "back", !.status = "401"] /\ jobs' = (jobs \ {j}) \cup {x}
      BY <1>4 DEF HandleRefresh
    <2>2. /\ DOMAIN x = JobFields /\ x.stage = "back" /\ x.status = "401"
          /\ \A a \in JobFields \ {"stage", "status"} : x[a] = j[a]
      BY <2>1, JobFacts DEF JobFields
    <2>3. /\ x.fn = j.fn /\ x.todo = j.todo /\ x.try = j.try /\ x.token = j.token /\ x.family = j.family
          /\ x.items = j.items /\ x.gets = j.gets /\ x.arg = j.arg /\ x.made = j.made
          /\ x.next = j.next /\ x.row = j.row
      BY <2>2 DEF JobFields
    <2>4. JobOK(j)'
      BY <1>1, JobFacts, JobStays
    <2>5. ShapeOK(x)' /\ ItemsOK(x)'
      BY <2>2, <2>3, <2>4 DEF JobOK, ShapeOK, ItemsOK
    <2>6. TokensOK(x)'
      BY <1>1, <1>2, <1>4, <2>2, <2>3, <2>4 DEF JobOK, TokensOK, RefusedOK, Done
    <2>7. ArgOK(x)'
      BY <1>1, <2>2, <2>3, <2>4 DEF JobOK, ArgOK, Done
    <2>8. QED
      BY <1>1, <2>1, <2>3, <2>5, <2>6, <2>7, Handled DEF JobOK
  <1>5. QED
    BY <1>3, <1>4

LEMMA SignInTypes ==
    ASSUME TypeInv, NEW j \in jobs, UNCHANGED <<storage, page, bounds>>, HandleSignIn(j)
    PROVE  TypeInv'
  <1>1. PICK s : s = CHOOSE x \in Session : x \notin begun
    OBVIOUS
  <1>2. /\ j.stage = "out" /\ j.try # "refresh" /\ Head(j.todo) \in SignIns
        /\ UNCHANGED <<rows, mine, era, asked, made, dropped>>
    BY DEF HandleSignIn, Asking
  <1>3. \/ Answer(j, "401", {}, None) /\ UNCHANGED <<open, begun>>
        \/ Answer(j, "ok", {}, [session |-> None, era |-> era]) /\ UNCHANGED <<open, begun>>
        \/ /\ begun # Session /\ begun' = begun \cup {s} /\ open' \subseteq open \cup {s}
           /\ Answer(j, "ok", {}, [session |-> s, era |-> era])
    BY <1>1 DEF HandleSignIn
  <1>4. Head(j.todo) # "createFamily" /\ era \in Nat /\ open \subseteq begun /\ begun \subseteq Session
    BY <1>2 DEF SignIns, TypeInv, ServerOK
  <1>5. CASE Answer(j, "401", {}, None) /\ UNCHANGED <<open, begun>>
    <2>1. Forward /\ ServerOK'
      BY <1>2, <1>5 DEF TypeInv, ServerOK, Forward
    <2>2. QED
      BY <1>2, <1>5, <2>1, PlainAnswer, Handled
  <1>6. CASE Answer(j, "ok", {}, [session |-> None, era |-> era]) /\ UNCHANGED <<open, begun>>
    <2>1. Forward /\ ServerOK'
      BY <1>2, <1>6 DEF TypeInv, ServerOK, Forward
    <2>2. PICK g : g = [session |-> None, era |-> era]
      OBVIOUS
    <2>3. g # None /\ TokenOK(g)'
      BY <1>2, <1>4, <2>2, ConsoleAssumption DEF TokenOK, Token
    <2>4. QED
      BY <1>2, <1>4, <1>6, <2>1, <2>2, <2>3, TokenAnswer, Handled
  <1>7. CASE /\ begun # Session /\ begun' = begun \cup {s} /\ open' \subseteq open \cup {s}
             /\ Answer(j, "ok", {}, [session |-> s, era |-> era])
    <2>1. s \in Session /\ s \notin begun
      BY <1>1, <1>4, <1>7
    <2>2. Forward /\ ServerOK'
      BY <1>2, <1>4, <1>7, <2>1 DEF TypeInv, ServerOK, Forward
    <2>3. PICK g : g = [session |-> s, era |-> era]
      OBVIOUS
    <2>4. g # None /\ TokenOK(g)'
      BY <1>2, <1>4, <1>7, <2>1, <2>3, ConsoleAssumption DEF TokenOK, Token
    <2>5. QED
      BY <1>2, <1>4, <1>7, <2>2, <2>3, <2>4, TokenAnswer, Handled
  <1>8. QED
    BY <1>3, <1>5, <1>6, <1>7

LEMMA MailTypes ==
    ASSUME TypeInv, NEW j \in jobs, UNCHANGED <<storage, page, bounds>>, HandleMail(j) \/ HandleOptions(j)
    PROVE  TypeInv'
  <1>1. Forward /\ ServerOK' /\ Answer(j, "ok", {}, None) /\ j.try # "refresh"
        /\ Head(j.todo) \in {"register", "forgot", "passkeyCreation", "enroll", "passkeyOptions"}
    BY DEF HandleMail, HandleOptions, Ok, Asking, Authorized, TypeInv, ServerOK, Forward, server
  <1>2. QED
    BY <1>1, PlainAnswer, Handled DEF SignIns

LEMMA ListTypes ==
    ASSUME TypeInv, NEW j \in jobs, UNCHANGED <<storage, page, bounds>>, HandleList(j)
    PROVE  TypeInv'
  <1>1. Forward /\ ServerOK'
    BY SameServer DEF HandleList
  <1>2. /\ j.try # "refresh" /\ Head(j.todo) \in {"select", "selectMade"} \cup Card
        /\ Answer(j, "ok", ListOf(CardOf(Head(j.todo)), j.family), None)
    BY DEF HandleList, Authorized, Asking
  <1>3. /\ CardsOf(Head(j.todo)) = CardOf(Head(j.todo))
        /\ Head(j.todo) \notin SignIns \cup {"createFamily"}
    BY <1>2 DEF CardsOf, Card, SignIns
  <1>4. ListOf(CardOf(Head(j.todo)), j.family) \subseteq {i \in Item : i.card = CardsOf(Head(j.todo))}
    BY <1>3, ListedRows
  <1>5. QED
    BY <1>1, <1>2, <1>3, <1>4, ListAnswer, Handled

\* The feed goes from one of its stages to another.
LEMMA FeedJob ==
    ASSUME Forward, NEW j, JobOK(j), j.todo = <<"wait">>, j.try # "refresh", NEW x, DOMAIN x = JobFields,
           x.stage \in {"listed", "parked", "resting"},
           x.status \in {"ok", "401", "refused", "offline", "trouble", "upToDate"},
           x.items \subseteq {i \in Item : i.card = "asks"},
           x.todo = j.todo, x.try = j.try, x.token = j.token, x.family = j.family, x.gets = j.gets
    PROVE  JobOK(x)'
  <1>1. JobOK(j)'
    BY JobStays
  <1>2. Head(<<"wait">>) = "wait" /\ x.todo \in Rests
    BY DEF JobOK, ShapeOK
  <1>3. ShapeOK(x)'
    BY <1>1 DEF JobOK, ShapeOK
  <1>4. ItemsOK(x)'
    BY <1>2 DEF ItemsOK, CardsOf
  <1>5. TokensOK(x)'
    BY <1>1 DEF JobOK, TokensOK, RefusedOK, Done
  <1>6. ArgOK(x)'
    <2>1. x.todo \notin EnterRest \cup FoundRest \cup MakeRest /\ x.todo # <<"put">>
      BY <1>2, RestHeads DEF EnterHeads, FoundHeads
    <2>2. QED
      BY <2>1 DEF ArgOK
  <1>7. QED
    BY <1>3, <1>4, <1>5, <1>6 DEF JobOK

LEMMA FeedTypes ==
    ASSUME TypeInv, NEW j \in jobs, UNCHANGED <<storage, page, bounds>>,
           ListPending(j) \/ Compare(j) \/ ListAgain(j) \/ TimeOut(j)
    PROVE  TypeInv'
  <1>1. Forward /\ ServerOK'
    BY SameServer DEF ListPending, Compare, ListAgain, TimeOut
  <1>2. j.todo = <<"wait">> /\ Head(j.todo) = "wait" /\ j.try # "refresh"
    BY JobFacts DEF ListPending, Compare, ListAgain, TimeOut, At
  <1>3. CardsOf(Head(j.todo)) = "asks" /\ "wait" \notin SignIns \cup {"createFamily"}
    BY <1>2 DEF CardsOf, SignIns
  <1>4. /\ ListOf("asks", j.family) \subseteq {i \in Item : i.card = CardsOf(Head(j.todo))}
        /\ j.items \subseteq {i \in Item : i.card = CardsOf(Head(j.todo))}
    BY <1>3, ListedRows, JobFacts DEF ItemsOK
  <1>5. CASE ListPending(j)
    <2>1. PICK x : x = [j EXCEPT !.stage = "listed", !.items = ListOf("asks", j.family)]
                   /\ jobs' = (jobs \ {j}) \cup {x}
      BY <1>5 DEF ListPending
    <2>2. /\ DOMAIN x = JobFields /\ x.stage = "listed" /\ x.items = ListOf("asks", j.family) /\ x.todo = j.todo
          /\ x.try = j.try /\ x.token = j.token /\ x.family = j.family /\ x.gets = j.gets /\ x.status = j.status
          /\ x.fn = j.fn
      BY <2>1, JobFacts DEF JobFields
    <2>3. JobOK(x)'
      BY <1>1, <1>2, <1>3, <1>4, <2>2, JobFacts, FeedJob DEF JobOK, ShapeOK
    <2>4. QED
      BY <1>1, <2>1, <2>2, <2>3, Handled
  <1>6. CASE Compare(j)
    <2>1. CASE Answer(j, "ok", j.items, None)
      BY <1>1, <1>2, <1>3, <1>4, <2>1, ListAnswer, Handled
    <2>2. CASE jobs' = (jobs \ {j}) \cup {[j EXCEPT !.stage = "parked"]}
      <3>1. PICK x : x = [j EXCEPT !.stage = "parked"] /\ jobs' = (jobs \ {j}) \cup {x}
        BY <2>2
      <3>2. /\ DOMAIN x = JobFields /\ x.stage = "parked" /\ x.items = j.items /\ x.todo = j.todo
            /\ x.try = j.try /\ x.token = j.token /\ x.family = j.family /\ x.gets = j.gets /\ x.status = j.status
            /\ x.fn = j.fn
        BY <3>1, JobFacts DEF JobFields
      <3>3. JobOK(x)'
        BY <1>1, <1>2, <1>3, <1>4, <3>2, JobFacts, FeedJob DEF JobOK, ShapeOK
      <3>4. QED
        BY <1>1, <3>1, <3>2, <3>3, Handled
    <2>3. QED
      BY <1>6, <2>1, <2>2 DEF Compare
  <1>7. CASE ListAgain(j)
    <2>1. Answer(j, "ok", ListOf("asks", j.family), None)
      BY <1>7 DEF ListAgain
    <2>2. QED
      BY <1>1, <1>2, <1>3, <1>4, <2>1, ListAnswer, Handled
  <1>8. CASE TimeOut(j)
    <2>1. Answer(j, "upToDate", j.items, None)
      BY <1>8 DEF TimeOut
    <2>2. QED
      BY <1>1, <1>2, <1>3, <1>4, <2>1, ListAnswer, Handled
  <1>9. QED
    BY <1>5, <1>6, <1>7, <1>8

\* A family or a pick among families comes with the answer.
LEMMA FamilyJob ==
    ASSUME Forward, NEW j, JobOK(j), j.stage = "out", j.try # "refresh", NEW x, DOMAIN x = JobFields,
           x.stage = "back", x.token = None, x.todo = j.todo, x.try = j.try, x.family = j.family,
           x.status = j.status, x.items = j.items, x.gets = j.gets,
           Head(j.todo) \in {"me", "picker", "createFamily"}, x.arg \in Family \cup {None},
           x.made \in Family \/ (x.made = j.made /\ Head(j.todo) # "createFamily")
    PROVE  JobOK(x)'
  <1>1. JobOK(j)' /\ j.todo \in Rests
    BY JobStays DEF JobOK, ShapeOK
  <1>2. ShapeOK(x)' /\ ItemsOK(x)'
    BY <1>1 DEF JobOK, ShapeOK, ItemsOK
  <1>3. TokensOK(x)'
    BY <1>1 DEF JobOK, TokensOK, RefusedOK, Done, SignIns
  <1>4. ArgOK(x)'
    <2>1. x.todo \notin MakeRest /\ x.todo # <<"put">>
      BY <1>1, RestHeads DEF EnterHeads, FoundHeads
    <2>2. QED
      BY <1>1, <2>1 DEF JobOK, ArgOK
  <1>5. QED
    BY <1>2, <1>3, <1>4 DEF JobOK

LEMMA MeTypes ==
    ASSUME TypeInv, NEW j \in jobs, UNCHANGED <<storage, page, bounds>>, HandleMe(j)
    PROVE  TypeInv'
  <1>1. Forward /\ ServerOK'
    BY SameServer DEF HandleMe
  <1>2. PICK f : f = IF mine = {} THEN None ELSE CHOOSE g \in mine : TRUE
    OBVIOUS
  <1>3. f \in Family \cup {None}
    BY <1>2 DEF TypeInv, ServerOK
  <1>4. PICK x : x = [j EXCEPT !.stage = "back", !.token = None, !.arg = f] /\ jobs' = (jobs \ {j}) \cup {x}
    BY <1>2 DEF HandleMe
  <1>5. /\ DOMAIN x = JobFields /\ x.stage = "back" /\ x.token = None /\ x.arg = f /\ x.todo = j.todo
        /\ x.try = j.try /\ x.family = j.family /\ x.gets = j.gets /\ x.status = j.status
        /\ x.fn = j.fn /\ x.items = j.items /\ x.made = j.made
    BY <1>4, JobFacts DEF JobFields
  <1>6. j.stage = "out" /\ j.try # "refresh" /\ Head(j.todo) \in {"me", "picker"}
    BY DEF HandleMe, Authorized, Asking
  <1>7. JobOK(x)'
    BY <1>1, <1>3, <1>5, <1>6, JobFacts, FamilyJob
  <1>8. QED
    BY <1>1, <1>4, <1>5, <1>7, Handled

LEMMA CreateFamilyTypes ==
    ASSUME TypeInv, NEW j \in jobs, UNCHANGED <<storage, page, bounds>>, HandleCreateFamily(j)
    PROVE  TypeInv'
  <1>1. PICK f : f = CHOOSE g \in Family : g \notin mine
    OBVIOUS
  <1>2. /\ mine # Family /\ mine' = mine \cup {f} /\ UNCHANGED <<rows, open, begun, era, asked, made, dropped>>
        /\ jobs' = (jobs \ {j}) \cup {[j EXCEPT !.stage = "back", !.token = None, !.made = f]}
        /\ j.stage = "out" /\ j.try # "refresh" /\ Head(j.todo) = "createFamily"
    BY <1>1 DEF HandleCreateFamily, Authorized, Asking
  <1>3. f \in Family
    BY <1>1, <1>2 DEF TypeInv, ServerOK
  <1>4. Forward /\ ServerOK'
    BY <1>2, <1>3 DEF TypeInv, ServerOK, Forward
  <1>5. PICK x : x = [j EXCEPT !.stage = "back", !.token = None, !.made = f] /\ jobs' = (jobs \ {j}) \cup {x}
    BY <1>2
  <1>6. /\ DOMAIN x = JobFields /\ x.stage = "back" /\ x.token = None /\ x.arg = j.arg /\ x.todo = j.todo
        /\ x.try = j.try /\ x.family = j.family /\ x.gets = j.gets /\ x.status = j.status
        /\ x.fn = j.fn /\ x.items = j.items /\ x.made = f
    BY <1>5, JobFacts DEF JobFields
  <1>7. j.arg \in Family \cup {None}
    BY <1>2, JobFacts, RestHeads DEF ArgOK, EnterHeads, FoundHeads, Rests, Card, SingleHeads
  <1>8. JobOK(x)'
    BY <1>2, <1>3, <1>4, <1>6, <1>7, JobFacts, FamilyJob
  <1>9. QED
    BY <1>4, <1>5, <1>6, <1>8, Handled

LEMMA NewRow ==
    ASSUME NEW card \in Card, NEW f, f \in Family \/ card = "passkeys", Fresh # {}
    PROVE  New(card, f) \in Item /\ New(card, f).card = card /\ New(card, f).id \in Fresh
  <1>1. PICK id : id = CHOOSE k \in Fresh : TRUE
    OBVIOUS
  <1>2. id \in Fresh /\ id \in Id
    BY <1>1 DEF Fresh
  <1>3. PICK new : new = New(card, f)
    OBVIOUS
  <1>4. new = [card |-> card, family |-> IF card = "passkeys" THEN None ELSE f, id |-> id]
    BY <1>1, <1>3 DEF New
  <1>5. new \in Item
    <2>1. CASE card = "passkeys"
      BY <1>2, <1>4, <2>1 DEF Item
    <2>2. CASE card # "passkeys"
      BY <1>2, <1>4, <2>2 DEF Item
    <2>3. QED
      BY <2>1, <2>2
  <1>6. QED
    BY <1>2, <1>3, <1>4, <1>5

LEMMA CreateTypes ==
    ASSUME TypeInv, NEW j \in jobs, UNCHANGED <<storage, page, bounds>>, HandleCreate(j)
    PROVE  TypeInv'
  <1>1. /\ j.try # "refresh" /\ Head(j.todo) = "create" /\ Fresh # {} /\ Answer(j, "ok", {}, None)
        /\ UNCHANGED <<mine, open, begun, era, asked, dropped>>
        /\ rows' = rows \cup {New(j.arg, j.family)} /\ made' = made \cup {New(j.arg, j.family)}
    BY DEF HandleCreate, Authorized, Asking, Ok, Make
  <1>2. j.arg \in Card /\ (j.family \in Family \/ j.arg = "passkeys")
    <2>1. j.todo \in MakeRest
      BY <1>1, JobFacts, RestHeads
    <2>2. QED
      BY <2>1, JobFacts DEF JobOK, ShapeOK, ArgOK, Card
  <1>3. New(j.arg, j.family) \in Item
    BY <1>1, <1>2, NewRow
  <1>4. Forward /\ ServerOK'
    BY <1>1, <1>3 DEF TypeInv, ServerOK, Forward
  <1>5. Head(j.todo) \notin SignIns \cup {"createFamily"}
    BY <1>1 DEF SignIns
  <1>6. QED
    BY <1>1, <1>4, <1>5, PlainAnswer, Handled

LEMMA DeleteTypes ==
    ASSUME TypeInv, NEW j \in jobs, UNCHANGED <<storage, page, bounds>>, HandleDelete(j)
    PROVE  TypeInv'
  <1>1. PICK hit : /\ hit \subseteq rows /\ rows' = rows \ hit /\ dropped' = dropped \cup hit
                   /\ UNCHANGED <<mine, open, begun, era, asked, made>>
    BY DEF HandleDelete, Drop, ListOf
  <1>2. PICK status \in {"ok", "refused"} : Answer(j, status, {}, None)
    BY DEF HandleDelete
  <1>3. j.try # "refresh" /\ Head(j.todo) \notin SignIns \cup {"createFamily"}
    BY DEF HandleDelete, Authorized, Asking, SignIns
  <1>4. Forward /\ ServerOK'
    BY <1>1 DEF TypeInv, ServerOK, Forward
  <1>5. QED
    BY <1>2, <1>3, <1>4, PlainAnswer, Handled

LEMMA DecideTypes ==
    ASSUME TypeInv, NEW j \in jobs, UNCHANGED <<storage, page, bounds>>, HandleDecide(j)
    PROVE  TypeInv'
  <1>1. /\ j.stage = "out" /\ j.try # "refresh" /\ Head(j.todo) = "decide"
        /\ UNCHANGED <<mine, open, begun, era, asked, dropped>>
    BY DEF HandleDecide, Authorized, Asking
  <1>2. CASE Answer(j, "refused", {}, None) /\ UNCHANGED <<rows, made>>
    <2>1. Forward /\ ServerOK'
      BY <1>1, <1>2 DEF TypeInv, ServerOK, Forward
    <2>2. QED
      BY <1>1, <1>2, <2>1, PlainAnswer, Handled
  <1>3. ASSUME NEW answer, answer = New(IF j.standing THEN "rules" ELSE "grants", j.family),
               j.arg \in ListOf("asks", j.family), Fresh # {}, rows' = (rows \ {j.arg}) \cup {answer},
               made' = made \cup {answer},
               jobs' = Woken(jobs \ {j}, j.family) \cup
                       {[j EXCEPT !.stage = "back", !.token = None, !.made = answer]}
        PROVE  TypeInv'
    <2>1. j.arg \in Item /\ j.arg.card = "asks" /\ j.arg.family = j.family
      BY <1>3 DEF ListOf, TypeInv, ServerOK
    <2>2. j.family \in Family
      BY <2>1 DEF Item
    <2>3. answer \in Item
      <3>1. PICK c \in {"rules", "grants"} : answer = New(c, j.family)
        BY <1>3
      <3>2. c \in Card
        BY DEF Card
      <3>3. QED
        BY <1>3, <2>2, <3>1, <3>2, NewRow
    <2>4. Forward /\ ServerOK'
      BY <1>1, <1>3, <2>3 DEF TypeInv, ServerOK, Forward
    <2>5. PICK x : /\ x = [j EXCEPT !.stage = "back", !.token = None, !.made = answer]
                   /\ jobs' = Woken(jobs \ {j}, j.family) \cup {x}
      BY <1>3
    <2>6. /\ DOMAIN x = JobFields /\ x.stage = "back" /\ x.token = None /\ x.arg = j.arg /\ x.todo = j.todo
          /\ x.try = j.try /\ x.family = j.family /\ x.gets = j.gets /\ x.status = j.status
          /\ x.fn = j.fn /\ x.items = j.items /\ x.next = j.next /\ x.row = j.row
      BY <2>5, JobFacts DEF JobFields
    <2>7. JobOK(j)'
      BY <2>4, JobFacts, JobStays
    <2>8. ShapeOK(x)' /\ ItemsOK(x)'
      BY <2>6, <2>7, <1>1 DEF JobOK, ShapeOK, ItemsOK
    <2>9. TokensOK(x)'
      BY <2>6, <2>7, <1>1 DEF JobOK, TokensOK, RefusedOK, Done, SignIns
    <2>10. ArgOK(x)'
      <3>1. j.todo \notin EnterRest \cup FoundRest \cup MakeRest /\ j.todo # <<"put">>
        BY <1>1, JobFacts, RestHeads DEF EnterHeads, FoundHeads
      <3>2. QED
        BY <2>6, <3>1 DEF ArgOK
    <2>11. JobOK(x)'
      BY <2>8, <2>9, <2>10 DEF JobOK
    <2>12. JobsOK' /\ OneLoop' /\ IsFiniteSet(jobs)'
      <3>1. PICK N : N = {x}
        OBVIOUS
      <3>2. jobs' = Woken(jobs \ {j}, j.family) \cup N
        BY <2>5, <3>1
      <3>3. QED
        BY <2>4, <2>6, <2>11, <3>1, <3>2, WakeMoves
    <2>13. QED
      BY <2>4, <2>12, PageStays DEF TypeInv
  <1>4. QED
    BY <1>2, <1>3 DEF HandleDecide

LEMMA PutTypes ==
    ASSUME TypeInv, NEW j \in jobs, UNCHANGED <<storage, page, bounds>>, HandlePut(j) \/ HandleLogout(j)
    PROVE  TypeInv'
  <1>1. /\ j.try # "refresh" /\ Answer(j, "ok", {}, None) /\ Head(j.todo) \in {"put", "logout", "deleteMe"}
        /\ UNCHANGED <<mine, begun, era, asked, made, dropped>>
    BY DEF HandlePut, HandleLogout, Authorized, Asking, Ok
  <1>2. open' \subseteq open
    BY DEF HandlePut, HandleLogout
  <1>3. rows' \subseteq Item
    <2>1. CASE HandlePut(j)
      <3>1. Head(j.todo) = "put" /\ rows' = (rows \ ListOf("defaults", j.family)) \cup j.next
        BY <2>1 DEF HandlePut, Authorized, Asking
      <3>2. j.todo = <<"put">>
        BY <3>1, JobFacts, RestHeads DEF SingleHeads
      <3>3. j.next \subseteq Item
        BY <3>2, JobFacts DEF ArgOK, Defaults
      <3>4. QED
        BY <3>1, <3>3 DEF TypeInv, ServerOK
    <2>2. CASE HandleLogout(j)
      BY <2>2 DEF HandleLogout, TypeInv, ServerOK
    <2>3. QED
      BY <2>1, <2>2
  <1>4. Forward /\ ServerOK'
    BY <1>1, <1>2, <1>3 DEF TypeInv, ServerOK, Forward
  <1>5. Head(j.todo) \notin SignIns \cup {"createFamily"}
    BY <1>1 DEF SignIns
  <1>6. QED
    BY <1>1, <1>4, <1>5, PlainAnswer, Handled

LEMMA HandleTypes ==
    ASSUME TypeInv, NEW j \in jobs, UNCHANGED <<storage, page, bounds>>, Handle(j)
    PROVE  TypeInv'
  BY RefuseTypes, RefreshTypes, SignInTypes, MailTypes, MeTypes, ListTypes, CreateTypes, CreateFamilyTypes,
     DeleteTypes, DecideTypes, PutTypes, FeedTypes DEF Handle

-----------------------------------------------------------------------------
(* The page keeps the types. *)

LEMMA PageSends ==
    ASSUME Forward, PageOK'
    PROVE  Sends
  BY DEF PageOK, KeysOK, ViewOK, Sends

LEMMA KeysStay ==
    ASSUME TypeInv, Forward, UNCHANGED <<token, refresh, mfa>>
    PROVE  KeysOK'
  <1>1. \A t \in {token', refresh', mfa'} \ {None} : TokenOK(t)'
    BY TokenStays DEF TypeInv, PageOK, KeysOK
  <1>2. QED
    BY <1>1 DEF TypeInv, PageOK, KeysOK, Forward

LEMMA ShownStays ==
    ASSUME TypeInv, UNCHANGED <<shown, setting>>
    PROVE  ShownOK'
  BY DEF TypeInv, PageOK, ShownOK

LEMMA ViewStays ==
    ASSUME TypeInv, UNCHANGED <<family, panel, picked, row, lastCount>>
    PROVE  ViewOK'
  BY DEF TypeInv, PageOK, ViewOK, Defaults

LEMMA Delivered ==
    ASSUME TypeInv, UNCHANGED <<server, bounds>>, PageOK', JobsOK', OneLoop', IsFiniteSet(jobs)'
    PROVE  TypeInv'
  BY SameServer DEF TypeInv, BoundsOK, bounds

\* One call is over or goes on, and others begin.
LEMMA JobsGo ==
    ASSUME TypeInv, Forward, NEW j \in jobs, NEW R, NEW others, jobs' = (jobs \ {j}) \cup R \cup others,
           \A x \in R : JobOK(x)' /\ x.fn = j.fn, \A x, y \in R : x = y, IsFiniteSet(R),
           \A x \in others : JobOK(x)' /\ (x.fn = "live" => ~Watched),
           \A x, y \in others : x.fn = "live" /\ y.fn = "live" => x = y, IsFiniteSet(others)
    PROVE  JobsOK' /\ OneLoop' /\ IsFiniteSet(jobs)'
  <1>1. JobsOK'
    BY JobStays DEF TypeInv, JobsOK
  <1>2. OneLoop'
    BY DEF TypeInv, OneLoop, Watched
  <1>3. IsFiniteSet(jobs \ {j})
    BY FS_RemoveElement DEF TypeInv, BoundsOK
  <1>4. IsFiniteSet(jobs')
    BY <1>3, FS_Union
  <1>5. QED
    BY <1>1, <1>2, <1>4

LEMMA RestOne ==
    ASSUME NEW j
    PROVE  IsFiniteSet(Rest(j)) /\ \A x, y \in Rest(j) : x = y
  BY FS_EmptySet, FS_Singleton DEF Rest

LEMMA LoadFinite ==
    ASSUME NEW cs \in SUBSET Card
    PROVE  IsFiniteSet(Load(cs))
  <1>1. IsFiniteSet(Card)
    <2>1. IsFiniteSet({"asks"} \cup {"children"})
      BY FS_Singleton, FS_Union
    <2>2. IsFiniteSet({"rules"} \cup {"grants"})
      BY FS_Singleton, FS_Union
    <2>3. IsFiniteSet({"defaults"} \cup {"devices"})
      BY FS_Singleton, FS_Union
    <2>4. IsFiniteSet(({"asks"} \cup {"children"}) \cup ({"rules"} \cup {"grants"}))
      BY <2>1, <2>2, FS_Union
    <2>5. IsFiniteSet(({"defaults"} \cup {"devices"}) \cup {"passkeys"})
      BY <2>3, FS_Singleton, FS_Union
    <2>6. Card = (({"asks"} \cup {"children"}) \cup ({"rules"} \cup {"grants"}))
                   \cup (({"defaults"} \cup {"devices"}) \cup {"passkeys"})
      BY DEF Card
    <2>7. QED
      BY <2>4, <2>5, <2>6, FS_Union
  <1>2. PICK g : g = [c \in cs \cap setting.cards |-> Call(c, <<c>>)]
    OBVIOUS
  <1>3. DOMAIN g = cs \cap setting.cards /\ Load(cs) = {g[c] : c \in cs \cap setting.cards}
    BY <1>2 DEF Load
  <1>4. IsFiniteSet(cs \cap setting.cards)
    BY <1>1, FS_Subset
  <1>5. QED
    BY <1>3, <1>4, ImageFinite

\* A call goes on or ends, and cards are loaded.
LEMMA LoadsGo ==
    ASSUME TypeInv, PageOK', Forward, NEW j \in jobs, NEW cs \in SUBSET Card,
           \/ GoOn(j, Load(cs)) /\ (Head(j.todo) = "createFamily" => Done(j))
           \/ End(j, Load(cs))
    PROVE  JobsOK' /\ OneLoop' /\ IsFiniteSet(jobs)'
  <1>1. Sends
    BY PageSends
  <1>2. \A x \in Load(cs) : JobOK(x)' /\ x.fn # "live"
    BY <1>1, LoadJobs DEF Card
  <1>3. IsFiniteSet(Load(cs)) /\ IsFiniteSet({})
    BY LoadFinite, FS_EmptySet
  <1>4. CASE GoOn(j, Load(cs)) /\ (Head(j.todo) = "createFamily" => Done(j))
    <2>1. \A x \in Rest(j) : JobOK(x)' /\ x.fn = j.fn
      BY <1>1, <1>4, JobFacts, RestJob
    <2>2. jobs' = (jobs \ {j}) \cup Rest(j) \cup Load(cs)
      BY <1>4 DEF GoOn
    <2>3. QED
      BY <1>2, <1>3, <2>1, <2>2, RestOne, JobsGo
  <1>5. CASE End(j, Load(cs))
    <2>1. jobs' = (jobs \ {j}) \cup {} \cup Load(cs)
      BY <1>5 DEF End
    <2>2. QED
      BY <1>2, <1>3, <2>1, JobsGo
  <1>6. QED
    BY <1>4, <1>5

\* A call goes on or ends, and nothing else begins.
LEMMA GoesOn ==
    ASSUME TypeInv, PageOK', Forward, NEW j \in jobs,
           \/ GoOn(j, {}) /\ (Head(j.todo) = "createFamily" => Done(j))
           \/ End(j, {})
    PROVE  JobsOK' /\ OneLoop' /\ IsFiniteSet(jobs)'
  <1>1. Load({}) = {} /\ {} \in SUBSET Card
    BY DEF Load
  <1>2. QED
    BY <1>1, LoadsGo

\* The request of a call is sent again.
LEMMA AgainMoves ==
    ASSUME TypeInv, PageOK', Forward, NEW j \in jobs, j.todo = <<"wait">>,
           jobs' = (jobs \ {j}) \cup {Sent(j, j.todo)}
    PROVE  JobsOK' /\ OneLoop' /\ IsFiniteSet(jobs)'
  <1>1. Sends
    BY PageSends
  <1>2. PICK x : x = Sent(j, j.todo) /\ jobs' = (jobs \ {j}) \cup {x}
    OBVIOUS
  <1>3. Out(x, j.todo) /\ x.fn = j.fn /\ x.todo = j.todo
    BY <1>2, JobFacts, SentFields DEF Out
  <1>4. Head(<<"wait">>) = "wait" /\ j.todo \in Rests
    BY JobFacts
  <1>5. x.todo \notin EnterRest \cup FoundRest \cup MakeRest /\ x.todo # <<"put">>
    BY <1>3, <1>4, RestHeads DEF EnterHeads, FoundHeads
  <1>6. JobOK(x)'
    BY <1>1, <1>3, <1>4, <1>5, SentJob DEF ArgOK
  <1>7. QED
    BY <1>2, <1>3, <1>6, OneMoves

LEMMA RenewTypes ==
    ASSUME TypeInv, NEW j \in jobs, UNCHANGED bounds, RenewTokens(j)
    PROVE  TypeInv'
  <1>1. Forward /\ UNCHANGED <<storage, page, server>> /\ j.stage = "back" /\ refresh # None
    BY SameServer DEF RenewTokens, Renews
  <1>2. PICK x : /\ x = [j EXCEPT !.stage = "out", !.try = "refresh", !.token = refresh, !.status = "ok"]
                 /\ jobs' = (jobs \ {j}) \cup {x}
    BY DEF RenewTokens
  <1>3. /\ DOMAIN x = JobFields /\ x.stage = "out" /\ x.token = refresh /\ x.arg = j.arg /\ x.todo = j.todo
        /\ x.try = "refresh" /\ x.family = j.family /\ x.gets = j.gets /\ x.status = "ok"
        /\ x.fn = j.fn /\ x.items = j.items /\ x.next = j.next /\ x.row = j.row /\ x.made = j.made
    BY <1>2, JobFacts DEF JobFields
  <1>10. refresh' = refresh /\ TokenOK(refresh) /\ refresh.session \in begun'
    BY <1>1 DEF TypeInv, PageOK, KeysOK, Forward, storage
  <1>4. JobOK(j)' /\ TokenOK(refresh)' /\ refresh.session \in begun'
    BY <1>1, <1>10, JobFacts, JobStays, TokenStays
  <1>5. ShapeOK(x)' /\ ItemsOK(x)'
    BY <1>3, <1>4 DEF JobOK, ShapeOK, ItemsOK
  <1>6. TokensOK(x)'
    BY <1>1, <1>3, <1>4, <1>10 DEF JobOK, TokensOK, RefusedOK, Done
  <1>7. ArgOK(x)'
    BY <1>3, <1>4 DEF JobOK, ArgOK, Done
  <1>8. JobOK(x)'
    BY <1>5, <1>6, <1>7 DEF JobOK
  <1>9. JobsOK' /\ OneLoop' /\ IsFiniteSet(jobs)' /\ PageOK'
    BY <1>1, <1>2, <1>3, <1>8, OneMoves, PageStays
  <1>11. QED
    BY <1>1, <1>9, Delivered

LEMMA RenewedTypes ==
    ASSUME TypeInv, NEW j \in jobs, UNCHANGED bounds, Renewed(j)
    PROVE  TypeInv'
  <1>1. Forward /\ UNCHANGED <<server, family, page>> /\ j.stage = "back" /\ j.try = "refresh"
    BY SameServer DEF Renewed
  <1>2. JobOK(j)'
    BY <1>1, JobFacts, JobStays
  <1>3. UNCHANGED <<panel, mfa, shown, picked, row, lastCount, setting, family>>
    BY <1>1 DEF page, bounds
  <1>4. ShownOK' /\ ViewOK'
    BY <1>3, ShownStays, ViewStays
  <1>5. mfa' # None => TokenOK(mfa)'
    BY <1>1, <1>3, TokenStays DEF TypeInv, PageOK, KeysOK
  <1>6. CASE j.status = "ok"
    <2>1. PICK x : /\ x = [j EXCEPT !.stage = "out", !.try = "again", !.token = j.gets, !.gets = None]
                   /\ jobs' = (jobs \ {j}) \cup {x}
      BY <1>6 DEF Renewed
    <2>2. /\ DOMAIN x = JobFields /\ x.stage = "out" /\ x.token = j.gets /\ x.arg = j.arg /\ x.todo = j.todo
          /\ x.try = "again" /\ x.family = j.family /\ x.gets = None /\ x.status = "ok"
          /\ x.fn = j.fn /\ x.items = j.items /\ x.next = j.next /\ x.row = j.row /\ x.made = j.made
      BY <1>6, <2>1, JobFacts DEF JobFields
    <2>3. j.gets # None /\ TokenOK(j.gets)' /\ j.gets.session \in begun'
      BY <1>1, <1>2, <1>6 DEF JobOK, TokensOK
    <2>4. ShapeOK(x)' /\ ItemsOK(x)'
      BY <1>2, <2>2 DEF JobOK, ShapeOK, ItemsOK
    <2>5. TokensOK(x)'
      BY <2>2, <2>3 DEF TokensOK, RefusedOK, Done
    <2>6. ArgOK(x)'
      BY <1>2, <2>2 DEF JobOK, ArgOK, Done
    <2>7. JobOK(x)'
      BY <2>4, <2>5, <2>6 DEF JobOK
    <2>8. token' = j.gets /\ refresh' = j.gets
      BY <1>6 DEF Renewed, setTokens
    <2>9. KeysOK'
      BY <1>5, <2>3, <2>8 DEF KeysOK
    <2>10. QED
      BY <1>1, <1>4, <2>1, <2>2, <2>7, <2>9, OneMoves, Delivered DEF PageOK
  <1>7. CASE j.status # "ok"
    <2>1. PICK x : /\ x = [j EXCEPT !.try = "again", !.token = None, !.status = "401"]
                   /\ jobs' = (jobs \ {j}) \cup {x}
      BY <1>7 DEF Renewed
    <2>2. /\ DOMAIN x = JobFields /\ x.stage = "back" /\ x.token = None /\ x.arg = j.arg /\ x.todo = j.todo
          /\ x.try = "again" /\ x.family = j.family /\ x.gets = j.gets /\ x.status = "401"
          /\ x.fn = j.fn /\ x.items = j.items /\ x.next = j.next /\ x.row = j.row /\ x.made = j.made
      BY <1>1, <2>1, JobFacts DEF JobFields
    <2>3. ShapeOK(x)' /\ ItemsOK(x)'
      BY <1>2, <2>2 DEF JobOK, ShapeOK, ItemsOK
    <2>4. TokensOK(x)'
      BY <1>2, <2>2 DEF JobOK, TokensOK, RefusedOK, Done
    <2>5. ArgOK(x)'
      BY <1>2, <2>2 DEF JobOK, ArgOK, Done
    <2>6. JobOK(x)'
      BY <2>3, <2>4, <2>5 DEF JobOK
    <2>7. (token' = None /\ refresh' = None) \/ UNCHANGED <<token, refresh>>
      BY <1>7 DEF Renewed, clearTokens
    <2>8. KeysOK'
      <3>1. CASE token' = None /\ refresh' = None
        BY <1>5, <3>1 DEF KeysOK
      <3>2. CASE UNCHANGED <<token, refresh>>
        BY <1>1, <1>3, <3>2, KeysStay
      <3>3. QED
        BY <2>7, <3>1, <3>2
    <2>9. QED
      BY <1>1, <1>4, <2>1, <2>2, <2>6, <2>8, OneMoves, Delivered DEF PageOK
  <1>8. QED
    BY <1>6, <1>7

\* The functions that end in afterLogin.
LEMMA Front ==
    ASSUME NEW p, NEW q, NEW r, NEW t
    PROVE  <<p>> \o <<q, r, t>> = <<p, q, r, t>>
  <1>1. PICK s : s = <<p>> \o <<q, r, t>>
    OBVIOUS
  <1>2. PICK S : S = {p, q, r, t}
    OBVIOUS
  <1>3. <<p>> \in Seq(S) /\ <<q, r, t>> \in Seq(S)
    BY <1>2
  <1>4. s \in Seq(S) /\ Len(s) = 4 /\ s[1] = p /\ s[2] = q /\ s[3] = r /\ s[4] = t
    BY <1>1, <1>3, ConcatProperties
  <1>5. s = [i \in 1..4 |-> s[i]]
    BY <1>4
  <1>6. DOMAIN s = 1..4 /\ DOMAIN <<p, q, r, t>> = 1..4
    BY <1>4
  <1>7. s = <<p, q, r, t>>
    BY <1>4, <1>5, <1>6
  <1>8. QED
    BY <1>1, <1>7

LEMMA Entries ==
    /\ {afterLogin, login, usePasskey, reset, completeConfirmation, selectFamily} \subseteq EnterRest
    /\ createFamily \in FoundRest /\ Head(createFamily) = "createFamily"
  <1>1. /\ afterLogin = <<"me", "select", "picker">> /\ selectFamily = <<"select", "picker">>
        /\ login = <<"login", "me", "select", "picker">>
        /\ reset = <<"reset", "me", "select", "picker">>
        /\ completeConfirmation = <<"verify", "me", "select", "picker">>
    BY Front DEF afterLogin, selectFamily, login, reset, completeConfirmation
  <1>2. usePasskey = <<"passkeyOptions", "passkeyLogin", "me", "select", "picker">>
    <2>1. PICK s, S : s = usePasskey /\ S = {"passkeyOptions", "passkeyLogin", "me", "select", "picker"}
      OBVIOUS
    <2>2. s = <<"passkeyOptions", "passkeyLogin">> \o <<"me", "select", "picker">>
      BY <2>1 DEF usePasskey, afterLogin
    <2>3. <<"passkeyOptions", "passkeyLogin">> \in Seq(S) /\ <<"me", "select", "picker">> \in Seq(S)
      BY <2>1
    <2>4. /\ s \in Seq(S) /\ Len(s) = 5 /\ s[1] = "passkeyOptions" /\ s[2] = "passkeyLogin" /\ s[3] = "me"
          /\ s[4] = "select" /\ s[5] = "picker"
      BY <2>2, <2>3, ConcatProperties
    <2>5. DOMAIN s = 1..5 /\ s = [i \in 1..5 |-> s[i]]
      BY <2>4
    <2>6. s = <<"passkeyOptions", "passkeyLogin", "me", "select", "picker">>
      BY <2>4, <2>5
    <2>7. QED
      BY <2>1, <2>6
  <1>3. createFamily = <<"createFamily", "me", "select", "picker", "selectMade", "picker">>
    <2>1. PICK s, S : s = createFamily /\ S = {"createFamily", "me", "select", "picker", "selectMade"}
      OBVIOUS
    <2>2. s = <<"createFamily", "me", "select", "picker">> \o <<"selectMade", "picker">>
      BY <2>1, Front DEF createFamily, afterLogin
    <2>3. <<"createFamily", "me", "select", "picker">> \in Seq(S) /\ <<"selectMade", "picker">> \in Seq(S)
      BY <2>1
    <2>4. /\ s \in Seq(S) /\ Len(s) = 6 /\ s[1] = "createFamily" /\ s[2] = "me" /\ s[3] = "select"
          /\ s[4] = "picker" /\ s[5] = "selectMade" /\ s[6] = "picker"
      BY <2>2, <2>3, ConcatProperties
    <2>5. DOMAIN s = 1..6 /\ s = [i \in 1..6 |-> s[i]]
      BY <2>4
    <2>6. s = <<"createFamily", "me", "select", "picker", "selectMade", "picker">>
      BY <2>4, <2>5
    <2>7. QED
      BY <2>1, <2>6
  <1>4. QED
    BY <1>1, <1>2, <1>3 DEF EnterRest, MeRest, SelectRest, FoundRest

LEMMA EnterIsEnter ==
    ASSUME NEW t \in EnterRest
    PROVE  t \in Rests /\ t \notin MakeRest \cup FoundRest
  BY EnterRests, EnterIsNotFound, MakeRests DEF Rests, EnterHeads

LEMMA SettledFacts ==
    ASSUME TypeInv, NEW j \in jobs, NEW requests, Settled(j, requests)
    PROVE  /\ j.stage = "back" /\ j.try # "refresh" /\ Head(j.todo) \in requests
           /\ j.todo \in Rests /\ JobOK(j) /\ ItemsOK(j) /\ (j.status = "ok" => Done(j))
           /\ j.family \in Family \cup {None}
  BY JobFacts DEF Settled, Done, JobOK, ShapeOK

\* When a function enters or changes the selection, the picker comes last.
LEMMA PickerIsLast ==
    ASSUME NEW t \in EnterRest, Head(t) = "picker"
    PROVE  Tail(t) = <<>>
  <1>1. CASE t = <<"picker">>
    BY <1>1
  <1>2. CASE t = <<"select", "picker">>
    BY <1>2
  <1>3. CASE t = <<"me", "select", "picker">>
    BY <1>3
  <1>4. CASE t = <<"login", "me", "select", "picker">>
    BY <1>4
  <1>5. CASE t = <<"passkeyLogin", "me", "select", "picker">>
    BY <1>5
  <1>6. CASE t = <<"passkeyOptions", "passkeyLogin", "me", "select", "picker">>
    BY <1>6
  <1>7. CASE t = <<"reset", "me", "select", "picker">>
    BY <1>7
  <1>8. CASE t = <<"verify", "me", "select", "picker">>
    BY <1>8
  <1>9. QED
    BY <1>1, <1>2, <1>3, <1>4, <1>5, <1>6, <1>7, <1>8 DEF EnterRest, MeRest, SelectRest

LEMMA SignedInTypes ==
    ASSUME TypeInv, NEW j \in jobs, UNCHANGED bounds, SignedIn(j)
    PROVE  TypeInv'
  <1>1. Answered(j, SignIns) /\ UNCHANGED <<server, family, cards, asking>>
    BY DEF SignedIn
  <1>2. UNCHANGED <<family, shown, picked, row, lastCount, setting>>
    BY <1>1 DEF cards, asking, bounds
  <1>3. Forward /\ ShownOK' /\ Done(j) /\ Head(j.todo) \in SignIns
    BY <1>1, <1>2, SameServer, SettledFacts, ShownStays DEF Answered
  <1>4. j.gets # None /\ TokenOK(j.gets)'
    BY <1>3, JobFacts, TokenStays DEF TokensOK
  <1>5. ViewOK'
    <2>1. panel' \in {"passkey", "signin"}
      BY DEF SignedIn
    <2>2. QED
      BY <1>2, <2>1 DEF TypeInv, PageOK, ViewOK, Defaults
  <1>6. \A t \in {token, refresh, mfa} \ {None} : TokenOK(t)'
    BY <1>3, TokenStays DEF TypeInv, PageOK, KeysOK
  <1>7. CASE j.gets.session = None
    <2>1. UNCHANGED <<token, refresh>> /\ mfa' = j.gets /\ End(j, {Call("usePasskey", usePasskey)})
      BY <1>7 DEF SignedIn
    <2>2. KeysOK'
      BY <1>3, <1>4, <1>6, <2>1 DEF TypeInv, PageOK, KeysOK, Forward
    <2>3. PageOK' /\ Sends
      BY <1>3, <1>5, <2>2, PageSends DEF PageOK
    <2>4. PICK x : x = Call("usePasskey", usePasskey) /\ jobs' = (jobs \ {j}) \cup {x}
      BY <2>1 DEF End
    <2>5. JobOK(x)' /\ x.fn = "usePasskey"
      BY <2>3, <2>4, Entries, EnterIsEnter, CallJob
    <2>6. JobsOK' /\ OneLoop' /\ IsFiniteSet(jobs)'
      BY <1>3, <2>4, <2>5, OneMoves
    <2>7. QED
      BY <1>1, <2>3, <2>6, Delivered
  <1>8. CASE j.gets.session # None
    <2>1. token' = j.gets /\ refresh' = j.gets /\ mfa' \in {None, mfa} /\ GoOn(j, {})
      BY <1>8 DEF SignedIn, setTokens
    <2>2. j.gets.session \in begun'
      BY <1>4, <1>8 DEF TokenOK
    <2>3. KeysOK'
      BY <1>4, <1>6, <2>1, <2>2 DEF KeysOK
    <2>4. PageOK'
      BY <1>3, <1>5, <2>3 DEF PageOK
    <2>5. JobsOK' /\ OneLoop' /\ IsFiniteSet(jobs)'
      BY <1>3, <2>1, <2>4, GoesOn
    <2>6. QED
      BY <1>1, <2>4, <2>5, Delivered
  <1>9. QED
    BY <1>7, <1>8

LEMMA AfterMeTypes ==
    ASSUME TypeInv, NEW j \in jobs, UNCHANGED bounds, AfterMe(j)
    PROVE  TypeInv'
  <1>1. Answered(j, {"me"}) /\ UNCHANGED <<server, token, refresh, mfa, cards, asking>> /\ panel' = "console"
    BY DEF AfterMe
  <1>2. UNCHANGED <<token, refresh, mfa, shown, picked, row, lastCount, setting>>
    BY <1>1 DEF cards, asking, bounds
  <1>3. Forward /\ ShownOK' /\ KeysOK' /\ Head(j.todo) = "me" /\ j.todo \in Rests
    BY <1>1, <1>2, SameServer, SettledFacts, ShownStays, KeysStay DEF Answered
  <1>4. j.arg \in Family \cup {None}
    BY <1>3, JobFacts, RestHeads DEF ArgOK, EnterHeads
  <1>5. family' \in Family \cup {None}
    BY <1>4 DEF AfterMe, TypeInv, PageOK, ViewOK
  <1>6. PageOK'
    BY <1>1, <1>2, <1>3, <1>5 DEF TypeInv, PageOK, ViewOK, Defaults
  <1>7. GoOn(j, Load({"passkeys"})) \/ End(j, Load({"passkeys"}))
    BY DEF AfterMe
  <1>8. JobsOK' /\ OneLoop' /\ IsFiniteSet(jobs)'
    BY <1>3, <1>6, <1>7, LoadsGo DEF Card
  <1>9. QED
    BY <1>1, <1>6, <1>8, Delivered

LEMMA ListedOK ==
    ASSUME TypeInv, UNCHANGED setting, NEW j \in jobs, j.family \in Family \cup {None},
           shown' = [shown EXCEPT ![CardsOf(Head(j.todo))] = Listed(j)]
    PROVE  ShownOK'
  <1>1. PICK c, l : c = CardsOf(Head(j.todo)) /\ l = Listed(j)
    OBVIOUS
  <1>2. l.items \subseteq {i \in Item : i.card = c} /\ l.of \in Family \cup {None}
    BY <1>1, JobFacts DEF Listed, ItemsOK
  <1>3. DOMAIN shown' = DOMAIN shown /\ \A k \in DOMAIN shown : shown'[k] = IF k = c THEN l ELSE shown[k]
    BY <1>1
  <1>4. QED
    BY <1>2, <1>3 DEF TypeInv, PageOK, ShownOK

LEMMA SelectedTypes ==
    ASSUME TypeInv, NEW j \in jobs, UNCHANGED bounds, Selected(j)
    PROVE  TypeInv'
  <1>1. Settled(j, {"select", "selectMade"}) /\ UNCHANGED <<server, storage, auths, picked, row, undo, busy>>
    BY DEF Selected
  <1>2. UNCHANGED <<token, refresh, mfa, family, panel, picked, row, setting>>
    BY <1>1 DEF storage, auths, bounds
  <1>3. Forward /\ KeysOK' /\ Head(j.todo) \in {"select", "selectMade"} /\ j.family \in Family \cup {None}
    BY <1>1, <1>2, SameServer, SettledFacts, KeysStay
  <1>4. CardsOf(Head(j.todo)) = "children"
    BY <1>3 DEF CardsOf, CardOf
  <1>5. ShownOK'
    <2>1. shown' = [shown EXCEPT ![CardsOf(Head(j.todo))] = Listed(j)]
      BY <1>4 DEF Selected
    <2>2. QED
      BY <1>2, <1>3, <2>1, ListedOK
  <1>6. lastCount' \in {lastCount, -1}
    BY DEF Selected
  <1>7. Cardinality(Item) \in Nat
    BY ConsoleAssumption, FS_CardinalityType
  <1>8. ViewOK'
    BY <1>2, <1>6, <1>7 DEF TypeInv, PageOK, ViewOK, Defaults
  <1>9. PageOK' /\ Sends
    BY <1>3, <1>5, <1>8, PageSends DEF PageOK
  <1>10. PICK others : /\ others = IF Watched THEN {} ELSE {Call("live", <<"wait">>)}
                       /\ GoOn(j, Load(Refreshed) \cup others)
    BY DEF Selected
  <1>11. \A x \in others : JobOK(x)' /\ ~Watched
    <2> SUFFICES ASSUME NEW x \in others PROVE JobOK(x)' /\ ~Watched
      OBVIOUS
    <2>1. ~Watched /\ x = Call("live", <<"wait">>)
      BY <1>10
    <2>2. PICK todo : todo = <<"wait">>
      OBVIOUS
    <2>3. Head(todo) = "wait" /\ todo \in Rests
      BY <2>2 DEF Rests, SingleRest
    <2>4. todo \notin MakeRest \cup FoundRest
      BY <2>3, RestHeads DEF FoundHeads
    <2>5. QED
      BY <1>9, <2>1, <2>2, <2>3, <2>4, CallJob
  <1>12. IsFiniteSet(others) /\ \A x, y \in others : x = y
    BY <1>10, FS_EmptySet, FS_Singleton
  <1>13. Refreshed \in SUBSET Card
    BY DEF Refreshed, Card
  <1>14. IsFiniteSet(Load(Refreshed)) /\ \A x \in Load(Refreshed) : JobOK(x)' /\ x.fn # "live"
    BY <1>9, <1>13, LoadFinite, LoadJobs DEF Card
  <1>15. PICK all : all = Load(Refreshed) \cup others /\ jobs' = (jobs \ {j}) \cup Rest(j) \cup all
    BY <1>10 DEF GoOn
  <1>16. /\ \A x \in all : JobOK(x)' /\ (x.fn = "live" => ~Watched)
         /\ \A x, y \in all : x.fn = "live" /\ y.fn = "live" => x = y
         /\ IsFiniteSet(all)
    BY <1>11, <1>12, <1>14, <1>15, FS_Union
  <1>17. \A x \in Rest(j) : JobOK(x)' /\ x.fn = j.fn
    BY <1>3, <1>9, JobFacts, RestJob
  <1>18. JobsOK' /\ OneLoop' /\ IsFiniteSet(jobs)'
    BY <1>3, <1>15, <1>16, <1>17, RestOne, JobsGo
  <1>19. QED
    BY <1>1, <1>9, <1>18, Delivered

LEMMA PickedTypes ==
    ASSUME TypeInv, NEW j \in jobs, UNCHANGED bounds, Picked(j)
    PROVE  TypeInv'
  <1>1. Settled(j, {"picker"}) /\ UNCHANGED <<server, token, refresh, page>> /\ GoOn(j, {})
    BY DEF Picked
  <1>2. UNCHANGED <<token, refresh, mfa, panel, picked, row, shown, lastCount, setting>>
    BY <1>1 DEF page, bounds
  <1>3. Forward /\ KeysOK' /\ ShownOK' /\ Head(j.todo) = "picker" /\ j.todo \in Rests
    BY <1>1, <1>2, SameServer, SettledFacts, KeysStay, ShownStays
  <1>4. family' \in Family \cup {None}
    <2>1. CASE Tail(j.todo) = <<>>
      BY <2>1 DEF Picked, TypeInv, PageOK, ViewOK
    <2>2. CASE Tail(j.todo) # <<>>
      <3>1. j.todo \in FoundRest
        <4>1. j.todo \in EnterRest \cup FoundRest
          BY <1>3, RestHeads DEF EnterHeads
        <4>2. j.todo \notin EnterRest
          BY <1>3, <2>2, PickerIsLast
        <4>3. QED
          BY <4>1, <4>2
      <3>2. QED
        BY <1>3, <2>2, <3>1, JobFacts DEF Picked, ArgOK
    <2>3. QED
      BY <2>1, <2>2
  <1>5. PageOK'
    BY <1>2, <1>3, <1>4 DEF TypeInv, PageOK, ViewOK, Defaults
  <1>6. QED
    BY <1>1, <1>3, <1>5, GoesOn, Delivered

\* Saves under way are told that their row is gone.
LEMMA DetachedMoves ==
    ASSUME TypeInv, Forward, NEW j \in jobs, jobs' = Detached(jobs \ {j})
    PROVE  JobsOK' /\ OneLoop' /\ IsFiniteSet(jobs)'
  <1>1. \A k \in jobs : JobOK(k)' /\ DOMAIN k = JobFields
    BY JobStays DEF TypeInv, JobsOK, JobOK, ShapeOK
  <1>2. PICK g : g = [k \in jobs \ {j} |-> IF k.fn = "saveDefault" THEN [k EXCEPT !.known = -2] ELSE k]
    OBVIOUS
  <1>3. DOMAIN g = jobs \ {j} /\ jobs' = {g[k] : k \in jobs \ {j}}
    BY <1>2 DEF Detached
  <1>4. \A k \in jobs \ {j} : JobOK(g[k])' /\ g[k].fn = k.fn /\ (k.fn = "live" => g[k] = k)
    <2> SUFFICES ASSUME NEW k \in jobs \ {j} PROVE JobOK(g[k])' /\ g[k].fn = k.fn /\ (k.fn = "live" => g[k] = k)
      OBVIOUS
    <2>1. CASE k.fn # "saveDefault"
      BY <1>1, <1>2, <2>1
    <2>2. CASE k.fn = "saveDefault"
      <3>1. PICK x : x = g[k]
        OBVIOUS
      <3>2. x = [k EXCEPT !.known = -2]
        BY <1>2, <2>2, <3>1
      <3>3. /\ DOMAIN x = JobFields /\ x.stage = k.stage /\ x.token = k.token /\ x.arg = k.arg /\ x.todo = k.todo
            /\ x.try = k.try /\ x.family = k.family /\ x.gets = k.gets /\ x.status = k.status
            /\ x.fn = k.fn /\ x.items = k.items /\ x.next = k.next /\ x.row = k.row /\ x.made = k.made
        BY <1>1, <3>2 DEF JobFields
      <3>4. JobOK(k)'
        BY <1>1
      <3>5. ShapeOK(x)' /\ ItemsOK(x)'
        BY <3>3, <3>4 DEF JobOK, ShapeOK, ItemsOK
      <3>6. TokensOK(x)'
        BY <3>3, <3>4 DEF JobOK, TokensOK, RefusedOK, Done
      <3>7. ArgOK(x)'
        BY <3>3, <3>4 DEF JobOK, ArgOK, Done
      <3>8. QED
        BY <2>2, <3>1, <3>3, <3>5, <3>6, <3>7 DEF JobOK
    <2>3. QED
      BY <2>1, <2>2
  <1>5. JobsOK' /\ OneLoop'
    <2>1. JobsOK'
      BY <1>3, <1>4 DEF JobsOK
    <2>2. \A x \in jobs' : x.fn = "live" => x \in jobs
      BY <1>3, <1>4
    <2>3. QED
      BY <2>1, <2>2 DEF TypeInv, OneLoop
  <1>6. IsFiniteSet(jobs \ {j})
    BY FS_RemoveElement DEF TypeInv, BoundsOK
  <1>7. IsFiniteSet(jobs')
    BY <1>3, <1>6, ImageFinite
  <1>8. QED
    BY <1>5, <1>7

LEMMA CardLoadedTypes ==
    ASSUME TypeInv, NEW j \in jobs, UNCHANGED bounds, CardLoaded(j)
    PROVE  TypeInv'
  <1>1. Settled(j, Card) /\ UNCHANGED <<server, storage, auths, asking>>
    BY DEF CardLoaded
  <1>2. UNCHANGED <<token, refresh, mfa, family, panel, lastCount, setting>>
    BY <1>1 DEF storage, auths, asking, bounds
  <1>3. Forward /\ KeysOK' /\ Head(j.todo) \in Card /\ j.family \in Family \cup {None} /\ ItemsOK(j)
    BY <1>1, <1>2, SameServer, SettledFacts, KeysStay
  <1>4. CardsOf(Head(j.todo)) = Head(j.todo)
    BY <1>3 DEF CardsOf, CardOf, Card
  <1>5. ShownOK'
    <2>1. shown' = [shown EXCEPT ![CardsOf(Head(j.todo))] = Listed(j)]
      BY <1>4 DEF CardLoaded
    <2>2. QED
      BY <1>2, <1>3, <2>1, ListedOK
  <1>6. picked' \subseteq Defaults /\ row' \subseteq Defaults
    <2>1. CASE Head(j.todo) = "defaults" /\ j.status = "ok"
      BY <1>3, <1>4, <2>1 DEF CardLoaded, ItemsOK, Defaults
    <2>2. CASE ~(Head(j.todo) = "defaults" /\ j.status = "ok")
      BY <2>2 DEF CardLoaded, TypeInv, PageOK, ViewOK
    <2>3. QED
      BY <2>1, <2>2
  <1>7. PageOK'
    BY <1>2, <1>3, <1>5, <1>6 DEF TypeInv, PageOK, ViewOK, Defaults
  <1>8. JobsOK' /\ OneLoop' /\ IsFiniteSet(jobs)'
    <2>1. CASE jobs' = Detached(jobs \ {j})
      BY <1>3, <2>1, DetachedMoves
    <2>2. CASE jobs' = jobs \ {j}
      <3>1. End(j, {})
        BY <2>2 DEF End
      <3>2. QED
        BY <1>3, <1>7, <3>1, GoesOn
    <2>3. QED
      BY <2>1, <2>2 DEF CardLoaded
  <1>9. QED
    BY <1>1, <1>7, <1>8, Delivered

LEMMA ChangedTypes ==
    ASSUME TypeInv, NEW j \in jobs, UNCHANGED bounds, Changed(j)
    PROVE  TypeInv'
  <1>1. Forward /\ UNCHANGED <<server, storage, page>> /\ Done(j) /\ GoOn(j, With(j))
    BY SameServer, SettledFacts DEF Changed, Answered
  <1>2. KeysOK' /\ ShownOK' /\ ViewOK'
    <2>1. UNCHANGED <<token, refresh, mfa, family, panel, picked, row, lastCount, shown, setting>>
      BY <1>1 DEF storage, page, bounds
    <2>2. QED
      BY <1>1, <2>1, KeysStay, ShownStays, ViewStays
  <1>3. PageOK'
    BY <1>2 DEF PageOK
  <1>4. PICK cs \in SUBSET Card : With(j) = Load(cs)
    <2>1. Load({}) = {} /\ {} \in SUBSET Card /\ {"grants"} \in SUBSET Card
      BY DEF Load, Card
    <2>2. QED
      BY <2>1 DEF With
  <1>5. JobsOK' /\ OneLoop' /\ IsFiniteSet(jobs)'
    BY <1>1, <1>3, <1>4, LoadsGo
  <1>6. QED
    BY <1>1, <1>3, <1>5, Delivered

LEMMA DecidedTypes ==
    ASSUME TypeInv, NEW j \in jobs, UNCHANGED bounds, Decided(j) \/ TakenBack(j)
    PROVE  TypeInv'
  <1>1. Forward /\ UNCHANGED <<server, storage, auths, cards, lastCount, busy>> /\ End(j, Load({"rules", "grants"}))
    BY SameServer DEF Decided, TakenBack
  <1>2. UNCHANGED <<token, refresh, mfa, family, panel, picked, row, lastCount, shown, setting>>
    BY <1>1 DEF storage, auths, cards, bounds
  <1>3. PageOK'
    BY <1>1, <1>2, KeysStay, ShownStays, ViewStays DEF PageOK
  <1>4. JobsOK' /\ OneLoop' /\ IsFiniteSet(jobs)'
    BY <1>1, <1>3, LoadsGo DEF Card
  <1>5. QED
    BY <1>1, <1>3, <1>4, Delivered

LEMMA SavedTypes ==
    ASSUME TypeInv, NEW j \in jobs, UNCHANGED bounds, Saved(j) \/ NotSaved(j)
    PROVE  TypeInv'
  <1>1. Forward /\ UNCHANGED <<server, storage, auths, shown, asking>> /\ End(j, {})
    BY SameServer DEF Saved, NotSaved
  <1>2. UNCHANGED <<token, refresh, mfa, family, panel, lastCount, shown, setting>>
    BY <1>1 DEF storage, auths, asking, bounds
  <1>3. Head(j.todo) = "put" /\ j.todo \in Rests
    BY SettledFacts DEF Saved, NotSaved, Answered, Failed
  <1>4. j.next \subseteq Defaults /\ j.row \subseteq Defaults
    BY <1>3, RestHeads, JobFacts DEF ArgOK, SingleHeads
  <1>5. picked' \subseteq Defaults /\ row' \subseteq Defaults
    BY <1>4 DEF Saved, NotSaved, TypeInv, PageOK, ViewOK
  <1>6. PageOK'
    BY <1>1, <1>2, <1>5, KeysStay, ShownStays DEF TypeInv, PageOK, ViewOK, Defaults
  <1>7. QED
    BY <1>1, <1>6, GoesOn, Delivered

LEMMA NotDecidedTypes ==
    ASSUME TypeInv, NEW j \in jobs, UNCHANGED bounds, NotDecided(j) \/ GaveUp(j)
    PROVE  TypeInv'
  <1>1. Forward /\ UNCHANGED <<server, storage, mfa, cards, lastCount>> /\ End(j, {})
    BY SameServer DEF NotDecided, GaveUp, auths, asking
  <1>2. UNCHANGED <<token, refresh, mfa, family, picked, row, lastCount, shown, setting>>
    BY <1>1 DEF storage, cards, bounds
  <1>3. panel' \in {"trouble", "signin", panel}
    BY DEF NotDecided, GaveUp, auths
  <1>4. PageOK'
    BY <1>1, <1>2, <1>3, KeysStay, ShownStays DEF TypeInv, PageOK, ViewOK, Defaults
  <1>5. QED
    BY <1>1, <1>4, GoesOn, Delivered

\* What a page that begins shows.
LEMMA NewPageOK ==
    ASSUME TypeInv, NewPage, UNCHANGED setting, KeysOK', UNCHANGED family,
           panel' \in {"signin", "resuming", "reset", "console"}
    PROVE  PageOK'
  <1>1. PICK sh : sh = [c \in setting.cards \cup {"asks", "children"} |-> [of |-> None, items |-> {}]]
    OBVIOUS
  <1>2. shown' = sh /\ picked' = {} /\ row' = {} /\ lastCount' = -1
    BY <1>1 DEF NewPage, NoCards
  <1>3. ShownOK'
    BY <1>1, <1>2 DEF ShownOK
  <1>4. Cardinality(Item) \in Nat
    BY ConsoleAssumption, FS_CardinalityType
  <1>5. QED
    BY <1>2, <1>3, <1>4 DEF TypeInv, PageOK, ViewOK, Defaults

LEMMA ResumeTypes ==
    ASSUME TypeInv, resume, KeysOK', UNCHANGED <<family, bounds, server>>
    PROVE  TypeInv'
  <1>1. NewPage /\ panel' \in {"signin", "resuming"} /\ UNCHANGED setting
    BY DEF resume, bounds
  <1>2. PageOK' /\ Forward
    BY <1>1, NewPageOK, SameServer
  <1>3. Sends
    BY <1>2, PageSends
  <1>4. jobs' = {} \/ jobs' = {Call("resume", afterLogin)}
    BY DEF resume
  <1>5. CASE jobs' = {}
    BY <1>2, <1>5, FS_EmptySet, Delivered DEF JobsOK, OneLoop
  <1>6. CASE jobs' = {Call("resume", afterLogin)}
    <2>1. PICK x : x = Call("resume", afterLogin) /\ jobs' = {x}
      BY <1>6
    <2>2. JobOK(x)'
      BY <1>3, <2>1, Entries, EnterIsEnter, CallJob
    <2>3. QED
      BY <1>2, <2>1, <2>2, FS_Singleton, Delivered DEF JobsOK, OneLoop
  <1>7. QED
    BY <1>4, <1>5, <1>6

LEMMA LeftTypes ==
    ASSUME TypeInv, NEW j \in jobs, UNCHANGED bounds, SignedOut(j) \/ Closed(j)
    PROVE  TypeInv'
  <1>1. Forward /\ UNCHANGED server /\ token' = None /\ refresh' = None
    BY SameServer DEF SignedOut, Closed, clearTokens
  <1>2. mfa' \in {None, mfa}
    BY DEF SignedOut, Closed, resume, NewPage
  <1>3. KeysOK'
    BY <1>1, <1>2, TokenStays DEF TypeInv, PageOK, KeysOK
  <1>4. CASE SignedOut(j)
    BY <1>1, <1>3, <1>4, ResumeTypes DEF SignedOut
  <1>5. CASE Closed(j)
    <2>1. UNCHANGED <<picked, row, lastCount, shown, setting>> /\ family' = None /\ panel' = "closed" /\ End(j, {})
      BY <1>5 DEF Closed, cards, asking, bounds
    <2>2. PageOK'
      BY <1>3, <2>1, ShownStays DEF TypeInv, PageOK, ViewOK, Defaults
    <2>3. QED
      BY <1>1, <2>1, <2>2, GoesOn, Delivered
  <1>6. QED
    BY <1>4, <1>5

LEMMA WaitedTypes ==
    ASSUME TypeInv, NEW j \in jobs, UNCHANGED bounds, Waited(j)
    PROVE  TypeInv'
  <1>1. Settled(j, {"wait"}) /\ UNCHANGED <<server, storage, auths, picked, row, undo>>
    BY DEF Waited
  <1>2. UNCHANGED <<token, refresh, mfa, family, panel, picked, row, setting>>
    BY <1>1 DEF storage, auths, bounds
  <1>3. Forward /\ KeysOK' /\ Head(j.todo) = "wait" /\ j.todo \in Rests /\ j.family \in Family \cup {None}
    BY <1>1, <1>2, SameServer, SettledFacts, KeysStay
  <1>4. j.items \subseteq {i \in Item : i.card = "asks"} /\ j.todo = <<"wait">>
    BY <1>3, JobFacts, RestHeads DEF ItemsOK, CardsOf, SingleHeads
  <1>5. \/ shown' = shown /\ lastCount' = lastCount
        \/ shown' = [shown EXCEPT !["asks"] = [of |-> j.family, items |-> j.items]]
           /\ lastCount' = Cardinality(j.items)
    BY DEF Waited
  <1>6. ShownOK'
    <2>1. PICK l : l = [of |-> j.family, items |-> j.items]
      OBVIOUS
    <2>2. l.items \subseteq {i \in Item : i.card = "asks"} /\ l.of \in Family \cup {None}
      BY <1>3, <1>4, <2>1
    <2>3. CASE shown' = [shown EXCEPT !["asks"] = l]
      <3>1. DOMAIN shown' = DOMAIN shown /\ \A c \in DOMAIN shown : shown'[c] = IF c = "asks" THEN l ELSE shown[c]
        BY <2>3
      <3>2. QED
        BY <1>2, <2>2, <3>1 DEF TypeInv, PageOK, ShownOK
    <2>4. QED
      BY <1>2, <1>5, <2>1, <2>3, ShownStays
  <1>7. lastCount' \in Int /\ -1 <= lastCount' /\ lastCount' <= Cardinality(Item)
    <2>1. j.items \subseteq Item
      BY <1>4
    <2>2. Cardinality(j.items) \in Nat /\ Cardinality(j.items) <= Cardinality(Item)
      BY <2>1, ConsoleAssumption, FS_Subset, FS_CardinalityType
    <2>3. QED
      BY <1>5, <2>2 DEF TypeInv, PageOK, ViewOK
  <1>8. PageOK'
    BY <1>2, <1>3, <1>6, <1>7 DEF TypeInv, PageOK, ViewOK, Defaults
  <1>9. QED
    BY <1>1, <1>3, <1>4, <1>8, AgainMoves, Delivered DEF Waited

LEMMA BackOffTypes ==
    ASSUME TypeInv, NEW j \in jobs, UNCHANGED bounds, BackOff(j) \/ PollAgain(j)
    PROVE  TypeInv'
  <1>1. Forward /\ UNCHANGED <<server, storage, page>>
    BY SameServer DEF BackOff, PollAgain
  <1>2. PageOK'
    <2>1. UNCHANGED <<token, refresh, mfa, family, panel, picked, row, lastCount, shown, setting>>
      BY <1>1 DEF storage, page, bounds
    <2>2. QED
      BY <1>1, <2>1, KeysStay, ShownStays, ViewStays DEF PageOK
  <1>3. CASE BackOff(j)
    <2>1. Settled(j, {"wait"})
      BY <1>3 DEF BackOff, Failed
    <2>2. Head(j.todo) = "wait" /\ j.todo = <<"wait">> /\ j.try # "refresh" /\ JobOK(j)
      BY <2>1, SettledFacts, RestHeads DEF SingleHeads
    <2>3. j.items \subseteq {i \in Item : i.card = "asks"}
      BY <2>2, JobFacts DEF ItemsOK, CardsOf
    <2>4. PICK x : x = [j EXCEPT !.stage = "resting", !.status = "ok"] /\ jobs' = (jobs \ {j}) \cup {x}
      BY <1>3 DEF BackOff
    <2>5. /\ DOMAIN x = JobFields /\ x.stage = "resting" /\ x.items = j.items /\ x.todo = j.todo
          /\ x.try = j.try /\ x.token = j.token /\ x.family = j.family /\ x.gets = j.gets /\ x.status = "ok"
          /\ x.fn = j.fn
      BY <2>4, JobFacts DEF JobFields
    <2>6. JobOK(x)'
      BY <1>1, <2>2, <2>3, <2>5, FeedJob
    <2>7. QED
      BY <1>1, <1>2, <2>4, <2>5, <2>6, OneMoves, Delivered
  <1>4. CASE PollAgain(j)
    BY <1>1, <1>2, <1>4, AgainMoves, Delivered DEF PollAgain, At
  <1>5. QED
    BY <1>3, <1>4

LEMMA DeliverTypes ==
    ASSUME TypeInv, NEW j \in jobs, UNCHANGED bounds, Deliver(j)
    PROVE  TypeInv'
  BY RenewTypes, RenewedTypes, SignedInTypes, AfterMeTypes, SelectedTypes, PickedTypes, CardLoadedTypes,
     ChangedTypes, DecidedTypes, SavedTypes, NotDecidedTypes, LeftTypes, WaitedTypes, BackOffTypes DEF Deliver

-----------------------------------------------------------------------------
(* The parent keeps the types. *)

LEMMA TappedFacts ==
    ASSUME TypeInv, NEW what, Tap(what)
    PROVE  /\ Forward /\ UNCHANGED <<server, setting, mishaps>> /\ tapped' \in Nat /\ what \in setting.taps
           /\ tapped' = tapped + 1
  BY SameServer DEF Tap, TypeInv, BoundsOK

LEMMA TappedTypes ==
    ASSUME TypeInv, UNCHANGED <<server, setting, mishaps>>, tapped' \in Nat, PageOK',
           JobsOK', OneLoop', IsFiniteSet(jobs)'
    PROVE  TypeInv'
  BY SameServer DEF TypeInv, BoundsOK

LEMMA PageKept ==
    ASSUME TypeInv, Forward, UNCHANGED <<storage, page, setting>>
    PROVE  PageOK'
  <1>1. UNCHANGED <<token, refresh, mfa, family, panel, picked, row, lastCount, shown>>
    BY DEF storage, page
  <1>2. QED
    BY <1>1, KeysStay, ShownStays, ViewStays DEF PageOK

LEMMA OneMore ==
    ASSUME TypeInv, Forward, NEW x, jobs' = jobs \cup {x}, JobOK(x)', x.fn # "live"
    PROVE  JobsOK' /\ OneLoop' /\ IsFiniteSet(jobs)'
  <1>1. JobsOK'
    BY JobStays DEF TypeInv, JobsOK
  <1>2. OneLoop'
    BY DEF TypeInv, OneLoop
  <1>3. IsFiniteSet(jobs')
    BY FS_AddElement DEF TypeInv, BoundsOK
  <1>4. QED
    BY <1>1, <1>2, <1>3

LEMMA SameJobs ==
    ASSUME TypeInv, Forward, UNCHANGED jobs
    PROVE  JobsOK' /\ OneLoop' /\ IsFiniteSet(jobs)'
  BY JobStays DEF TypeInv, JobsOK, OneLoop, BoundsOK

LEMMA StartFields ==
    ASSUME NEW fn, NEW todo, NEW arg, Start(fn, todo, arg)
    PROVE  \E x : jobs' = jobs \cup {x} /\ Out(x, todo) /\ x.fn = fn /\ x.arg = arg /\ x.made = None
  <1>1. PICK y : y = Call(fn, todo)
    OBVIOUS
  <1>2. Out(y, todo) /\ y.fn = fn /\ y.made = None
    BY <1>1, CallFields
  <1>3. PICK x : x = [y EXCEPT !.arg = arg] /\ jobs' = jobs \cup {x}
    BY <1>1 DEF Start
  <1>4. Out(x, todo) /\ x.fn = fn /\ x.arg = arg /\ x.made = None
    BY <1>2, <1>3 DEF Out, JobFields
  <1>5. QED
    BY <1>3, <1>4

\* What the calls that begin at a tap are about.
Apt(todo, arg) ==
    /\ todo \in Rests /\ todo # <<"put">>
    /\ todo \in EnterRest => arg = None
    /\ todo \in FoundRest => arg = None /\ Head(todo) = "createFamily"
    /\ todo \in MakeRest => /\ arg \in {"children", "rules", "passkeys"}
                            /\ todo \in {<<"create", arg>>, <<"passkeyCreation", "create", arg>>}
                            /\ arg # "passkeys" => family' # None

LEMMA StartTypes ==
    ASSUME TypeInv, NEW what, Tap(what), PageOK', NEW fn, fn # "live", NEW todo, NEW arg, Apt(todo, arg),
           Start(fn, todo, arg)
    PROVE  TypeInv'
  <1>1. Sends /\ Forward /\ UNCHANGED <<server, setting, mishaps>> /\ tapped' \in Nat
    BY TappedFacts, PageSends
  <1>2. PICK x : jobs' = jobs \cup {x} /\ Out(x, todo) /\ x.fn = fn /\ x.arg = arg
    BY StartFields
  <1>3. x.arg = arg /\ Out(x, todo) /\ x.fn = fn
    BY <1>2
  <1>4. ArgOK(x)
    BY <1>3 DEF ArgOK, Apt, Out, Done
  <1>5. JobOK(x)'
    BY <1>1, <1>3, <1>4, SentJob DEF Apt
  <1>6. QED
    BY <1>1, <1>2, <1>3, <1>5, OneMore, TappedTypes

LEMMA SingleApt ==
    ASSUME NEW r \in SingleHeads \ {"put"}, NEW arg
    PROVE  Apt(<<r>>, arg)
  <1>1. PICK todo : todo = <<r>>
    OBVIOUS
  <1>2. Head(todo) = r /\ todo # <<"put">>
    BY <1>1
  <1>3. todo \in Rests
    BY <1>1 DEF Rests, SingleRest, SingleHeads
  <1>4. todo \notin EnterRest \cup FoundRest \cup MakeRest
    BY <1>2, <1>3, RestHeads DEF SingleHeads, EnterHeads, FoundHeads
  <1>5. QED
    BY <1>1, <1>2, <1>3, <1>4 DEF Apt

LEMMA EnterApt ==
    ASSUME NEW todo \in EnterRest
    PROVE  Apt(todo, None)
  <1>1. todo # <<"put">>
    BY EnterRests DEF EnterHeads
  <1>2. QED
    BY <1>1, EnterIsEnter DEF Apt

LEMMA DropApt ==
    ASSUME NEW todo \in DropRest, NEW arg
    PROVE  Apt(todo, arg)
  <1>1. Head(todo) = "delete" /\ todo \in Rests
    BY DropRests DEF Rests
  <1>2. todo # <<"put">> /\ todo \notin EnterRest \cup FoundRest \cup MakeRest
    BY <1>1, RestHeads DEF EnterHeads, FoundHeads
  <1>3. QED
    BY <1>1, <1>2 DEF Apt

LEMMA MakeApt ==
    ASSUME NEW todo, NEW arg \in {"children", "rules", "passkeys"},
           todo \in {<<"create", arg>>, <<"passkeyCreation", "create", arg>>}, todo \in MakeRest,
           arg # "passkeys" => family' # None
    PROVE  Apt(todo, arg)
  <1>1. Head(todo) \in {"create", "passkeyCreation"} /\ todo \in Rests
    BY MakeRests DEF Rests
  <1>2. todo # <<"put">> /\ todo \notin EnterRest \cup FoundRest
    BY <1>1, RestHeads DEF EnterHeads, FoundHeads
  <1>3. QED
    BY <1>1, <1>2 DEF Apt

LEMMA authTypes ==
    ASSUME TypeInv, auth \/ Forgot \/ TryPasskey \/ Reset
    PROVE  TypeInv'
  <1>1. PICK what, fn, todo : /\ Tap(what) /\ UNCHANGED <<storage, page>> /\ Start(fn, todo, None)
                              /\ fn \in {"login", "register", "forgot", "usePasskey", "reset"}
                              /\ todo \in {login, register, forgot, usePasskey, reset}
    <2>1. CASE auth
      BY <2>1 DEF auth
    <2>2. CASE Forgot
      BY <2>2 DEF Forgot
    <2>3. CASE TryPasskey
      BY <2>3 DEF TryPasskey
    <2>4. CASE Reset
      BY <2>4 DEF Reset
    <2>5. QED
      BY <2>1, <2>2, <2>3, <2>4
  <1>2. Apt(todo, None)
    <2>1. CASE todo \in {login, usePasskey, reset}
      BY <2>1, Entries, EnterApt
    <2>2. CASE todo \in {register, forgot}
      <3>1. PICK r \in {"register", "forgot"} : todo = <<r>>
        BY <2>2 DEF register, forgot
      <3>2. QED
        BY <3>1, SingleApt DEF SingleHeads
    <2>3. QED
      BY <1>1, <2>1, <2>2
  <1>3. PageOK'
    BY <1>1, TappedFacts, PageKept
  <1>4. QED
    BY <1>1, <1>2, <1>3, StartTypes

LEMMA cancelTypes ==
    ASSUME TypeInv, endPasskeyStep
    PROVE  TypeInv'
  <1>1. /\ Tap("cancel") /\ mfa' = None /\ panel' = "signin" /\ UNCHANGED <<storage, cards, asking, jobs>>
    BY DEF endPasskeyStep
  <1>2. Forward /\ UNCHANGED <<server, setting, mishaps>> /\ tapped' \in Nat
    BY <1>1, TappedFacts
  <1>3. UNCHANGED <<token, refresh, family, picked, row, lastCount, shown>>
    BY <1>1 DEF storage, cards, asking
  <1>4. KeysOK'
    BY <1>1, <1>2, <1>3, TokenStays DEF TypeInv, PageOK, KeysOK, Forward
  <1>5. PageOK'
    BY <1>1, <1>2, <1>3, <1>4, ShownStays DEF TypeInv, PageOK, ViewOK, Defaults
  <1>6. QED
    BY <1>1, <1>2, <1>5, SameJobs, TappedTypes

\* A page that begins has forgotten what it knew, the session in localStorage apart.
LEMMA NewPageTypes ==
    ASSUME TypeInv, NewPage, UNCHANGED <<storage, server, setting, mishaps>>, tapped' \in Nat,
           panel' \in {"signin", "resuming", "reset"},
           NEW js, jobs' = js, js = {} \/ \E fn \in {"resume", "completeConfirmation"}, todo \in EnterRest : js = {Call(fn, todo)}
    PROVE  TypeInv'
  <1>1. Forward /\ mfa' = None /\ UNCHANGED <<token, refresh, family>>
    BY SameServer DEF NewPage, storage
  <1>2. KeysOK'
    BY <1>1, TokenStays DEF TypeInv, PageOK, KeysOK, Forward
  <1>3. PageOK' /\ Sends
    BY <1>1, <1>2, NewPageOK, PageSends
  <1>4. JobsOK' /\ OneLoop' /\ IsFiniteSet(jobs)'
    <2>1. CASE js = {}
      BY <2>1, FS_EmptySet DEF JobsOK, OneLoop
    <2>2. ASSUME NEW fn \in {"resume", "completeConfirmation"}, NEW todo \in EnterRest, js = {Call(fn, todo)}
          PROVE  JobsOK' /\ OneLoop' /\ IsFiniteSet(jobs)'
      <3>1. PICK x : x = Call(fn, todo) /\ jobs' = {x}
        BY <2>2
      <3>2. JobOK(x)'
        BY <1>3, <2>2, <3>1, EnterIsEnter, CallJob
      <3>3. QED
        BY <3>1, <3>2, FS_Singleton DEF JobsOK, OneLoop
    <2>3. QED
      BY <2>1, <2>2
  <1>5. QED
    BY <1>3, <1>4, TappedTypes

LEMMA OpenTypes ==
    ASSUME TypeInv, OpenLink \/ TryAgain \/ OpenPage
    PROVE  TypeInv'
  <1>1. NewPage /\ UNCHANGED storage
    BY DEF OpenLink, TryAgain, OpenPage, resume
  <1>2. UNCHANGED <<server, setting, mishaps>> /\ tapped' \in Nat
    <2>1. CASE OpenLink
      BY <2>1, TappedFacts DEF OpenLink
    <2>2. CASE TryAgain
      BY <2>2, TappedFacts DEF TryAgain
    <2>3. CASE OpenPage
      BY <2>3 DEF OpenPage, bounds, TypeInv, BoundsOK
    <2>4. QED
      BY <2>1, <2>2, <2>3
  <1>3. afterLogin \in EnterRest /\ completeConfirmation \in EnterRest
    BY Entries
  <1>4. /\ panel' \in {"signin", "resuming", "reset"}
        /\ jobs' \in {{}, {Call("resume", afterLogin)}, {Call("completeConfirmation", completeConfirmation)}}
    BY DEF OpenLink, TryAgain, OpenPage, resume
  <1>5. PICK js : jobs' = js
    OBVIOUS
  <1>6. js = {} \/ \E fn \in {"resume", "completeConfirmation"}, todo \in EnterRest : js = {Call(fn, todo)}
    BY <1>3, <1>4, <1>5
  <1>7. QED
    BY <1>1, <1>2, <1>4, <1>5, <1>6, NewPageTypes

LEMMA selectTypes ==
    ASSUME TypeInv, selectFamilyTapped
    PROVE  TypeInv'
  <1>1. /\ Tap("family") /\ family' \in mine /\ UNCHANGED <<token, refresh, page>>
        /\ Start("selectFamily", selectFamily, None)
    BY DEF selectFamilyTapped
  <1>2. Forward /\ UNCHANGED <<server, setting, mishaps>>
    BY <1>1, TappedFacts
  <1>3. UNCHANGED <<mfa, panel, picked, row, lastCount, shown>> /\ family' \in Family
    BY <1>1 DEF page, TypeInv, ServerOK
  <1>4. PageOK'
    BY <1>1, <1>2, <1>3, KeysStay, ShownStays DEF TypeInv, PageOK, ViewOK, Defaults
  <1>5. QED
    BY <1>1, <1>4, Entries, EnterApt, StartTypes

LEMMA SubmitTypes ==
    ASSUME TypeInv, Submit
    PROVE  TypeInv'
  <1>1. PICK f \in Form : /\ Tap(f[1]) /\ UNCHANGED <<storage, page>> /\ Start(f[1], f[2], f[3])
                          /\ f[1] \in {"addChild", "enrollDevice", "addRule"} => family # None
    BY DEF Submit
  <1>2. PageOK' /\ family' = family
    BY <1>1, TappedFacts, PageKept DEF storage
  <1>3. PICK fn, todo, arg : fn = f[1] /\ todo = f[2] /\ arg = f[3]
    OBVIOUS
  <1>4. /\ Tap(fn) /\ Start(fn, todo, arg) /\ (fn \in {"addChild", "enrollDevice", "addRule"} => family # None)
        /\ <<fn, todo, arg>> \in Form /\ fn # "live"
    BY <1>1, <1>3 DEF Form
  <1>5. Apt(todo, arg)
    <2>1. CASE fn = "createFamily" /\ todo = createFamily /\ arg = None
      <3>1. todo \in FoundRest /\ Head(todo) = "createFamily" /\ todo \in Rests
        BY <2>1, Entries DEF Rests
      <3>2. todo # <<"put">> /\ todo \notin EnterRest \cup MakeRest
        BY <3>1, RestHeads, EnterIsNotFound
      <3>3. QED
        BY <2>1, <3>1, <3>2 DEF Apt
    <2>2. CASE todo = <<"create", "children">> /\ arg = "children" /\ family' # None
      BY <2>2, MakeApt DEF MakeRest
    <2>3. CASE todo = <<"create", "rules">> /\ arg = "rules" /\ family' # None
      BY <2>3, MakeApt DEF MakeRest
    <2>4. CASE todo = <<"passkeyCreation", "create", "passkeys">> /\ arg = "passkeys"
      BY <2>4, MakeApt DEF MakeRest
    <2>5. CASE todo \in {<<"enroll">>, <<"logout">>, <<"deleteMe">>}
      BY <2>5, SingleApt DEF SingleHeads
    <2>6. QED
      BY <1>2, <1>4, <2>1, <2>2, <2>3, <2>4, <2>5
         DEF Form, addChild, enrollDevice, addRule, addPasskey, signout, closeAccount
  <1>6. QED
    BY <1>2, <1>4, <1>5, StartTypes

LEMMA RemoveTypes ==
    ASSUME TypeInv, Remove
    PROVE  TypeInv'
  <1>1. PICK r \in Removal : \E i \in shown[r[1]].items :
            Tap("remove") /\ UNCHANGED <<storage, page>> /\ Start("remove", r[2], i)
    BY DEF Remove
  <1>2. PICK i : Tap("remove") /\ UNCHANGED <<storage, page>> /\ Start("remove", r[2], i)
    BY <1>1
  <1>3. r[2] \in DropRest
    BY DEF Removal, DropRest, removeRule, revokeGrant, removeDevice, removePasskey
  <1>4. PICK todo : todo = r[2]
    OBVIOUS
  <1>5. PageOK'
    BY <1>2, TappedFacts, PageKept
  <1>6. QED
    BY <1>2, <1>3, <1>4, <1>5, DropApt, StartTypes

LEMMA saveDefaultTypes ==
    ASSUME TypeInv, saveDefaultTapped
    PROVE  TypeInv'
  <1>1. PICK i \in [card : {"defaults"}, family : {shown["defaults"].of} \ {None}, id : Field] :
            /\ Tap("default")
            /\ picked' = (IF i \in picked THEN picked \ {i} ELSE picked \cup {i})
            /\ UNCHANGED <<storage, auths, shown, row, asking>>
            /\ jobs' = jobs \cup
                 {[Call("saveDefault", saveDefault) EXCEPT !.arg = i, !.row = row, !.known = 0,
                     !.next = IF i \in picked THEN row \ {i} ELSE row \cup {i}]}
    BY DEF saveDefaultTapped
  <1>2. Forward /\ UNCHANGED <<server, setting, mishaps>> /\ tapped' \in Nat /\ "default" \in setting.taps
    BY <1>1, TappedFacts
  <1>3. "defaults" \in DOMAIN shown
    BY <1>2, ConsoleAssumption DEF TypeInv, BoundsOK, PageOK, ShownOK
  <1>4. i \in Defaults
    <2>1. PICK f : f = shown["defaults"].of
      OBVIOUS
    <2>2. f \in Family \cup {None}
      BY <1>3, <2>1 DEF TypeInv, PageOK, ShownOK
    <2>3. i.card = "defaults" /\ i.family \in Family /\ i.id \in Id /\ i = [card |-> i.card, family |-> i.family, id |-> i.id]
      BY <1>1, <2>1, <2>2, ConsoleAssumption
    <2>4. i \in Item
      BY <2>3 DEF Item, Card
    <2>5. QED
      BY <2>3, <2>4 DEF Defaults
  <1>5. UNCHANGED <<token, refresh, mfa, family, panel, lastCount, shown, row>>
    BY <1>1 DEF storage, auths, asking
  <1>6. picked' \subseteq Defaults /\ row \subseteq Defaults
    BY <1>1, <1>4 DEF TypeInv, PageOK, ViewOK
  <1>7. PageOK' /\ Sends
    BY <1>2, <1>5, <1>6, KeysStay, ShownStays, PageSends DEF TypeInv, PageOK, ViewOK, Defaults
  <1>8. PICK y, next : /\ y = Call("saveDefault", <<"put">>) /\ next = IF i \in picked THEN row \ {i} ELSE row \cup {i}
    OBVIOUS
  <1>9. PICK x : x = [y EXCEPT !.arg = i, !.row = row, !.known = 0, !.next = next] /\ jobs' = jobs \cup {x}
    BY <1>1, <1>8 DEF saveDefault
  <1>10. Out(y, <<"put">>) /\ y.fn = "saveDefault"
    BY <1>8, CallFields
  <1>11. Out(x, <<"put">>) /\ x.fn = "saveDefault" /\ x.row = row /\ x.next = next
    BY <1>9, <1>10 DEF Out, JobFields
  <1>12. PICK todo : todo = <<"put">>
    OBVIOUS
  <1>13. Head(todo) = "put" /\ todo \in Rests
    BY <1>12 DEF Rests, SingleRest
  <1>14. todo \notin EnterRest \cup FoundRest \cup MakeRest
    BY <1>13, RestHeads DEF EnterHeads, FoundHeads
  <1>15. ArgOK(x)
    BY <1>4, <1>6, <1>8, <1>11, <1>12, <1>14 DEF ArgOK, Out
  <1>16. JobOK(x)'
    BY <1>7, <1>11, <1>12, <1>13, <1>15, SentJob
  <1>17. QED
    BY <1>2, <1>7, <1>9, <1>11, <1>16, OneMore, TappedTypes

LEMMA decideTypes ==
    ASSUME TypeInv, decide
    PROVE  TypeInv'
  <1>1. PICK i, standing : /\ Tap("decide") /\ UNCHANGED <<storage, auths, cards, lastCount, undo>>
                           /\ jobs' = jobs \cup {[Call("decide", <<"decide">>) EXCEPT !.arg = i, !.standing = standing]}
    BY DEF decide
  <1>2. Forward /\ UNCHANGED <<server, setting, mishaps>> /\ tapped' \in Nat
    BY <1>1, TappedFacts
  <1>3. UNCHANGED <<token, refresh, mfa, family, panel, lastCount, shown, row, picked>>
    BY <1>1 DEF storage, auths, cards
  <1>4. PageOK' /\ Sends
    BY <1>2, <1>3, KeysStay, ShownStays, ViewStays, PageSends DEF PageOK
  <1>5. PICK y : y = Call("decide", <<"decide">>)
    OBVIOUS
  <1>6. PICK x : x = [y EXCEPT !.arg = i, !.standing = standing] /\ jobs' = jobs \cup {x}
    BY <1>1, <1>5
  <1>7. Out(y, <<"decide">>) /\ y.fn = "decide"
    BY <1>5, CallFields
  <1>8. Out(x, <<"decide">>) /\ x.fn = "decide"
    BY <1>6, <1>7 DEF Out, JobFields
  <1>9. PICK todo : todo = <<"decide">>
    OBVIOUS
  <1>10. Apt(todo, None)
    BY <1>9, SingleApt DEF SingleHeads
  <1>11. todo \in Rests /\ todo \notin EnterRest \cup FoundRest \cup MakeRest /\ todo # <<"put">>
    <2>1. Head(todo) = "decide"
      BY <1>9
    <2>2. todo \in Rests
      BY <1>10 DEF Apt
    <2>3. QED
      BY <2>1, <2>2, RestHeads DEF EnterHeads, FoundHeads
  <1>12. ArgOK(x)
    BY <1>8, <1>9, <1>11 DEF ArgOK, Out
  <1>13. JobOK(x)'
    BY <1>4, <1>8, <1>9, <1>11, <1>12, SentJob
  <1>14. QED
    BY <1>2, <1>4, <1>6, <1>8, <1>13, OneMore, TappedTypes

LEMMA undoTypes ==
    ASSUME TypeInv, undoTapped
    PROVE  TypeInv'
  <1>1. Tap("undo") /\ UNCHANGED <<storage, auths, cards, lastCount, busy>> /\ Start("undo", <<"undo">>, undo)
    BY DEF undoTapped
  <1>2. Forward /\ UNCHANGED <<server, setting, mishaps>>
    BY <1>1, TappedFacts
  <1>3. UNCHANGED <<token, refresh, mfa, family, panel, lastCount, shown, row, picked>>
    BY <1>1 DEF storage, auths, cards
  <1>4. PageOK'
    BY <1>2, <1>3, KeysStay, ShownStays, ViewStays DEF PageOK
  <1>5. Apt(<<"undo">>, undo)
    BY SingleApt DEF SingleHeads
  <1>6. PICK todo, arg : todo = <<"undo">> /\ arg = undo
    OBVIOUS
  <1>7. QED
    BY <1>1, <1>4, <1>5, <1>6, StartTypes

LEMMA ParentTypes ==
    ASSUME TypeInv, Parent
    PROVE  TypeInv'
  BY authTypes, cancelTypes, OpenTypes, selectTypes, SubmitTypes, RemoveTypes, saveDefaultTypes, decideTypes,
     undoTypes DEF Parent

-----------------------------------------------------------------------------
(* So does what happens outside the page. *)

LEMMA Kept ==
    ASSUME TypeInv, Forward, ServerOK', UNCHANGED <<storage, page, bounds>>, JobsOK', OneLoop', IsFiniteSet(jobs)'
    PROVE  TypeInv'
  BY PageStays DEF TypeInv

LEMMA AskTypes ==
    ASSUME TypeInv, FileAsk \/ OtherDecides
    PROVE  TypeInv'
  <1>1. UNCHANGED <<storage, page, bounds>> /\ UNCHANGED <<mine, open, begun, era, made, dropped>>
    BY DEF FileAsk, OtherDecides
  <1>2. PICK f : jobs' = Woken(jobs, f)
    BY DEF FileAsk, OtherDecides
  <1>3. setting.asks \subseteq Item
    BY ConsoleAssumption DEF TypeInv, BoundsOK
  <1>4. rows' \cup asked' \subseteq Item
    BY <1>3 DEF FileAsk, OtherDecides, TypeInv, ServerOK
  <1>5. Forward /\ ServerOK'
    BY <1>1, <1>4 DEF TypeInv, ServerOK, Forward
  <1>6. PICK j : j = [other |-> None]
    OBVIOUS
  <1>7. DOMAIN j = {"other"} /\ "fn" \in JobFields
    BY <1>6 DEF JobFields
  <1>8. j \notin jobs
    BY <1>7, JobFacts
  <1>9. jobs' = Woken(jobs \ {j}, f) \cup {}
    <2>1. jobs \ {j} = jobs
      BY <1>8
    <2>2. QED
      BY <1>2, <2>1
  <1>10. JobsOK' /\ OneLoop' /\ IsFiniteSet(jobs)'
    BY <1>5, <1>9, WakeMoves
  <1>11. QED
    BY <1>1, <1>5, <1>10, Kept

LEMMA TimeTypes ==
    ASSUME TypeInv, EndSession \/ ExpireTokens
    PROVE  TypeInv'
  <1>1. UNCHANGED <<storage, page, bounds, jobs>> /\ UNCHANGED <<mine, rows, begun, asked, made, dropped>>
    BY DEF EndSession, ExpireTokens
  <1>2. open' \subseteq open /\ era' \in {era, era + 1}
    BY DEF EndSession, ExpireTokens
  <1>3. Forward /\ ServerOK'
    BY <1>1, <1>2 DEF TypeInv, ServerOK, Forward
  <1>4. QED
    BY <1>1, <1>3, SameJobs, Kept

LEMMA MishapTypes ==
    ASSUME TypeInv, NEW j \in jobs, Mishap(j)
    PROVE  TypeInv'
  <1>1. Forward /\ UNCHANGED <<server, storage, page, setting, tapped>> /\ mishaps' \in Nat
    BY SameServer DEF Mishap, TypeInv, BoundsOK
  <1>2. PICK status \in {"offline", "trouble"} : Answer(j, status, {}, None)
    BY DEF Mishap
  <1>3. \E x : jobs' = (jobs \ {j}) \cup {x} /\ x.fn = j.fn /\ JobOK(x)'
    BY <1>1, <1>2, PlainAnswer
  <1>4. JobsOK' /\ OneLoop' /\ IsFiniteSet(jobs)'
    BY <1>1, <1>3, OneMoves
  <1>5. PageOK' /\ ServerOK'
    BY <1>1, PageKept, SameServer
  <1>6. QED
    BY <1>1, <1>4, <1>5 DEF TypeInv, BoundsOK

LEMMA InitTypes ==
    ASSUME Init
    PROVE  TypeInv
  <1>1. setting \in Settings /\ setting.rows \subseteq Item /\ (setting.signedIn => Session # {})
    BY ConsoleAssumption DEF Init
  <1>2. mine \subseteq Family
    <2>1. \A i \in Item : i.card = "children" => i.family \in Family
      BY DEF Item
    <2>2. QED
      BY <1>1, <2>1 DEF Init
  <1>3. open \subseteq Session
    BY <1>1 DEF Init
  <1>4. ServerOK
    BY <1>1, <1>2, <1>3 DEF Init, ServerOK
  <1>5. KeysOK
    <2>1. token = refresh /\ mfa = None /\ begun = open /\ era = 0
      BY DEF Init
    <2>2. CASE open = {}
      BY <2>1, <2>2 DEF Init, KeysOK
    <2>3. CASE open # {}
      <3>1. PICK s \in open : token = [session |-> s, era |-> 0]
        BY <2>3 DEF Init
      <3>2. token \in Token /\ token.session = s /\ token.era = 0
        BY <1>3, <3>1 DEF Token
      <3>3. QED
        BY <2>1, <3>2, ConsoleAssumption DEF KeysOK, TokenOK
    <2>4. QED
      BY <2>2, <2>3
  <1>6. ShownOK
    BY DEF Init, NoCards, ShownOK
  <1>7. ViewOK
    <2>1. Cardinality(Item) \in Nat
      BY ConsoleAssumption, FS_CardinalityType
    <2>2. QED
      BY <2>1 DEF Init, ViewOK
  <1>8. BoundsOK /\ JobsOK /\ OneLoop
    BY <1>1, FS_EmptySet DEF Init, BoundsOK, JobsOK, OneLoop
  <1>9. QED
    BY <1>4, <1>5, <1>6, <1>7, <1>8 DEF TypeInv, PageOK

LEMMA NextTypes ==
    ASSUME TypeInv, [Next]_vars
    PROVE  TypeInv'
  <1>1. CASE UNCHANGED vars
    <2>1. UNCHANGED <<server, storage, page, jobs, bounds>>
      BY <1>1 DEF vars
    <2>2. QED
      BY <2>1, SameServer, SameJobs, Kept
  <1>2. ASSUME NEW j \in jobs, Step(j)
        PROVE  TypeInv'
    BY <1>2, HandleTypes, DeliverTypes DEF Step
  <1>3. QED
    BY <1>1, <1>2, MishapTypes, OpenTypes, ParentTypes, AskTypes, TimeTypes DEF Next

LEMMA TypesOK ==
    ASSUME TypeInv
    PROVE  TypeOK
  <1>1. Cardinality({j \in jobs : j.fn = "live"}) <= 1
    <2>1. PICK L : L = {j \in jobs : j.fn = "live"}
      OBVIOUS
    <2>2. CASE L = {}
      BY <2>1, <2>2, FS_EmptySet
    <2>3. CASE L # {}
      <3>1. PICK j \in L : TRUE
        BY <2>3
      <3>2. L = {j}
        BY <2>1, <3>1 DEF TypeInv, OneLoop
      <3>3. Cardinality(L) = 1
        BY <3>2, FS_Singleton
      <3>4. QED
        BY <2>1, <3>3
    <2>4. QED
      BY <2>2, <2>3
  <1>2. lastCount \in -1..Cardinality(Item)
    <2>1. Cardinality(Item) \in Nat
      BY ConsoleAssumption, FS_CardinalityType
    <2>2. QED
      BY <2>1 DEF TypeInv, PageOK, ViewOK
  <1>3. \A c \in DOMAIN shown : shown[c].items \subseteq {i \in Item : i.card = c}
    BY DEF TypeInv, PageOK, ShownOK
  <1>4. \A t \in {token, refresh, mfa} \ {None} : t.era <= era
    BY DEF TypeInv, PageOK, KeysOK, TokenOK
  <1>5. QED
    BY <1>1, <1>2, <1>3, <1>4 DEF TypeOK, TypeInv, ServerOK, PageOK, KeysOK, ViewOK, Defaults

\* Every variable keeps its type, and the page never has two live loops.
THEOREM ConsoleTypes == Spec => []TypeOK
  <1>1. Init => TypeInv
    BY InitTypes
  <1>2. TypeInv /\ [Next]_vars => TypeInv'
    BY NextTypes
  <1>3. TypeInv => TypeOK
    BY TypesOK
  <1>4. QED
    BY <1>1, <1>2, <1>3, PTL DEF Spec

-----------------------------------------------------------------------------
(* What forgets the session. *)

LEMMA PageForgets ==
    ASSUME TypeInv, NEW j \in jobs, Deliver(j), refresh # None, refresh' = None
    PROVE  \/ refresh.session \notin open
           \/ \E k \in jobs : k.stage = "back" /\ Head(k.todo) \in {"logout", "deleteMe"}
           \/ \E k \in jobs : k.try = "refresh" /\ k.status = "trouble"
           \/ \E k \in jobs : k.try = "refresh" /\ k.status = "401" /\ k.token.session # refresh.session
  <1>1. CASE Renewed(j)
    <2>1. j.stage = "back" /\ j.try = "refresh" /\ TokensOK(j)
      BY <1>1, JobFacts DEF Renewed
    <2>2. j.status \notin {"ok", "offline"}
      BY <1>1, <2>1 DEF Renewed, setTokens, TokensOK, Rejected
    <2>3. j.status \in {"401", "trouble"}
      BY <2>1, <2>2 DEF TokensOK
    <2>4. j.status = "401" => j.token.session \notin open
      BY <2>1 DEF TokensOK, RefusedOK
    <2>5. QED
      BY <2>1, <2>3, <2>4
  <1>2. CASE SignedIn(j)
    <2>1. Done(j) /\ Head(j.todo) \in SignIns
      BY <1>2, SettledFacts DEF SignedIn, Answered
    <2>2. j.gets # None
      BY <2>1, JobFacts DEF TokensOK
    <2>3. QED
      BY <1>2, <2>2 DEF SignedIn, setTokens
  <1>3. CASE SignedOut(j) \/ Closed(j)
    <2>1. j.stage = "back" /\ Head(j.todo) \in {"logout", "deleteMe"}
      BY <1>3, SettledFacts DEF SignedOut, Closed, Answered
    <2>2. QED
      BY <2>1
  <1>4. CASE UNCHANGED refresh
    BY <1>4
  <1>5. QED
    BY <1>1, <1>2, <1>3, <1>4
       DEF Deliver, RenewTokens, AfterMe, Selected, Picked, CardLoaded, Changed, Decided, TakenBack, Saved,
           NotSaved, NotDecided, GaveUp, Waited, BackOff, PollAgain, storage

\* The page forgets the session only when the parent leaves, when the session has
\* ended, or when the server answered a renewal with trouble of its own or refused
\* one that was of an earlier session (app.js, api and resume).
THEOREM SessionIsKept == Spec => SessionKept
  <1>1. TypeInv /\ [Next]_vars =>
          [refresh # None /\ refresh' = None =>
             \/ refresh.session \notin open
             \/ \E j \in jobs : j.stage = "back" /\ Head(j.todo) \in {"logout", "deleteMe"}
             \/ \E j \in jobs : j.try = "refresh" /\ j.status = "trouble"
             \/ \E j \in jobs : j.try = "refresh" /\ j.status = "401" /\ j.token.session # refresh.session]_vars
    <2> SUFFICES ASSUME TypeInv, Next, refresh # None, refresh' = None
                 PROVE  \/ refresh.session \notin open
                        \/ \E j \in jobs : j.stage = "back" /\ Head(j.todo) \in {"logout", "deleteMe"}
                        \/ \E j \in jobs : j.try = "refresh" /\ j.status = "trouble"
                        \/ \E j \in jobs : j.try = "refresh" /\ j.status = "401" /\ j.token.session # refresh.session
      BY DEF vars, storage
    <2>1. CASE \E j \in jobs : Deliver(j)
      BY <2>1, PageForgets
    <2>2. CASE UNCHANGED refresh
      BY <2>2
    <2>3. ASSUME Parent PROVE UNCHANGED refresh
      BY <2>3 DEF Parent, auth, Forgot, TryPasskey, endPasskeyStep, OpenLink, Reset, TryAgain, selectFamilyTapped,
                  Submit, Remove, saveDefaultTapped, decide, undoTapped, storage
    <2>4. ASSUME OpenPage \/ FileAsk \/ OtherDecides \/ EndSession \/ ExpireTokens PROVE UNCHANGED refresh
      BY <2>4 DEF OpenPage, FileAsk, OtherDecides, EndSession, ExpireTokens, storage
    <2>5. ASSUME NEW j \in jobs, Mishap(j) \/ Step(j) PROVE UNCHANGED refresh \/ Deliver(j)
      BY <2>5 DEF Mishap, Step, storage
    <2>6. QED
      BY <2>1, <2>2, <2>3, <2>4, <2>5 DEF Next
  <1>2. Init => TypeInv
    BY InitTypes
  <1>3. TypeInv /\ [Next]_vars => TypeInv'
    BY NextTypes
  <1>4. QED
    BY <1>1, <1>2, <1>3, PTL DEF Spec, SessionKept

-----------------------------------------------------------------------------
(* One tap changes one row: every call that may still change one was tapped for. *)

Changers == {"create", "delete", "decide", "undo"}

\* A call that may still change a row: it will ask for the change, has asked and is not
\* answered, or was refused a token it may yet renew.
Owes(j) ==
    \/ Head(j.todo) = "passkeyCreation"
    \/ /\ Head(j.todo) \in Changers
       /\ \/ j.stage = "out"
          \/ j.try = "refresh"
          \/ j.stage = "back" /\ j.status = "401" /\ j.try = "first"

Owed == {j \in jobs : Owes(j)}

Changes == Cardinality(made \cup dropped) + Cardinality(Owed) <= tapped

LEMMA OwedFinite ==
    ASSUME TypeInv
    PROVE  /\ IsFiniteSet(Owed) /\ Cardinality(Owed) \in Nat
           /\ IsFiniteSet(made \cup dropped) /\ Cardinality(made \cup dropped) \in Nat
  <1>1. IsFiniteSet(Owed)
    BY FS_Subset DEF Owed, TypeInv, BoundsOK
  <1>2. made \cup dropped \subseteq Item
    BY DEF TypeInv, ServerOK
  <1>3. IsFiniteSet(made \cup dropped)
    BY <1>2, FS_Subset, ConsoleAssumption
  <1>4. QED
    BY <1>1, <1>3, FS_CardinalityType

LEMMA OwedFiniteNext ==
    ASSUME TypeInv'
    PROVE  /\ IsFiniteSet(Owed') /\ Cardinality(Owed') \in Nat
           /\ IsFiniteSet(made' \cup dropped') /\ Cardinality(made' \cup dropped') \in Nat
  <1>1. IsFiniteSet(Owed')
    BY FS_Subset DEF Owed, TypeInv, BoundsOK
  <1>2. made' \cup dropped' \subseteq Item
    BY DEF TypeInv, ServerOK
  <1>3. IsFiniteSet(made' \cup dropped')
    BY <1>2, FS_Subset, ConsoleAssumption
  <1>4. QED
    BY <1>1, <1>3, FS_CardinalityType

\* A set that gains one element is larger by one at most; one that loses one and gains
\* one is no larger.
LEMMA Grow ==
    ASSUME NEW S, IsFiniteSet(S), NEW T, NEW x, T \subseteq S \cup {x}
    PROVE  IsFiniteSet(T) /\ Cardinality(T) <= Cardinality(S) + 1
  <1>1. /\ IsFiniteSet(S \cup {x}) /\ Cardinality(S \cup {x}) \in Nat /\ Cardinality(S) \in Nat
        /\ Cardinality(S \cup {x}) <= Cardinality(S) + 1
    BY FS_AddElement, FS_CardinalityType
  <1>2. IsFiniteSet(T) /\ Cardinality(T) <= Cardinality(S \cup {x}) /\ Cardinality(T) \in Nat
    BY <1>1, FS_Subset, FS_CardinalityType
  <1>3. QED
    BY <1>1, <1>2

LEMMA Swap ==
    ASSUME NEW S, IsFiniteSet(S), NEW T, NEW j, NEW x, T \subseteq (S \ {j}) \cup {x}, x \in T => j \in S
    PROVE  IsFiniteSet(T) /\ Cardinality(T) <= Cardinality(S)
  <1>1. IsFiniteSet(S \ {j}) /\ Cardinality(S) \in Nat /\ Cardinality(S \ {j}) \in Nat
    BY FS_RemoveElement, FS_CardinalityType
  <1>2. CASE x \in T
    <2>1. Cardinality(S \ {j}) = Cardinality(S) - 1
      BY <1>2, FS_RemoveElement
    <2>2. PICK R : R = S \ {j}
      OBVIOUS
    <2>3. IsFiniteSet(T) /\ Cardinality(T) <= Cardinality(R) + 1
      BY <1>1, <2>2, Grow
    <2>4. Cardinality(T) \in Nat
      BY <2>3, FS_CardinalityType
    <2>5. QED
      BY <1>1, <2>1, <2>2, <2>3, <2>4
  <1>3. CASE x \notin T
    <2>1. T \subseteq S
      BY <1>3
    <2>2. QED
      BY <2>1, FS_Subset
  <1>4. QED
    BY <1>2, <1>3

LEMMA ChangesStay ==
    ASSUME TypeInv, TypeInv', Changes, UNCHANGED <<made, dropped>>, tapped' >= tapped,
           Cardinality(Owed') <= Cardinality(Owed)
    PROVE  Changes'
  <1>1. PICK c, o : c = Cardinality(made \cup dropped) /\ o = Cardinality(Owed) /\ c \in Nat /\ o \in Nat
    BY OwedFinite
  <1>2. PICK oo : oo = Cardinality(Owed') /\ oo \in Nat
    BY OwedFiniteNext
  <1>3. tapped \in Nat /\ tapped' \in Nat
    BY DEF TypeInv, BoundsOK
  <1>4. c + o <= tapped /\ oo <= o
    BY <1>1, <1>2 DEF Changes
  <1>5. c + oo <= tapped'
    BY <1>1, <1>2, <1>3, <1>4
  <1>6. QED
    BY <1>1, <1>2, <1>5 DEF Changes

LEMMA ChangesBegin ==
    ASSUME TypeInv, TypeInv', Changes, UNCHANGED <<made, dropped>>, tapped' = tapped + 1,
           NEW x, Owed' \subseteq Owed \cup {x}
    PROVE  Changes'
  <1>1. PICK c, o : c = Cardinality(made \cup dropped) /\ o = Cardinality(Owed) /\ c \in Nat /\ o \in Nat
    BY OwedFinite
  <1>2. PICK oo : oo = Cardinality(Owed') /\ oo \in Nat
    BY OwedFiniteNext
  <1>3. tapped \in Nat /\ tapped' \in Nat
    BY DEF TypeInv, BoundsOK
  <1>4. c + o <= tapped /\ oo <= o + 1
    BY <1>1, <1>2, OwedFinite, Grow DEF Changes
  <1>5. c + oo <= tapped'
    BY <1>1, <1>2, <1>3, <1>4
  <1>6. QED
    BY <1>1, <1>2, <1>5 DEF Changes

LEMMA ChangeMade ==
    ASSUME TypeInv, TypeInv', Changes, NEW i, made' \cup dropped' \subseteq (made \cup dropped) \cup {i},
           UNCHANGED tapped, NEW j \in Owed, Cardinality(Owed') <= Cardinality(Owed \ {j})
    PROVE  Changes'
  <1>1. PICK c, o : c = Cardinality(made \cup dropped) /\ o = Cardinality(Owed) /\ c \in Nat /\ o \in Nat
    BY OwedFinite
  <1>2. PICK oo, cc : /\ oo = Cardinality(Owed') /\ oo \in Nat
                      /\ cc = Cardinality(made' \cup dropped') /\ cc \in Nat
    BY OwedFiniteNext
  <1>3. tapped \in Nat
    BY DEF TypeInv, BoundsOK
  <1>4. c + o <= tapped /\ oo <= o - 1
    <2>1. Cardinality(Owed \ {j}) = o - 1
      BY <1>1, OwedFinite, FS_RemoveElement
    <2>2. QED
      BY <1>1, <1>2, <2>1 DEF Changes
  <1>5. cc <= c + 1
    BY <1>1, <1>2, OwedFinite, Grow
  <1>6. cc + oo <= tapped'
    BY <1>1, <1>2, <1>3, <1>4, <1>5
  <1>7. QED
    BY <1>2, <1>6 DEF Changes

\* One call moves, and owes nothing it did not owe before.
LEMMA OneOwes ==
    ASSUME TypeInv, TypeInv', Changes, UNCHANGED <<made, dropped>>, tapped' >= tapped,
           NEW j \in jobs, NEW x, jobs' = (jobs \ {j}) \cup {x}, Owes(x) => Owes(j)
    PROVE  Changes'
  <1>1. PICK O : O = Owed'
    OBVIOUS
  <1>2. O \subseteq (Owed \ {j}) \cup {x} /\ (x \in O => j \in Owed)
    BY <1>1 DEF Owed
  <1>3. Cardinality(O) <= Cardinality(Owed)
    BY <1>2, OwedFinite, Swap
  <1>4. QED
    BY <1>1, <1>3, ChangesStay

\* One call ends or goes on, and calls that owe nothing begin.
LEMMA RestOwes ==
    ASSUME TypeInv, TypeInv', Changes, UNCHANGED <<made, dropped, tapped>>, NEW j \in jobs, NEW others,
           GoOn(j, others) \/ End(j, others), \A x \in others : ~Owes(x)
    PROVE  Changes'
  <1>1. PICK O : O = Owed'
    OBVIOUS
  <1>2. \A y \in Rest(j) : Owes(y) => Owes(j)
    <2> SUFFICES ASSUME NEW y \in Rest(j), Owes(y) PROVE Owes(j)
      OBVIOUS
    <2>1. Tail(j.todo) # <<>> /\ y.todo = Tail(j.todo) /\ j.todo \in Rests
      BY JobFacts, SentFields DEF Rest, Out
    <2>2. PICK r : r = Tail(j.todo)
      OBVIOUS
    <2>3. Head(r) \in Changers \cup {"passkeyCreation"}
      BY <2>1, <2>2 DEF Owes
    <2>4. j.todo \notin EnterRest
      BY <2>1, <2>2, <2>3, EnterRests DEF EnterHeads, Changers
    <2>5. j.todo \notin FoundRest
      <3>1. Head(<<"picker">>) = "picker"
        OBVIOUS
      <3>2. QED
        BY <2>1, <2>2, <2>3, <3>1, FoundRests DEF FoundHeads, Changers
    <2>6. j.todo \notin DropRest \cup LoadRest \cup SingleRest
      BY <2>1, <2>2, <2>3, DropRests, LoadRests, SingleRests DEF Changers, Card
    <2>7. j.todo \in MakeRest
      BY <2>1, <2>4, <2>5, <2>6 DEF Rests
    <2>8. CASE j.todo = <<"passkeyCreation", "create", "passkeys">>
      BY <2>8 DEF Owes
    <2>9. CASE j.todo # <<"passkeyCreation", "create", "passkeys">>
      <3>1. PICK c \in Card : j.todo = <<"create", c>>
        BY <2>7, <2>9 DEF MakeRest, Card
      <3>2. Tail(<<"create", c>>) = <<c>> /\ Head(<<c>>) = c
        OBVIOUS
      <3>3. QED
        BY <2>2, <2>3, <3>1, <3>2 DEF Card, Changers
    <2>10. QED
      BY <2>8, <2>9
  <1>3. CASE Rest(j) = {} \/ End(j, others)
    <2>1. O \subseteq Owed
      BY <1>1, <1>3 DEF GoOn, End, Owed
    <2>2. QED
      BY <1>1, <2>1, OwedFinite, FS_Subset, ChangesStay DEF TypeInv, BoundsOK
  <1>4. CASE Rest(j) # {} /\ GoOn(j, others)
    <2>1. PICK y : Rest(j) = {y}
      BY <1>4 DEF Rest
    <2>2. O \subseteq (Owed \ {j}) \cup {y} /\ (y \in O => j \in Owed)
      BY <1>1, <1>2, <1>4, <2>1 DEF GoOn, Owed
    <2>3. Cardinality(O) <= Cardinality(Owed)
      BY <2>2, OwedFinite, Swap
    <2>4. QED
      BY <1>1, <2>3, ChangesStay DEF TypeInv, BoundsOK
  <1>5. QED
    BY <1>3, <1>4

LEMMA LoadOwes ==
    ASSUME NEW cs \in SUBSET Card, NEW x \in Load(cs)
    PROVE  ~Owes(x)
  <1>1. PICK c \in Card : x = Call(c, <<c>>)
    BY DEF Load
  <1>2. x.todo = <<c>>
    BY <1>1, CallFields DEF Out
  <1>3. QED
    BY <1>2 DEF Owes, Changers, Card

\* The other calls wait for something else to change, or are told their row is gone.
LEMMA ImageOwes ==
    ASSUME TypeInv, NEW S, S \subseteq jobs, NEW g, DOMAIN g = S, NEW O,
           \A k \in S : Owes(g[k]) => Owes(k), O \subseteq {g[k] : k \in S}, \A y \in O : Owes(y)
    PROVE  Cardinality(O) <= Cardinality(Owed \cap S)
  <1>1. PICK P : P = Owed \cap S
    OBVIOUS
  <1>2. PICK h : h = [k \in P |-> g[k]]
    OBVIOUS
  <1>3. PICK T : T = {h[k] : k \in P}
    OBVIOUS
  <1>4. O \subseteq T
    BY <1>1, <1>2, <1>3 DEF Owed
  <1>5. IsFiniteSet(P) /\ DOMAIN h = P
    BY <1>1, <1>2, OwedFinite, FS_Subset
  <1>6. IsFiniteSet(T) /\ Cardinality(T) <= Cardinality(P)
    BY <1>3, <1>5, ImageFinite
  <1>7. IsFiniteSet(O) /\ Cardinality(O) <= Cardinality(T)
    BY <1>4, <1>6, FS_Subset
  <1>8. Cardinality(O) \in Nat /\ Cardinality(T) \in Nat /\ Cardinality(P) \in Nat
    BY <1>5, <1>6, <1>7, FS_CardinalityType
  <1>9. QED
    BY <1>1, <1>6, <1>7, <1>8

LEMMA WokenOwes ==
    ASSUME TypeInv, NEW S, S \subseteq jobs, NEW f
    PROVE  \E g : /\ DOMAIN g = S /\ Woken(S, f) = {g[k] : k \in S}
                  /\ \A k \in S : Owes(g[k]) => Owes(k)
  <1>1. PICK g : g = [k \in S |-> IF k.stage = "parked" /\ k.family = f THEN [k EXCEPT !.stage = "woken"] ELSE k]
    OBVIOUS
  <1>2. DOMAIN g = S /\ Woken(S, f) = {g[k] : k \in S}
    BY <1>1 DEF Woken
  <1>3. \A k \in S : Owes(g[k]) => Owes(k)
    <2> SUFFICES ASSUME NEW k \in S, Owes(g[k]) PROVE Owes(k)
      OBVIOUS
    <2>1. CASE k.stage = "parked" /\ k.family = f
      <3>1. PICK y : y = [k EXCEPT !.stage = "woken"]
        OBVIOUS
      <3>2. y.todo = k.todo /\ DOMAIN k = JobFields /\ Head(k.todo) = "wait"
        BY <2>1, <3>1, JobFacts DEF JobFields
      <3>3. g[k] = y
        BY <1>1, <2>1, <3>1
      <3>4. QED
        BY <3>2, <3>3 DEF Owes, Changers
    <2>2. CASE ~(k.stage = "parked" /\ k.family = f)
      BY <1>1, <2>2
    <2>3. QED
      BY <2>1, <2>2
  <1>4. QED
    BY <1>2, <1>3

LEMMA AnswerOwes ==
    ASSUME TypeInv, TypeInv', Changes, UNCHANGED <<made, dropped>>, tapped' >= tapped, NEW j \in jobs,
           NEW status, NEW items, NEW gets, Answer(j, status, items, gets), status = "401" => j.stage = "out"
    PROVE  Changes'
  <1>1. PICK x : jobs' = (jobs \ {j}) \cup {x} /\ Back(j, x) /\ x.status = status
    BY JobFacts, AnswerFields
  <1>2. Owes(x) => Owes(j)
    BY <1>1 DEF Owes, Back
  <1>3. QED
    BY <1>1, <1>2, OneOwes

LEMMA SameTapped ==
    ASSUME TypeInv, UNCHANGED tapped
    PROVE  tapped' >= tapped
  BY DEF TypeInv, BoundsOK

\* Calls that ask for nothing to change.
LEMMA QuietOwes ==
    ASSUME TypeInv, TypeInv', Changes, NEW j \in jobs, UNCHANGED tapped, UNCHANGED <<made, dropped>>,
           NEW x, jobs' = (jobs \ {j}) \cup {x}, x.todo = j.todo,
           Head(j.todo) \notin Changers \cup {"passkeyCreation"} \/ j.try = "refresh"
    PROVE  Changes'
  <1>1. Owes(x) => Owes(j)
    BY DEF Owes
  <1>2. QED
    BY <1>1, SameTapped, OneOwes

LEMMA AnswersOwe ==
    ASSUME TypeInv, TypeInv', Changes, NEW j \in jobs, UNCHANGED bounds,
           \/ Refuse(j) \/ HandleSignIn(j) \/ HandleMail(j) \/ HandleOptions(j) \/ HandleList(j)
           \/ HandlePut(j) \/ HandleLogout(j) \/ ListAgain(j) \/ TimeOut(j)
    PROVE  Changes'
  <1>1. UNCHANGED <<made, dropped>> /\ tapped' = tapped
    BY DEF Refuse, HandleSignIn, HandleMail, HandleOptions, HandleList, HandlePut, HandleLogout, ListAgain, TimeOut,
           server, bounds
  <1>2. PICK status, items, gets : Answer(j, status, items, gets) /\ (status = "401" => j.stage = "out")
    <2>1. CASE Refuse(j)
      BY <2>1 DEF Refuse
    <2>2. CASE HandleSignIn(j)
      BY <2>2 DEF HandleSignIn, Asking
    <2>3. CASE HandleMail(j) \/ HandleOptions(j)
      BY <2>3 DEF HandleMail, HandleOptions, Ok
    <2>4. CASE HandleList(j)
      BY <2>4 DEF HandleList
    <2>5. CASE HandlePut(j) \/ HandleLogout(j)
      BY <2>5 DEF HandlePut, HandleLogout, Ok
    <2>6. CASE ListAgain(j) \/ TimeOut(j)
      BY <2>6 DEF ListAgain, TimeOut
    <2>7. QED
      BY <2>1, <2>2, <2>3, <2>4, <2>5, <2>6
  <1>3. QED
    BY <1>1, <1>2, SameTapped, AnswerOwes

LEMMA RefreshOwes ==
    ASSUME TypeInv, TypeInv', Changes, NEW j \in jobs, UNCHANGED bounds,
           HandleRefresh(j) \/ HandleMe(j) \/ HandleCreateFamily(j) \/ ListPending(j) \/ Compare(j)
    PROVE  Changes'
  <1>1. UNCHANGED <<made, dropped>> /\ tapped' = tapped
    BY DEF HandleRefresh, HandleMe, HandleCreateFamily, ListPending, Compare, server, bounds
  <1>2. ASSUME NEW status, NEW items, NEW gets, Answer(j, status, items, gets), status # "401"
        PROVE  Changes'
    BY <1>1, <1>2, SameTapped, AnswerOwes
  <1>3. CASE HandleRefresh(j)
    <2>1. CASE jobs' = (jobs \ {j}) \cup {[j EXCEPT !.stage = "back", !.status = "401"]}
      <3>1. PICK x : x = [j EXCEPT !.stage = "back", !.status = "401"] /\ jobs' = (jobs \ {j}) \cup {x}
        BY <2>1
      <3>2. x.todo = j.todo /\ j.try = "refresh"
        BY <1>3, <3>1, JobFacts DEF HandleRefresh, JobFields
      <3>3. QED
        BY <1>1, <3>1, <3>2, QuietOwes
    <2>2. CASE Answer(j, "ok", {}, [session |-> j.token.session, era |-> era])
      BY <1>2, <2>2
    <2>3. QED
      BY <1>3, <2>1, <2>2 DEF HandleRefresh
  <1>4. CASE HandleMe(j)
    <2>1. PICK x, f : x = [j EXCEPT !.stage = "back", !.token = None, !.arg = f] /\ jobs' = (jobs \ {j}) \cup {x}
      BY <1>4 DEF HandleMe
    <2>2. x.todo = j.todo /\ Head(j.todo) \in {"me", "picker"}
      BY <1>4, <2>1, JobFacts DEF HandleMe, Authorized, Asking, JobFields
    <2>3. QED
      BY <1>1, <2>1, <2>2, QuietOwes DEF Changers
  <1>5. CASE HandleCreateFamily(j)
    <2>1. PICK x, f : x = [j EXCEPT !.stage = "back", !.token = None, !.made = f] /\ jobs' = (jobs \ {j}) \cup {x}
      BY <1>5 DEF HandleCreateFamily
    <2>2. x.todo = j.todo /\ Head(j.todo) = "createFamily"
      BY <1>5, <2>1, JobFacts DEF HandleCreateFamily, Authorized, Asking, JobFields
    <2>3. QED
      BY <1>1, <2>1, <2>2, QuietOwes DEF Changers
  <1>6. CASE ListPending(j)
    <2>1. PICK x, l : x = [j EXCEPT !.stage = "listed", !.items = l] /\ jobs' = (jobs \ {j}) \cup {x}
      BY <1>6 DEF ListPending
    <2>2. x.todo = j.todo /\ Head(j.todo) = "wait"
      BY <1>6, <2>1, JobFacts DEF ListPending, At, JobFields
    <2>3. QED
      BY <1>1, <2>1, <2>2, QuietOwes DEF Changers
  <1>7. CASE Compare(j)
    <2>1. CASE Answer(j, "ok", j.items, None)
      BY <1>2, <2>1
    <2>2. CASE jobs' = (jobs \ {j}) \cup {[j EXCEPT !.stage = "parked"]}
      <3>1. PICK x : x = [j EXCEPT !.stage = "parked"] /\ jobs' = (jobs \ {j}) \cup {x}
        BY <2>2
      <3>2. x.todo = j.todo /\ Head(j.todo) = "wait"
        BY <1>7, <3>1, JobFacts DEF Compare, At, JobFields
      <3>3. QED
        BY <1>1, <3>1, <3>2, QuietOwes DEF Changers
    <2>3. QED
      BY <1>7, <2>1, <2>2 DEF Compare
  <1>8. QED
    BY <1>3, <1>4, <1>5, <1>6, <1>7

\* A row is what its card, family and id say.
LEMMA SameRow ==
    ASSUME NEW x \in Item, NEW y \in Item, x.card = y.card, x.id = y.id, x.family = y.family
    PROVE  x = y
  <1>1. ASSUME NEW i \in Item PROVE i = [card |-> i.card, family |-> i.family, id |-> i.id]
    <2>1. CASE i \in [card : Card \ {"passkeys"}, family : Family, id : Id]
      BY <2>1
    <2>2. CASE i \in [card : {"passkeys"}, family : {None}, id : Id]
      BY <2>2
    <2>3. QED
      BY <1>1, <2>1, <2>2 DEF Item
  <1>2. QED
    BY <1>1

LEMMA OneHit ==
    ASSUME TypeInv, NEW card, NEW f, NEW x \in ListOf(card, f), NEW y \in ListOf(card, f), x.id = y.id
    PROVE  x = y
  <1>1. x \in Item /\ y \in Item /\ x.card = card /\ y.card = card
    BY DEF ListOf, TypeInv, ServerOK
  <1>2. x.family = y.family
    <2>1. CASE card = "passkeys"
      BY <1>1, <2>1 DEF Item
    <2>2. CASE card # "passkeys"
      BY <2>2 DEF ListOf
    <2>3. QED
      BY <2>1, <2>2
  <1>3. QED
    BY <1>1, <1>2, SameRow

\* A change is made, and the call that asked for it owes no other.
LEMMA AnsweredOwes ==
    ASSUME TypeInv, TypeInv', Changes, NEW j \in jobs, UNCHANGED tapped, Head(j.todo) \in Changers,
           j.stage = "out", j.try # "refresh",
           NEW status, Answer(j, status, {}, None), status # "401",
           NEW i, made' \cup dropped' \subseteq (made \cup dropped) \cup {i}
    PROVE  Changes'
  <1>1. PICK x : jobs' = (jobs \ {j}) \cup {x} /\ Back(j, x) /\ x.status = status
    BY JobFacts, AnswerFields
  <1>2. ~Owes(x)
    BY <1>1 DEF Owes, Back, Changers
  <1>3. j \in Owed
    BY DEF Owed, Owes
  <1>4. PICK O, P : O = Owed' /\ P = Owed \ {j}
    OBVIOUS
  <1>5. O \subseteq P
    BY <1>1, <1>2, <1>4 DEF Owed
  <1>6. IsFiniteSet(P)
    BY <1>4, OwedFinite, FS_RemoveElement
  <1>7. Cardinality(O) <= Cardinality(P)
    BY <1>5, <1>6, FS_Subset
  <1>8. QED
    BY <1>3, <1>4, <1>7, ChangeMade

LEMMA CreateOwes ==
    ASSUME TypeInv, TypeInv', Changes, NEW j \in jobs, UNCHANGED bounds, HandleCreate(j) \/ HandleDelete(j)
    PROVE  Changes'
  <1>1. tapped' = tapped /\ j.stage = "out" /\ j.try # "refresh" /\ Head(j.todo) \in Changers
    BY DEF bounds, HandleCreate, HandleDelete, Authorized, Asking, Changers
  <1>2. PICK status \in {"ok", "refused"} : Answer(j, status, {}, None)
    BY DEF HandleCreate, HandleDelete, Ok
  <1>3. PICK i : made' \cup dropped' \subseteq (made \cup dropped) \cup {i}
    <2>1. CASE HandleCreate(j)
      BY <2>1 DEF HandleCreate, Make
    <2>2. CASE HandleDelete(j)
      <3>1. PICK hit : hit = {x \in ListOf(IF Head(j.todo) = "undo" \/ j.arg.card = "rules" THEN "rules"
                                              ELSE j.arg.card, j.family) : x.id = j.arg.id}
        OBVIOUS
      <3>2. PICK lost : lost \subseteq hit /\ dropped' = dropped \cup lost /\ made' = made
        <4>1. dropped' = dropped \cup {} \/ dropped' = dropped \cup hit
          BY <2>2, <3>1 DEF HandleDelete, Drop
        <4>2. QED
          BY <2>2, <4>1 DEF HandleDelete
      <3>3. PICK card, id, f : /\ card = IF Head(j.todo) = "undo" \/ j.arg.card = "rules" THEN "rules" ELSE j.arg.card
                               /\ id = j.arg.id /\ f = j.family
        OBVIOUS
      <3>4. \A x \in hit : x \in ListOf(card, f) /\ x.id = id
        BY <3>1, <3>3
      <3>5. PICK i : hit \subseteq {i}
        <4>1. \A x, y \in hit : x = y
          BY <3>4, OneHit
        <4>2. QED
          BY <4>1
      <3>6. QED
        BY <3>2, <3>5
    <2>3. QED
      BY <2>1, <2>2
  <1>4. QED
    BY <1>1, <1>2, <1>3, AnsweredOwes

LEMMA DecideOwes ==
    ASSUME TypeInv, TypeInv', Changes, NEW j \in jobs, UNCHANGED bounds, HandleDecide(j)
    PROVE  Changes'
  <1>1. /\ tapped' = tapped /\ j.stage = "out" /\ j.try # "refresh" /\ Head(j.todo) \in Changers
        /\ dropped' = dropped
    BY DEF bounds, HandleDecide, Authorized, Asking, Changers
  <1>2. CASE Answer(j, "refused", {}, None) /\ UNCHANGED made
    <2>1. PICK i : made' \cup dropped' \subseteq (made \cup dropped) \cup {i}
      BY <1>1, <1>2
    <2>2. QED
      BY <1>1, <1>2, <2>1, AnsweredOwes
  <1>3. ASSUME NEW answer, made' = made \cup {answer},
               jobs' = Woken(jobs \ {j}, j.family) \cup {[j EXCEPT !.stage = "back", !.token = None, !.made = answer]}
        PROVE  Changes'
    <2>1. PICK x : /\ x = [j EXCEPT !.stage = "back", !.token = None, !.made = answer]
                   /\ jobs' = Woken(jobs \ {j}, j.family) \cup {x}
      BY <1>3
    <2>2. x.todo = j.todo /\ x.stage = "back" /\ x.try = j.try /\ x.status = j.status
      BY <2>1, JobFacts DEF JobFields
    <2>3. j.status = "ok"
      BY <1>1, JobFacts DEF JobOK, ShapeOK
    <2>4. ~Owes(x)
      BY <1>1, <2>2, <2>3 DEF Owes, Changers
    <2>5. PICK S : S = jobs \ {j}
      OBVIOUS
    <2>6. PICK g : /\ DOMAIN g = S /\ Woken(S, j.family) = {g[k] : k \in S}
                   /\ \A k \in S : Owes(g[k]) => Owes(k)
      BY <2>5, WokenOwes
    <2>7. PICK O : O = Owed'
      OBVIOUS
    <2>8. O \subseteq {g[k] : k \in S} /\ \A y \in O : Owes(y)
      BY <2>1, <2>4, <2>5, <2>6, <2>7 DEF Owed
    <2>9. Cardinality(O) <= Cardinality(Owed \cap S)
      BY <2>5, <2>6, <2>8, ImageOwes
    <2>10. Owed \cap S = Owed \ {j} /\ j \in Owed
      BY <1>1, <2>5 DEF Owed, Owes
    <2>11. QED
      BY <1>1, <1>3, <2>7, <2>9, <2>10, ChangeMade
  <1>4. QED
    BY <1>2, <1>3 DEF HandleDecide

LEMMA HandleOwes ==
    ASSUME TypeInv, TypeInv', Changes, NEW j \in jobs, UNCHANGED bounds, Handle(j)
    PROVE  Changes'
  BY AnswersOwe, RefreshOwes, CreateOwes, DecideOwes DEF Handle

LEMMA RenewOwes ==
    ASSUME TypeInv, TypeInv', Changes, NEW j \in jobs, UNCHANGED bounds, RenewTokens(j) \/ Renewed(j)
    PROVE  Changes'
  <1>1. UNCHANGED <<made, dropped>> /\ tapped' = tapped /\ j.stage = "back"
    BY DEF RenewTokens, Renewed, server, bounds
  <1>2. CASE RenewTokens(j)
    <2>1. PICK x : /\ x = [j EXCEPT !.stage = "out", !.try = "refresh", !.token = refresh, !.status = "ok"]
                   /\ jobs' = (jobs \ {j}) \cup {x}
      BY <1>2 DEF RenewTokens
    <2>2. x.todo = j.todo /\ j.status = "401" /\ j.try = "first"
      BY <1>2, <2>1, JobFacts DEF RenewTokens, Renews, JobFields
    <2>3. Owes(x) => Owes(j)
      BY <1>1, <2>2 DEF Owes
    <2>4. QED
      BY <1>1, <2>1, <2>3, SameTapped, OneOwes
  <1>3. CASE Renewed(j)
    <2>1. PICK x : jobs' = (jobs \ {j}) \cup {x} /\ x.todo = j.todo
      <3>1. CASE j.status = "ok"
        <4>1. PICK x : /\ x = [j EXCEPT !.stage = "out", !.try = "again", !.token = j.gets, !.gets = None]
                       /\ jobs' = (jobs \ {j}) \cup {x}
          BY <1>3, <3>1 DEF Renewed
        <4>2. x.todo = j.todo
          BY <4>1, JobFacts DEF JobFields
        <4>3. QED
          BY <4>1, <4>2
      <3>2. CASE j.status # "ok"
        <4>1. PICK x : /\ x = [j EXCEPT !.try = "again", !.token = None, !.status = "401"]
                       /\ jobs' = (jobs \ {j}) \cup {x}
          BY <1>3, <3>2 DEF Renewed
        <4>2. x.todo = j.todo
          BY <4>1, JobFacts DEF JobFields
        <4>3. QED
          BY <4>1, <4>2
      <3>3. QED
        BY <3>1, <3>2
    <2>2. j.try = "refresh"
      BY <1>3 DEF Renewed
    <2>3. QED
      BY <1>1, <2>1, <2>2, QuietOwes
  <1>4. QED
    BY <1>2, <1>3

LEMMA CallOwes ==
    ASSUME NEW fn, NEW todo, NEW x, x = Call(fn, todo), Head(todo) \notin Changers \cup {"passkeyCreation"}
    PROVE  ~Owes(x)
  BY CallFields DEF Owes, Out

LEMMA EnterOwes ==
    ASSUME NEW fn, NEW todo \in EnterRest, NEW x, x = Call(fn, todo)
    PROVE  ~Owes(x)
  BY CallOwes, EnterRests DEF EnterHeads, Changers

LEMMA GoOwes ==
    ASSUME TypeInv, TypeInv', Changes, NEW j \in jobs, UNCHANGED bounds,
           \/ SignedIn(j) \/ AfterMe(j) \/ Selected(j) \/ Picked(j) \/ Changed(j) \/ Decided(j) \/ TakenBack(j)
           \/ Saved(j) \/ NotSaved(j) \/ NotDecided(j) \/ GaveUp(j) \/ Closed(j)
    PROVE  Changes'
  <1>1. UNCHANGED <<made, dropped, tapped>>
    BY DEF SignedIn, AfterMe, Selected, Picked, Changed, Decided, TakenBack, Saved, NotSaved, NotDecided, GaveUp,
           Closed, server, bounds
  <1>2. \A x \in {} : ~Owes(x)
    OBVIOUS
  <1>3. \A x \in Load({"passkeys"}) \cup Load(Refreshed) \cup Load({"grants"}) \cup Load({"rules", "grants"}) : ~Owes(x)
    <2>1. {"passkeys"} \in SUBSET Card /\ Refreshed \in SUBSET Card /\ {"grants"} \in SUBSET Card
          /\ {"rules", "grants"} \in SUBSET Card
      BY DEF Card, Refreshed
    <2>2. QED
      BY <2>1, LoadOwes
  <1>4. CASE SignedIn(j)
    <2>1. \A x \in {Call("usePasskey", usePasskey)} : ~Owes(x)
      BY Entries, EnterOwes
    <2>2. GoOn(j, {}) \/ End(j, {Call("usePasskey", usePasskey)})
      BY <1>4 DEF SignedIn
    <2>3. QED
      BY <1>1, <1>2, <2>1, <2>2, RestOwes
  <1>5. CASE AfterMe(j)
    <2>1. GoOn(j, Load({"passkeys"})) \/ End(j, Load({"passkeys"}))
      BY <1>5 DEF AfterMe
    <2>2. QED
      BY <1>1, <1>3, <2>1, RestOwes
  <1>6. CASE Selected(j)
    <2>1. PICK live : /\ live = IF Watched THEN {} ELSE {Call("live", <<"wait">>)}
                      /\ GoOn(j, Load(Refreshed) \cup live)
      BY <1>6 DEF Selected
    <2>2. \A x \in live : ~Owes(x)
      <3>1. PICK todo : todo = <<"wait">>
        OBVIOUS
      <3>2. Head(todo) \notin Changers \cup {"passkeyCreation"}
        BY <3>1 DEF Changers
      <3>3. QED
        BY <2>1, <3>1, <3>2, CallOwes
    <2>3. PICK others : others = Load(Refreshed) \cup live
      OBVIOUS
    <2>4. \A x \in others : ~Owes(x)
      BY <1>3, <2>2, <2>3
    <2>5. QED
      BY <1>1, <2>1, <2>3, <2>4, RestOwes
  <1>7. CASE Changed(j)
    <2>1. GoOn(j, {}) \/ GoOn(j, Load({"grants"}))
      BY <1>7 DEF Changed, With
    <2>2. QED
      BY <1>1, <1>2, <1>3, <2>1, RestOwes
  <1>8. CASE Decided(j) \/ TakenBack(j)
    <2>1. End(j, Load({"rules", "grants"}))
      BY <1>8 DEF Decided, TakenBack
    <2>2. QED
      BY <1>1, <1>3, <2>1, RestOwes
  <1>9. CASE Picked(j) \/ Saved(j) \/ NotSaved(j) \/ NotDecided(j) \/ GaveUp(j) \/ Closed(j)
    <2>1. GoOn(j, {}) \/ End(j, {})
      BY <1>9 DEF Picked, Saved, NotSaved, NotDecided, GaveUp, Closed
    <2>2. QED
      BY <1>1, <1>2, <2>1, RestOwes
  <1>10. QED
    BY <1>4, <1>5, <1>6, <1>7, <1>8, <1>9

\* When all calls are given up, or fewer are under way, less is owed.
LEMMA FewerOwe ==
    ASSUME TypeInv, TypeInv', Changes, UNCHANGED <<made, dropped>>, tapped' >= tapped,
           \A x \in jobs' : Owes(x) => x \in jobs
    PROVE  Changes'
  <1>1. PICK O : O = Owed'
    OBVIOUS
  <1>2. O \subseteq Owed
    BY <1>1 DEF Owed
  <1>3. QED
    BY <1>1, <1>2, OwedFinite, FS_Subset, ChangesStay

LEMMA LoadedOwes ==
    ASSUME TypeInv, TypeInv', Changes, NEW j \in jobs, UNCHANGED bounds, CardLoaded(j)
    PROVE  Changes'
  <1>1. UNCHANGED <<made, dropped>> /\ tapped' = tapped /\ tapped' >= tapped
    BY SameTapped DEF CardLoaded, server, bounds
  <1>2. CASE jobs' = jobs \ {j}
    BY <1>1, <1>2, FewerOwe
  <1>3. CASE jobs' = Detached(jobs \ {j})
    <2>1. PICK S : S = jobs \ {j}
      OBVIOUS
    <2>2. PICK g : g = [k \in S |-> IF k.fn = "saveDefault" THEN [k EXCEPT !.known = -2] ELSE k]
      OBVIOUS
    <2>3. DOMAIN g = S /\ jobs' = {g[k] : k \in S}
      BY <1>3, <2>1, <2>2 DEF Detached
    <2>4. \A k \in S : Owes(g[k]) => Owes(k)
      <3> SUFFICES ASSUME NEW k \in S, Owes(g[k]) PROVE Owes(k)
        OBVIOUS
      <3>1. CASE k.fn = "saveDefault"
        <4>1. PICK y : y = [k EXCEPT !.known = -2] /\ g[k] = y
          BY <2>2, <3>1
        <4>2. y.todo = k.todo /\ y.stage = k.stage /\ y.try = k.try /\ y.status = k.status
          BY <2>1, <4>1, JobFacts DEF JobFields
        <4>3. QED
          BY <4>1, <4>2 DEF Owes
      <3>2. CASE k.fn # "saveDefault"
        BY <2>2, <3>2
      <3>3. QED
        BY <3>1, <3>2
    <2>5. PICK O : O = Owed'
      OBVIOUS
    <2>6. O \subseteq {g[k] : k \in S} /\ \A y \in O : Owes(y)
      BY <2>3, <2>5 DEF Owed
    <2>7. Cardinality(O) <= Cardinality(Owed \cap S)
      BY <2>1, <2>3, <2>4, <2>6, ImageOwes
    <2>8. /\ Cardinality(Owed \cap S) <= Cardinality(Owed) /\ Cardinality(Owed \cap S) \in Nat
          /\ Cardinality(Owed) \in Nat /\ Cardinality(O) \in Nat
      BY <2>5, OwedFinite, OwedFiniteNext, FS_Subset, FS_CardinalityType
    <2>9. Cardinality(O) <= Cardinality(Owed)
      BY <2>7, <2>8
    <2>10. QED
      BY <1>1, <2>5, <2>9, ChangesStay
  <1>4. QED
    BY <1>2, <1>3 DEF CardLoaded

LEMMA BeginsOwe ==
    ASSUME TypeInv, TypeInv', Changes, UNCHANGED <<made, dropped>>, tapped' >= tapped, resume
    PROVE  Changes'
  <1>1. jobs' = {} \/ jobs' = {Call("resume", afterLogin)}
    BY DEF resume
  <1>2. ~Owes(Call("resume", afterLogin))
    BY Entries, EnterOwes
  <1>3. QED
    BY <1>1, <1>2, FewerOwe

LEMMA FeedOwes ==
    ASSUME TypeInv, TypeInv', Changes, NEW j \in jobs, UNCHANGED bounds, Waited(j) \/ BackOff(j) \/ PollAgain(j)
    PROVE  Changes'
  <1>1. UNCHANGED <<made, dropped>> /\ tapped' = tapped
    BY DEF Waited, BackOff, PollAgain, server, bounds
  <1>2. Head(j.todo) = "wait"
    BY SettledFacts, JobFacts DEF Waited, BackOff, Failed, PollAgain, At
  <1>3. PICK x : jobs' = (jobs \ {j}) \cup {x} /\ x.todo = j.todo
    <2>1. CASE BackOff(j)
      <3>1. PICK x : x = [j EXCEPT !.stage = "resting", !.status = "ok"] /\ jobs' = (jobs \ {j}) \cup {x}
        BY <2>1 DEF BackOff
      <3>2. x.todo = j.todo
        BY <3>1, JobFacts DEF JobFields
      <3>3. QED
        BY <3>1, <3>2
    <2>2. CASE Waited(j) \/ PollAgain(j)
      <3>1. PICK x : x = Sent(j, j.todo) /\ jobs' = (jobs \ {j}) \cup {x}
        BY <2>2 DEF Waited, PollAgain
      <3>2. x.todo = j.todo
        BY <3>1, JobFacts, SentFields DEF Out
      <3>3. QED
        BY <3>1, <3>2
    <2>3. QED
      BY <2>1, <2>2
  <1>4. QED
    BY <1>1, <1>2, <1>3, QuietOwes DEF Changers

LEMMA DeliverOwes ==
    ASSUME TypeInv, TypeInv', Changes, NEW j \in jobs, UNCHANGED bounds, Deliver(j)
    PROVE  Changes'
  <1>1. CASE SignedOut(j)
    <2>1. UNCHANGED <<made, dropped>> /\ tapped' >= tapped /\ resume
      BY <1>1, SameTapped DEF SignedOut, server, bounds
    <2>2. QED
      BY <2>1, BeginsOwe
  <1>2. QED
    BY <1>1, RenewOwes, GoOwes, LoadedOwes, FeedOwes DEF Deliver

LEMMA ParentOwes ==
    ASSUME TypeInv, TypeInv', Changes, Parent
    PROVE  Changes'
  <1>1. PICK what : Tap(what)
    BY DEF Parent, auth, Forgot, TryPasskey, endPasskeyStep, OpenLink, Reset, TryAgain, selectFamilyTapped,
           Submit, Remove, saveDefaultTapped, decide, undoTapped
  <1>2. UNCHANGED <<made, dropped>> /\ tapped' = tapped + 1 /\ tapped' >= tapped
    BY <1>1, TappedFacts DEF server, TypeInv, BoundsOK
  <1>3. CASE TryAgain
    BY <1>2, <1>3, BeginsOwe DEF TryAgain
  <1>4. CASE OpenLink
    <2>1. jobs' = {} \/ jobs' = {Call("completeConfirmation", completeConfirmation)}
      BY <1>4 DEF OpenLink
    <2>2. ~Owes(Call("completeConfirmation", completeConfirmation))
      BY Entries, EnterOwes
    <2>3. QED
      BY <1>2, <2>1, <2>2, FewerOwe
  <1>5. CASE endPasskeyStep
    BY <1>2, <1>5, FewerOwe DEF endPasskeyStep
  <1>6. CASE \E x : jobs' = jobs \cup {x}
    <2>1. PICK x : jobs' = jobs \cup {x}
      BY <1>6
    <2>2. Owed' \subseteq Owed \cup {x}
      BY <2>1 DEF Owed
    <2>3. QED
      BY <1>2, <2>2, ChangesBegin
  <1>7. ASSUME auth \/ Forgot \/ TryPasskey \/ Reset \/ selectFamilyTapped \/ Submit \/ Remove \/ saveDefaultTapped
               \/ decide \/ undoTapped
        PROVE  \E x : jobs' = jobs \cup {x}
    BY <1>7 DEF auth, Forgot, TryPasskey, Reset, selectFamilyTapped, Submit, Remove, saveDefaultTapped, decide,
                undoTapped, Start
  <1>8. QED
    BY <1>3, <1>4, <1>5, <1>6, <1>7 DEF Parent

LEMMA OutsideOwes ==
    ASSUME TypeInv, TypeInv', Changes, FileAsk \/ OtherDecides \/ EndSession \/ ExpireTokens \/ OpenPage
    PROVE  Changes'
  <1>1. UNCHANGED <<made, dropped>> /\ tapped' = tapped /\ tapped' >= tapped
    BY SameTapped DEF FileAsk, OtherDecides, EndSession, ExpireTokens, OpenPage, server, bounds
  <1>2. CASE EndSession \/ ExpireTokens
    BY <1>1, <1>2, FewerOwe DEF EndSession, ExpireTokens
  <1>3. CASE OpenPage
    BY <1>1, <1>3, BeginsOwe DEF OpenPage
  <1>4. CASE FileAsk \/ OtherDecides
    <2>1. PICK f : jobs' = Woken(jobs, f)
      BY <1>4 DEF FileAsk, OtherDecides
    <2>2. PICK g : /\ DOMAIN g = jobs /\ Woken(jobs, f) = {g[k] : k \in jobs}
                   /\ \A k \in jobs : Owes(g[k]) => Owes(k)
      BY WokenOwes
    <2>3. PICK O : O = Owed'
      OBVIOUS
    <2>4. O \subseteq {g[k] : k \in jobs} /\ \A y \in O : Owes(y)
      BY <2>1, <2>2, <2>3 DEF Owed
    <2>5. Cardinality(O) <= Cardinality(Owed \cap jobs)
      BY <2>2, <2>4, ImageOwes
    <2>6. Owed \cap jobs = Owed
      BY DEF Owed
    <2>7. QED
      BY <1>1, <2>3, <2>5, <2>6, ChangesStay
  <1>5. QED
    BY <1>2, <1>3, <1>4

LEMMA MishapOwes ==
    ASSUME TypeInv, TypeInv', Changes, NEW j \in jobs, Mishap(j)
    PROVE  Changes'
  <1>1. UNCHANGED <<made, dropped>> /\ tapped' = tapped /\ tapped' >= tapped
    BY SameTapped DEF Mishap, server
  <1>2. PICK status \in {"offline", "trouble"} : Answer(j, status, {}, None)
    BY DEF Mishap
  <1>3. QED
    BY <1>1, <1>2, AnswerOwes

LEMMA NextOwes ==
    ASSUME TypeInv, TypeInv', Changes, [Next]_vars
    PROVE  Changes'
  <1>1. CASE UNCHANGED vars
    <2>1. UNCHANGED <<made, dropped, tapped, jobs>>
      BY <1>1 DEF vars, server, bounds
    <2>2. QED
      BY <2>1, SameTapped, FewerOwe
  <1>2. ASSUME NEW j \in jobs, Step(j) PROVE Changes'
    BY <1>2, HandleOwes, DeliverOwes DEF Step
  <1>3. QED
    BY <1>1, <1>2, MishapOwes, OutsideOwes, ParentOwes DEF Next

\* One tap changes at most one row of the family, whatever is lost, answered late or
\* asked again with new tokens (app.js, api).
THEOREM OneChangePerTap == Spec => []OneTapOneChange
  <1>1. Init => TypeInv
    BY InitTypes
  <1>2. Init => Changes
    <2> SUFFICES ASSUME Init PROVE Changes
      OBVIOUS
    <2>1. made \cup dropped = {} /\ Owed = {} /\ tapped = 0
      BY DEF Init, Owed
    <2>2. Cardinality({}) = 0
      BY FS_EmptySet
    <2>3. Cardinality(made \cup dropped) = 0 /\ Cardinality(Owed) = 0
      BY <2>1, <2>2
    <2>4. QED
      BY <2>1, <2>3 DEF Changes
  <1>3. TypeInv /\ [Next]_vars => TypeInv'
    BY NextTypes
  <1>4. TypeInv /\ TypeInv' /\ Changes /\ [Next]_vars => Changes'
    BY NextOwes
  <1>5. TypeInv /\ Changes => OneTapOneChange
    <2> SUFFICES ASSUME TypeInv, Changes PROVE OneTapOneChange
      OBVIOUS
    <2>1. made \cup (dropped \ made) = made \cup dropped
      OBVIOUS
    <2>2. PICK c, o : c = Cardinality(made \cup dropped) /\ o = Cardinality(Owed) /\ c \in Nat /\ o \in Nat
      BY OwedFinite
    <2>3. c + o <= tapped /\ tapped \in Nat
      BY <2>2 DEF Changes, TypeInv, BoundsOK
    <2>4. c <= tapped
      BY <2>2, <2>3
    <2>5. QED
      BY <2>1, <2>2, <2>4 DEF OneTapOneChange
  <1>6. QED
    BY <1>1, <1>2, <1>3, <1>4, <1>5, PTL DEF Spec

-----------------------------------------------------------------------------
(* What a patient parent sees is true. *)

\* One parent makes changes, waits for each, and nothing goes wrong.
Calm == /\ setting.patient /\ setting.mishaps = 0 /\ setting.others = {} /\ setting.eras = 0
        /\ "createFamily" \notin setting.taps

\* What is asked before the console is on screen.
Early == SignIns \cup {"passkeyOptions", "me", "register", "forgot"}

\* What asks for cards and families, and for the asks; everything else makes a change.
Looks == {"children", "rules", "grants", "defaults", "devices", "passkeys", "select", "picker", "wait"}

\* What the name of a function says of what it has left to do.
FnOK(j) ==
    /\ j.todo \in Rests /\ j.todo \notin FoundRest /\ Head(j.todo) # "asks"
    /\ j.fn = "live" <=> Head(j.todo) = "wait"
    /\ j.fn \in Card => Head(j.todo) = j.fn
    /\ j.fn \in {"resume", "completeConfirmation"} => j.todo \in EnterRest
    /\ j.fn = "saveDefault" => Head(j.todo) = "put"
    /\ Head(j.todo) = "delete" => Tail(j.todo) = <<j.arg.card>>

\* The live loop and the loads of cards that nobody waits for.
Helper(j) == j.fn \in Card \cup {"live"}

\* The parent is waited for by one function at most.
Patient == /\ \A j \in jobs : FnOK(j)
           /\ \A j, k \in jobs : Helper(j) \/ Helper(k) \/ j = k

Inside == panel \in {"console", "closed"}

\* What is known of the session by the one who asks who the user is.
MeOK(j) == Head(j.todo) = "me" =>
               /\ j.stage = "out" /\ j.try # "refresh" => j.token = token
               /\ Done(j) => Valid(token)

NoDefaults == "defaults" \in setting.cards => shown["defaults"].of = None

Outside == IF Inside
             THEN \A j \in jobs : Head(j.todo) \notin Early
             ELSE undo = None /\ NoDefaults /\ \A j \in jobs : Head(j.todo) \in Early /\ MeOK(j)

\* The session has ended, and the parent is about to be told.
Leaves(j) == /\ Head(j.todo) \in {"logout", "deleteMe"} /\ j.stage = "back" /\ j.status = "ok" /\ j.try = "first"
Leaving == \E j \in jobs : Leaves(j)

Steady == panel = "console" /\ ~Leaving

\* No request is refused for its token.
Alive(j) == j.try = "first" /\ j.status # "401" /\ (j.stage = "out" => j.token = token)

Lists(j) == Head(j.todo) \in Card \cup {"select"}

\* What is loaded is what there is.
LoadOK(j) == Lists(j) =>
    /\ CardOf(Head(j.todo)) # "passkeys" => j.family = family
    /\ j.stage = "back" => j.status = "ok" /\ j.items = ListOf(CardOf(Head(j.todo)), family)

\* A function that makes a change is alone with the live loop.
Alone(j) == Head(j.todo) \notin Looks => \A k \in jobs : k = j \/ k.fn = "live"

\* A default that is being saved is what the screen says.
PutOK(j) == Head(j.todo) = "put" =>
    /\ "defaults" \in setting.cards /\ j.family = family /\ family # None /\ shown["defaults"].of = family
    /\ j.known # -2 /\ picked = j.next /\ \A i \in j.next : i \in Defaults /\ i.family = family
    /\ j.stage = "back" => j.status = "ok" /\ ListOf("defaults", family) = j.next

\* The card says what the server has.
Tells(c) ==
    IF c = "defaults" THEN shown[c].of = family /\ picked = ListOf(c, family) /\ row = picked
                      ELSE (c = "passkeys" \/ shown[c].of = family) /\ shown[c].items = ListOf(c, family)

\* The card is loaded, or saved, or will be loaded next because its rows were changed.
Mends(j, c) ==
    \/ Head(j.todo) = c
    \/ Head(j.todo) = "select" /\ c # "passkeys"
    \/ Head(j.todo) = "put" /\ c = "defaults"
    \/ /\ j.stage = "back" /\ j.status = "ok"
       /\ \/ Head(j.todo) \in {"create", "delete"} /\ Tail(j.todo) = <<c>>
          \/ Head(j.todo) \in {"decide", "undo"} /\ c \in {"rules", "grants"}

Covered(c) == Tells(c) \/ \E j \in jobs : Mends(j, c)

AllCovered == \A c \in setting.cards : family # None \/ c = "passkeys" => Covered(c)

SteadyOK == /\ Valid(token) /\ AllCovered /\ (family = None => NoDefaults)
            /\ \A j \in jobs : Alive(j) /\ LoadOK(j) /\ Alone(j) /\ PutOK(j)

ShownInv == Calm => Patient /\ Outside /\ (Steady => SteadyOK)

LEMMA TailOf ==
    ASSUME NEW t \in Rests, t \notin FoundRest
    PROVE  /\ Head(t) \in SignIns => Tail(t) = <<"me", "select", "picker">>
           /\ Head(t) = "passkeyOptions" => Tail(t) = <<"passkeyLogin", "me", "select", "picker">>
           /\ Head(t) = "me" => Tail(t) = <<"select", "picker">>
           /\ Head(t) = "select" => Tail(t) = <<"picker">>
           /\ Head(t) = "passkeyCreation" => Tail(t) = <<"create", "passkeys">>
           /\ Head(t) \in {"create", "delete"} =>
                 \E c \in {"children", "rules", "grants", "devices", "passkeys"} : Tail(t) = <<c>>
           /\ Head(t) \notin SignIns \cup {"passkeyOptions", "me", "select", "passkeyCreation", "create", "delete"} =>
                 Tail(t) = <<>>
  <1> USE DEF SignIns
  <1>1. CASE t = <<"picker">>
    BY <1>1
  <1>2. CASE t = <<"select", "picker">>
    BY <1>2
  <1>3. CASE t = <<"me", "select", "picker">>
    BY <1>3
  <1>4. CASE t = <<"login", "me", "select", "picker">>
    BY <1>4
  <1>5. CASE t = <<"passkeyLogin", "me", "select", "picker">>
    BY <1>5
  <1>6. CASE t = <<"passkeyOptions", "passkeyLogin", "me", "select", "picker">>
    BY <1>6
  <1>7. CASE t = <<"reset", "me", "select", "picker">>
    BY <1>7
  <1>8. CASE t = <<"verify", "me", "select", "picker">>
    BY <1>8
  <1>9. CASE t = <<"create", "children">>
    BY <1>9
  <1>10. CASE t = <<"create", "rules">>
    BY <1>10
  <1>11. CASE t = <<"create", "passkeys">>
    BY <1>11
  <1>12. CASE t = <<"passkeyCreation", "create", "passkeys">>
    BY <1>12
  <1>13. CASE t = <<"delete", "rules">>
    BY <1>13
  <1>14. CASE t = <<"delete", "grants">>
    BY <1>14
  <1>15. CASE t = <<"delete", "devices">>
    BY <1>15
  <1>16. CASE t = <<"delete", "passkeys">>
    BY <1>16
  <1>17. CASE t \in LoadRest \cup SingleRest
    <2>1. Tail(t) = <<>>
      BY <1>17, LoadRests, SingleRests
    <2>2. Head(t) \in Card \cup SingleHeads
      BY <1>17, LoadRests, SingleRests
    <2>3. QED
      BY <2>1, <2>2 DEF Card, SingleHeads
  <1>18. QED
    BY <1>1, <1>2, <1>3, <1>4, <1>5, <1>6, <1>7, <1>8, <1>9, <1>10, <1>11, <1>12, <1>13, <1>14, <1>15, <1>16, <1>17
       DEF Rests, EnterRest, MeRest, SelectRest, MakeRest, DropRest

\* What is asked after what.
LEMMA Follows ==
    ASSUME NEW t \in Rests, t \notin FoundRest, NEW r, r = Tail(t), r # <<>>
    PROVE  /\ r \in Rests /\ r \notin FoundRest
           /\ Head(t) \in SignIns => Head(r) = "me"
           /\ Head(t) = "passkeyOptions" => Head(r) = "passkeyLogin"
           /\ Head(t) = "me" => Head(r) = "select"
           /\ Head(t) = "select" => Head(r) = "picker"
           /\ Head(t) = "passkeyCreation" => Head(r) = "create" /\ Tail(r) = <<"passkeys">>
           /\ Head(t) \in {"create", "delete"} =>
                 Head(r) \in {"children", "rules", "grants", "devices", "passkeys"} /\ r = <<Head(r)>>
           /\ Head(t) \in SignIns \cup {"passkeyOptions", "me", "select", "passkeyCreation", "create", "delete"}
           /\ t \in EnterRest => r \in EnterRest
  <1>1. r \in Rests
    BY RestHeads
  <1>2. Head(t) \in SignIns \cup {"passkeyOptions", "me", "select", "passkeyCreation", "create", "delete"}
    BY TailOf
  <1>3. CASE Head(t) \in SignIns \cup {"passkeyOptions", "me", "select"}
    <2>1. t \in EnterRest
      BY <1>3, RestHeads DEF SignIns, EnterHeads
    <2>2. r \in EnterRest
      BY <2>1, EnterRests
    <2>3. Head(t) \in SignIns => r = <<"me", "select", "picker">>
      BY TailOf
    <2>4. Head(t) = "passkeyOptions" => r = <<"passkeyLogin", "me", "select", "picker">>
      BY TailOf
    <2>5. (Head(t) = "me" => r = <<"select", "picker">>) /\ (Head(t) = "select" => r = <<"picker">>)
      BY TailOf
    <2>6. /\ Head(<<"me", "select", "picker">>) = "me"
          /\ Head(<<"passkeyLogin", "me", "select", "picker">>) = "passkeyLogin"
          /\ Head(<<"select", "picker">>) = "select" /\ Head(<<"picker">>) = "picker"
      OBVIOUS
    <2>7. Head(t) \notin {"passkeyCreation", "create", "delete"}
      BY <1>3 DEF SignIns
    <2>8. QED
      BY <1>1, <1>2, <2>2, <2>3, <2>4, <2>5, <2>6, <2>7, EnterIsNotFound DEF SignIns
  <1>4. CASE Head(t) = "passkeyCreation"
    <2>1. r = <<"create", "passkeys">>
      BY <1>4, TailOf
    <2>2. Head(r) = "create" /\ Tail(r) = <<"passkeys">>
      <3>1. /\ Head(<<"create", "passkeys">>) = "create"
            /\ Tail(<<"create", "passkeys">>) = <<"passkeys">>
        OBVIOUS
      <3>2. QED
        BY <2>1, <3>1
    <2>3. t \notin EnterRest
      BY <1>4, EnterRests DEF EnterHeads
    <2>4. r \notin FoundRest
      BY <1>1, <2>2, RestHeads DEF FoundHeads
    <2>5. QED
      BY <1>1, <1>2, <1>4, <2>2, <2>3, <2>4 DEF SignIns
  <1>5. CASE Head(t) \in {"create", "delete"}
    <2>1. PICK c \in {"children", "rules", "grants", "devices", "passkeys"} : r = <<c>>
      BY <1>5, TailOf
    <2>2. Head(r) = c
      BY <2>1
    <2>3. t \notin EnterRest
      BY <1>5, EnterRests DEF EnterHeads
    <2>4. r \notin FoundRest
      BY <1>1, <2>1, <2>2, RestHeads DEF FoundHeads
    <2>5. QED
      BY <1>1, <1>2, <1>5, <2>1, <2>2, <2>3, <2>4 DEF SignIns
  <1>6. QED
    BY <1>2, <1>3, <1>4, <1>5

\* In a calm setting nothing is lost, no one else acts and no token runs out.
LEMMA CalmSteps ==
    ASSUME TypeInv, Calm
    PROVE  /\ \A j \in jobs : ~Mishap(j)
           /\ ~OtherDecides /\ ~EndSession /\ ~ExpireTokens
           /\ "asks" \notin setting.cards /\ setting.cards \subseteq Card
           /\ "default" \in setting.taps => "defaults" \in setting.cards
           /\ \A i \in setting.asks : i.card = "asks"
  <1>1. setting \in Settings /\ mishaps \in Nat /\ era \in Nat
    BY DEF TypeInv, BoundsOK, ServerOK
  <1>2. ~(mishaps < 0) /\ ~(era < 0)
    BY <1>1
  <1>3. /\ "asks" \notin setting.cards /\ setting.cards \subseteq Card
        /\ "default" \in setting.taps => "defaults" \in setting.cards
        /\ \A i \in setting.asks : i.card = "asks"
    BY <1>1, ConsoleAssumption
  <1>4. QED
    BY <1>2, <1>3 DEF Calm, Mishap, OtherDecides, EndSession, ExpireTokens

-----------------------------------------------------------------------------
(* The parent is waited for by one function at most. *)

LEMMA PatientStays ==
    ASSUME Patient, NEW K, K \subseteq jobs, NEW R, NEW H, jobs' \subseteq K \cup R \cup H,
           \A x, y \in R : x = y,
           \A x \in R : FnOK(x) /\ (Helper(x) \/ \A k \in K : Helper(k)),
           \A x \in H : FnOK(x) /\ Helper(x)
    PROVE  Patient'
  <1>1. \A k \in jobs' : FnOK(k)
    BY DEF Patient
  <1>2. ASSUME NEW u \in jobs', NEW v \in jobs', ~Helper(u), ~Helper(v) PROVE u = v
    <2>1. u \in K \cup R /\ v \in K \cup R
      BY <1>2
    <2>2. u \in K /\ v \in K => u = v
      BY <1>2 DEF Patient
    <2>3. QED
      BY <1>2, <2>1, <2>2
  <1>3. QED
    BY <1>1, <1>2 DEF Patient

\* x is j at another point of the same request, as far as the functions go.
Same(j, x) ==
    /\ x.fn = j.fn /\ x.todo = j.todo /\ x.family = j.family /\ x.try = j.try /\ x.next = j.next
    /\ x.known = j.known /\ (x.arg = j.arg \/ Head(j.todo) \in {"me", "picker"})

LEMMA SameFn ==
    ASSUME NEW j, FnOK(j), NEW x, x.fn = j.fn, x.todo = j.todo, x.arg = j.arg \/ Head(j.todo) \in {"me", "picker"}
    PROVE  FnOK(x) /\ (Helper(x) <=> Helper(j))
  BY DEF FnOK, Helper

\* The request of one function moves on.
LEMMA OneStays ==
    ASSUME Patient, NEW j \in jobs, NEW x, jobs' = (jobs \ {j}) \cup {x}, x.fn = j.fn, x.todo = j.todo,
           x.arg = j.arg \/ Head(j.todo) \in {"me", "picker"}
    PROVE  Patient'
  <1>1. PICK K, R, H : K = jobs \ {j} /\ R = {x} /\ H = {}
    OBVIOUS
  <1>2. FnOK(x) /\ (Helper(x) <=> Helper(j))
    BY SameFn DEF Patient
  <1>3. Helper(x) \/ \A k \in K : Helper(k)
    BY <1>1, <1>2 DEF Patient
  <1>4. /\ K \subseteq jobs /\ jobs' \subseteq K \cup R \cup H /\ \A u, v \in R : u = v
        /\ \A y \in R : FnOK(y) /\ (Helper(y) \/ \A k \in K : Helper(k))
        /\ \A y \in H : FnOK(y) /\ Helper(y)
    BY <1>1, <1>2, <1>3
  <1>5. QED
    BY <1>4, PatientStays

\* A live loop that moves on.
Feeds(x) == x.fn = "live" /\ FnOK(x)

LEMMA WokenFeeds ==
    ASSUME TypeInv, Patient, NEW S, S \subseteq jobs, NEW f
    PROVE  /\ \A y \in Woken(S, f) : y \in S \/ \E k \in S : Feeds(y) /\ Same(k, y) /\ y.stage = "woken" /\ y.status = k.status
           /\ \A k \in S : k \in Woken(S, f) \/ (k.fn = "live" /\ k.stage = "parked")
  <1>1. ASSUME NEW k \in S, k.stage = "parked"
        PROVE  k.fn = "live" /\ Head(k.todo) = "wait"
    BY <1>1, JobFacts DEF Patient, FnOK
  <1>2. ASSUME NEW y \in Woken(S, f)
        PROVE  y \in S \/ \E k \in S : Feeds(y) /\ Same(k, y) /\ y.stage = "woken" /\ y.status = k.status
    <2>1. \A k \in S : DOMAIN k = JobFields
      BY JobFacts
    <2>2. PICK k \in S : /\ y = k \/ (k.stage = "parked" /\ y.stage = "woken")
                         /\ \A a \in JobFields \ {"stage"} : y[a] = k[a]
      BY <1>2, <2>1, WokenFields
    <2>3. Same(k, y) /\ y.status = k.status
      BY <2>2 DEF Same, JobFields
    <2>4. FnOK(y)
      BY <2>3, SameFn DEF Same, Patient
    <2>5. QED
      BY <1>1, <2>2, <2>3, <2>4 DEF Feeds, Same
  <1>3. ASSUME NEW k \in S, k \notin Woken(S, f) PROVE k.fn = "live" /\ k.stage = "parked"
    <2>1. k.stage = "parked"
      BY <1>3 DEF Woken
    <2>2. QED
      BY <1>1, <2>1
  <1>4. QED
    BY <1>2, <1>3

-----------------------------------------------------------------------------
(* While the console is on screen. *)

\* A calm page on screen, as it is before a step.
Now == TypeInv /\ Calm /\ Patient /\ Outside /\ Steady /\ SteadyOK

LEMMA LiveLooks ==
    ASSUME NEW k, FnOK(k), k.fn = "live"
    PROVE  Head(k.todo) = "wait" /\ Head(k.todo) \in Looks /\ ~Lists(k) /\ \A c \in Card : ~Mends(k, c)
  BY DEF FnOK, Looks, Lists, Mends, Card

LEMMA Loner ==
    ASSUME Now, NEW j \in jobs, Head(j.todo) \notin Looks
    PROVE  \A k \in jobs : k = j \/ k.fn = "live"
  BY DEF Now, SteadyOK, Alone

LEMMA Lookers ==
    ASSUME Now, NEW j \in jobs, j.fn # "live", Head(j.todo) \in Looks
    PROVE  \A k \in jobs : Head(k.todo) \in Looks
  BY DEF Now, SteadyOK, Alone

LEMMA CardsShown ==
    ASSUME Now, NEW c \in setting.cards
    PROVE  c \in Card \ {"asks"} /\ c \in DOMAIN shown
  BY CalmSteps DEF Now, TypeInv, PageOK, ShownOK

LEMMA ListedCard ==
    ASSUME NEW j, FnOK(j), Lists(j)
    PROVE  CardOf(Head(j.todo)) \in Card \ {"asks"} /\ Head(j.todo) \in Looks
  BY DEF FnOK, Lists, CardOf, Card, Looks

\* Whatever the live loop does, and whatever asks come, the cards stay as true as they were.
LEMMA LiveMoves ==
    ASSUME Now, UNCHANGED <<open, era, token, family, setting, picked, row>>,
           \A c \in setting.cards : shown'[c] = shown[c],
           \A c \in Card \ {"asks"} : ListOf(c, family)' = ListOf(c, family),
           \A y \in jobs' : y \in jobs \/ (Feeds(y) /\ Alive(y)),
           \A k \in jobs : k \in jobs' \/ k.fn = "live"
    PROVE  SteadyOK'
  <1>1. Valid(token)'
    BY DEF Now, SteadyOK, Valid
  <1>2. AllCovered'
    <2> SUFFICES ASSUME NEW c \in setting.cards, family # None \/ c = "passkeys"
                 PROVE  Covered(c)'
      BY DEF AllCovered
    <2>1. c \in Card \ {"asks"} /\ Covered(c)
      BY CardsShown DEF Now, SteadyOK, AllCovered
    <2>2. CASE Tells(c)
      <3>1. shown'[c] = shown[c] /\ ListOf(c, family)' = ListOf(c, family)
        BY <2>1
      <3>2. Tells(c)'
        BY <2>2, <3>1 DEF Tells
      <3>3. QED
        BY <3>2 DEF Covered
    <2>3. ASSUME NEW k \in jobs, Mends(k, c) PROVE Covered(c)'
      <3>1. k.fn # "live"
        BY <2>1, <2>3, LiveLooks DEF Now, Patient
      <3>2. k \in jobs'
        BY <3>1
      <3>3. QED
        BY <2>3, <3>2 DEF Covered
    <2>4. QED
      BY <2>1, <2>2, <2>3 DEF Covered
  <1>3. (family = None => NoDefaults)'
    BY DEF Now, SteadyOK, NoDefaults
  <1>4. ASSUME NEW y \in jobs' PROVE Alive(y)' /\ LoadOK(y)' /\ Alone(y)' /\ PutOK(y)'
    <2>1. CASE y \in jobs
      <3>1. Alive(y) /\ LoadOK(y) /\ Alone(y) /\ PutOK(y) /\ FnOK(y)
        BY <2>1 DEF Now, SteadyOK, Patient
      <3>2. Alive(y)'
        BY <3>1 DEF Alive
      <3>3. LoadOK(y)'
        BY <3>1, ListedCard DEF LoadOK
      <3>4. Alone(y)'
        BY <3>1 DEF Alone, Feeds
      <3>5. PutOK(y)'
        BY <3>1 DEF PutOK, Card
      <3>6. QED
        BY <3>2, <3>3, <3>4, <3>5
    <2>2. CASE Feeds(y) /\ Alive(y)
      <3>1. Head(y.todo) = "wait" /\ ~Lists(y) /\ Head(y.todo) \in Looks
        BY <2>2, LiveLooks DEF Feeds
      <3>2. QED
        BY <2>2, <3>1 DEF Alive, LoadOK, Alone, PutOK
    <2>3. QED
      BY <1>4, <2>1, <2>2
  <1>5. QED
    BY <1>1, <1>2, <1>3, <1>4 DEF SteadyOK

\* The API answers a function that is alone: what it changed will be loaded.
LEMMA ChangeMoves ==
    ASSUME Now, UNCHANGED <<open, era, token, family, setting, picked, row, shown>>,
           NEW j \in jobs, Head(j.todo) \notin Looks, j.stage # "back",
           NEW x, Same(j, x), x.stage = "back", x.status # "401", x \in jobs',
           \A y \in jobs' : y = x \/ (Feeds(y) /\ Alive(y)),
           \A c \in setting.cards : ListOf(c, family)' = ListOf(c, family) \/ Mends(x, c),
           Head(j.todo) = "put" => x.status = "ok" /\ ListOf("defaults", family)' = j.next
    PROVE  SteadyOK'
  <1>1. Valid(token)'
    BY DEF Now, SteadyOK, Valid
  <1>2. /\ \A k \in jobs : k = j \/ k.fn = "live"
        /\ \A k \in jobs : FnOK(k)
        /\ Alive(j) /\ PutOK(j) /\ FnOK(j) /\ x.todo = j.todo /\ x.try = j.try
    BY Loner DEF Now, SteadyOK, Patient, Same
  <1>3. AllCovered'
    <2> SUFFICES ASSUME NEW c \in setting.cards, family # None \/ c = "passkeys"
                 PROVE  Covered(c)'
      BY DEF AllCovered
    <2>1. c \in Card \ {"asks"} /\ Covered(c)
      BY CardsShown DEF Now, SteadyOK, AllCovered
    <2>2. CASE Mends(x, c)
      BY <2>2 DEF Covered
    <2>3. CASE Tells(c) /\ ListOf(c, family)' = ListOf(c, family)
      <3>1. Tells(c)'
        BY <2>3 DEF Tells
      <3>2. QED
        BY <3>1 DEF Covered
    <2>4. ASSUME NEW k \in jobs, Mends(k, c) PROVE Mends(x, c)
      <3>1. k = j
        BY <1>2, <2>1, <2>4, LiveLooks
      <3>2. Head(j.todo) # c /\ Head(j.todo) # "select"
        BY <2>1 DEF Looks, Card
      <3>3. QED
        BY <1>2, <2>4, <3>1, <3>2 DEF Mends
    <2>5. QED
      BY <2>1, <2>2, <2>3, <2>4 DEF Covered
  <1>4. (family = None => NoDefaults)'
    BY DEF Now, SteadyOK, NoDefaults
  <1>5. Alive(x)' /\ LoadOK(x)' /\ Alone(x)' /\ PutOK(x)'
    <2>1. ~Lists(x)
      BY <1>2, ListedCard DEF Lists
    <2>2. Alive(x)' /\ LoadOK(x)'
      BY <1>2, <2>1 DEF Alive, LoadOK
    <2>3. Alone(x)'
      BY DEF Alone, Feeds
    <2>4. PutOK(x)'
      BY <1>2 DEF PutOK, Same
    <2>5. QED
      BY <2>2, <2>3, <2>4
  <1>6. ASSUME NEW y \in jobs', Feeds(y), Alive(y) PROVE Alive(y)' /\ LoadOK(y)' /\ Alone(y)' /\ PutOK(y)'
    <2>1. Head(y.todo) = "wait" /\ ~Lists(y) /\ Head(y.todo) \in Looks
      BY <1>6, LiveLooks DEF Feeds
    <2>2. QED
      BY <1>6, <2>1 DEF Alive, LoadOK, Alone, PutOK
  <1>7. QED
    BY <1>1, <1>3, <1>4, <1>5, <1>6 DEF SteadyOK

\* The API answers a request for a card or the families.
LEMMA ListMoves ==
    ASSUME Now, UNCHANGED <<rows, open, era, token, family, setting, picked, row, shown>>,
           NEW j \in jobs, Head(j.todo) \in Looks, j.fn # "live", j.stage # "back",
           NEW x, Same(j, x), x.stage = "back", x.status = "ok", jobs' = (jobs \ {j}) \cup {x},
           Lists(j) => x.items = ListOf(CardOf(Head(j.todo)), j.family)
    PROVE  SteadyOK'
  <1>1. Valid(token)'
    BY DEF Now, SteadyOK, Valid
  <1>2. /\ Alive(j) /\ LoadOK(j) /\ FnOK(j) /\ x.todo = j.todo /\ x.try = j.try /\ x.fn = j.fn
        /\ x.family = j.family
        /\ \A k \in jobs : Alive(k) /\ LoadOK(k) /\ Alone(k) /\ PutOK(k)
        /\ \A k \in jobs : Head(k.todo) \in Looks
    BY Lookers DEF Now, SteadyOK, Patient, Same
  <1>3. \A c : ListOf(c, family)' = ListOf(c, family)
    BY DEF ListOf
  <1>4. AllCovered'
    <2> SUFFICES ASSUME NEW c \in setting.cards, family # None \/ c = "passkeys"
                 PROVE  Covered(c)'
      BY DEF AllCovered
    <2>1. Covered(c)
      BY DEF Now, SteadyOK, AllCovered
    <2>2. CASE Tells(c)
      <3>1. Tells(c)'
        BY <1>3, <2>2 DEF Tells
      <3>2. QED
        BY <3>1 DEF Covered
    <2>3. ASSUME NEW k \in jobs, Mends(k, c) PROVE Covered(c)'
      <3>1. CASE k = j
        <4>1. Mends(x, c)
          BY <1>2, <2>3, <3>1 DEF Mends
        <4>2. QED
          BY <4>1 DEF Covered
      <3>2. CASE k # j
        BY <2>3, <3>2 DEF Covered
      <3>3. QED
        BY <3>1, <3>2
    <2>4. QED
      BY <2>1, <2>2, <2>3 DEF Covered
  <1>5. (family = None => NoDefaults)'
    BY DEF Now, SteadyOK, NoDefaults
  <1>6. \A y \in jobs' : Head(y.todo) \in Looks
    BY <1>2
  <1>7. LoadOK(x)'
    <2>1. CardOf(Head(j.todo)) = "passkeys" => ListOf("passkeys", j.family) = ListOf("passkeys", family)
      BY DEF ListOf
    <2>2. QED
      BY <1>2, <1>3, <2>1 DEF LoadOK, Lists
  <1>8. ASSUME NEW y \in jobs' PROVE Alive(y)' /\ LoadOK(y)' /\ Alone(y)' /\ PutOK(y)'
    <2>1. Alive(y)'
      BY <1>2 DEF Alive
    <2>2. LoadOK(y)'
      BY <1>2, <1>3, <1>7 DEF LoadOK
    <2>3. Alone(y)' /\ PutOK(y)'
      BY <1>6, <1>8 DEF Alone, PutOK, Looks
    <2>4. QED
      BY <2>1, <2>2, <2>3
  <1>9. QED
    BY <1>1, <1>4, <1>5, <1>8 DEF SteadyOK

\* x has just been sent.
Starts(x) == /\ x.stage = "out" /\ x.try = "first" /\ x.status = "ok"
             /\ x.token = token' /\ x.family = family'

\* Functions end, go on and begin: what is known of each then.
LEMMA Begins ==
    ASSUME Now, UNCHANGED <<rows, open, era, token, setting>>,
           NEW K, K \subseteq jobs, NEW N, jobs' = K \cup N, \A x \in N : FnOK(x) /\ Starts(x) /\ PutOK(x)',
           \/ /\ \A x \in N : Head(x.todo) \in Looks
              /\ \A k \in K : Head(k.todo) \in Looks
              /\ UNCHANGED family
           \/ /\ \A k \in K : k.fn = "live"
              /\ \A x, y \in N : x = y
    PROVE  Valid(token)' /\ \A x \in jobs' : Alive(x)' /\ LoadOK(x)' /\ Alone(x)' /\ PutOK(x)'
  <1>1. Valid(token)'
    BY DEF Now, SteadyOK, Valid
  <1>2. \A c : UNCHANGED family => ListOf(c, family)' = ListOf(c, family)
    BY DEF ListOf
  <1>3. \A k \in K : Alive(k) /\ LoadOK(k) /\ Alone(k) /\ PutOK(k) /\ FnOK(k)
    BY DEF Now, SteadyOK, Patient
  <1>4. ASSUME NEW k \in K PROVE Alive(k)' /\ LoadOK(k)' /\ PutOK(k)'
    <2>1. Alive(k)'
      BY <1>3 DEF Alive
    <2>2. CASE k.fn = "live"
      BY <1>3, <2>1, <2>2, LiveLooks DEF LoadOK, PutOK
    <2>3. CASE UNCHANGED family /\ Head(k.todo) \in Looks
      <3>1. LoadOK(k)'
        BY <1>2, <1>3, <2>3 DEF LoadOK
      <3>2. PutOK(k)'
        BY <2>3 DEF PutOK, Looks
      <3>3. QED
        BY <2>1, <3>1, <3>2
    <2>4. QED
      BY <2>2, <2>3
  <1>5. ASSUME NEW x \in N PROVE Alive(x)' /\ LoadOK(x)' /\ PutOK(x)'
    BY DEF Starts, Alive, LoadOK
  <1>6. ASSUME NEW y \in jobs' PROVE Alone(y)'
    <2>1. CASE \A z \in jobs' : Head(z.todo) \in Looks
      BY <2>1 DEF Alone
    <2>2. CASE (\A k \in K : k.fn = "live") /\ \A u, v \in N : u = v
      <3>1. y \in K => Head(y.todo) \in Looks
        BY <1>3, <2>2, LiveLooks
      <3>2. QED
        BY <2>2, <3>1 DEF Alone
    <2>3. QED
      BY <2>1, <2>2
  <1>7. QED
    BY <1>1, <1>4, <1>5, <1>6

-----------------------------------------------------------------------------
(* The API answers while the console is on screen. *)

LEMMA HeadsKnown ==
    ASSUME NEW t \in Rests, t \notin FoundRest
    PROVE  Head(t) \in EnterHeads \cup {"create", "passkeyCreation", "delete"} \cup Card \cup SingleHeads
  BY RestHeads DEF Rests

\* What is known of a request that the API gets.
LEMMA NowSent ==
    ASSUME Now, NEW j \in jobs
    PROVE  /\ FnOK(j) /\ Alive(j) /\ LoadOK(j) /\ Alone(j) /\ PutOK(j) /\ j.try = "first"
           /\ Head(j.todo) \notin Early
           /\ Head(j.todo) \in {"select", "picker", "create", "passkeyCreation", "delete", "enroll", "put", "logout",
                                "deleteMe", "decide", "undo", "wait"} \cup (Card \ {"asks"})
           /\ j.stage = "out" => Valid(j.token) /\ j.status = "ok"
  <1>1. FnOK(j) /\ Alive(j) /\ LoadOK(j) /\ Alone(j) /\ PutOK(j) /\ Valid(token) /\ Head(j.todo) \notin Early
    BY DEF Now, SteadyOK, Patient, Outside, Inside, Steady
  <1>2. Head(j.todo) \in EnterHeads \cup {"create", "passkeyCreation", "delete"} \cup Card \cup SingleHeads
    BY <1>1, HeadsKnown DEF FnOK
  <1>3. j.stage = "out" => Valid(j.token) /\ j.status = "ok"
    BY <1>1, JobFacts DEF Now, Alive, JobOK, ShapeOK
  <1>4. QED
    BY <1>1, <1>2, <1>3 DEF FnOK, Alive, Early, SignIns, EnterHeads, SingleHeads

\* The step of a function that is alone leaves the others live.
LEMMA OthersFeed ==
    ASSUME Now, NEW j \in jobs, Head(j.todo) \notin Looks, NEW x, jobs' = (jobs \ {j}) \cup {x}
    PROVE  x \in jobs' /\ \A y \in jobs' : y = x \/ (Feeds(y) /\ Alive(y))
  BY Loner DEF Now, SteadyOK, Patient, Feeds

\* An answer that changes no rows.
LEMMA PlainMoves ==
    ASSUME Now, UNCHANGED <<rows, open, era, token, family, setting, picked, row, shown>>,
           NEW j \in jobs, Head(j.todo) \notin Looks, Head(j.todo) # "put", j.stage = "out",
           NEW status, status # "401", NEW items, NEW gets, Answer(j, status, items, gets)
    PROVE  SteadyOK'
  <1>1. PICK x : jobs' = (jobs \ {j}) \cup {x} /\ Back(j, x) /\ x.status = status
    BY JobFacts, AnswerFields DEF Now
  <1>2. Same(j, x) /\ x.stage = "back"
    BY <1>1 DEF Back, Same
  <1>3. \A c \in setting.cards : ListOf(c, family)' = ListOf(c, family)
    BY DEF ListOf
  <1>4. x \in jobs' /\ \A y \in jobs' : y = x \/ (Feeds(y) /\ Alive(y))
    BY <1>1, OthersFeed
  <1>5. QED
    BY <1>1, <1>2, <1>3, <1>4, ChangeMoves

LEMMA NotNow ==
    ASSUME Now, NEW j \in jobs
    PROVE  ~(Refuse(j) \/ HandleRefresh(j) \/ HandleSignIn(j) \/ HandleMail(j) \/ HandleCreateFamily(j))
  <1>1. ~HandleRefresh(j)
    BY NowSent DEF HandleRefresh
  <1>2. ~HandleSignIn(j) /\ ~HandleMail(j)
    BY NowSent DEF HandleSignIn, HandleMail, Asking, Early
  <1>3. ~HandleCreateFamily(j)
    BY NowSent DEF HandleCreateFamily, Authorized, Asking, Card
  <1>4. ~Refuse(j)
    BY NowSent DEF Refuse, Early
  <1>5. QED
    BY <1>1, <1>2, <1>3, <1>4

LEMMA OptionsNow ==
    ASSUME Now, NEW j \in jobs, UNCHANGED <<storage, page, bounds>>, HandleOptions(j)
    PROVE  SteadyOK'
  <1>1. j.stage = "out" /\ Head(j.todo) \in {"passkeyCreation", "enroll"}
    BY NowSent DEF HandleOptions, Authorized, Asking, Early
  <1>2. UNCHANGED <<rows, open, era, token, family, setting, picked, row, shown>>
    BY DEF HandleOptions, server, storage, page, bounds
  <1>3. Head(j.todo) \notin Looks /\ Head(j.todo) # "put"
    BY <1>1 DEF Looks
  <1>4. Answer(j, "ok", {}, None)
    BY DEF HandleOptions, Ok
  <1>5. QED
    BY <1>1, <1>2, <1>3, <1>4, PlainMoves

LEMMA MeNow ==
    ASSUME Now, NEW j \in jobs, UNCHANGED <<storage, page, bounds>>, HandleMe(j)
    PROVE  SteadyOK'
  <1>1. j.stage = "out" /\ Head(j.todo) = "picker" /\ j.status = "ok"
    BY NowSent DEF HandleMe, Authorized, Asking, Early
  <1>2. UNCHANGED <<rows, open, era, token, family, setting, picked, row, shown>>
    BY DEF HandleMe, server, storage, page, bounds
  <1>3. PICK f, x : x = [j EXCEPT !.stage = "back", !.token = None, !.arg = f] /\ jobs' = (jobs \ {j}) \cup {x}
    BY DEF HandleMe
  <1>4. Same(j, x) /\ x.stage = "back" /\ x.status = j.status
    BY <1>1, <1>3, JobFacts DEF Same, Now, JobFields
  <1>5. Head(j.todo) \in Looks /\ ~Lists(j) /\ j.fn # "live"
    BY <1>1, NowSent DEF Looks, Lists, Card, FnOK
  <1>6. QED
    BY <1>1, <1>2, <1>3, <1>4, <1>5, ListMoves

LEMMA ListNow ==
    ASSUME Now, NEW j \in jobs, UNCHANGED <<storage, page, bounds>>, HandleList(j)
    PROVE  SteadyOK'
  <1>1. j.stage = "out" /\ Head(j.todo) \in {"select", "selectMade"} \cup Card
    BY DEF HandleList, Authorized, Asking
  <1>2. UNCHANGED <<rows, open, era, token, family, setting, picked, row, shown>>
    BY DEF HandleList, server, storage, page, bounds
  <1>3. PICK items : items = ListOf(CardOf(Head(j.todo)), j.family) /\ Answer(j, "ok", items, None)
    BY DEF HandleList
  <1>4. PICK x : jobs' = (jobs \ {j}) \cup {x} /\ Back(j, x) /\ x.status = "ok" /\ x.items = items
    BY <1>3, JobFacts, AnswerFields DEF Now
  <1>5. Same(j, x) /\ x.stage = "back"
    BY <1>4 DEF Back, Same
  <1>6. Head(j.todo) \in Looks /\ j.fn # "live"
    BY <1>1, NowSent DEF Looks, Card, FnOK
  <1>7. QED
    BY <1>1, <1>2, <1>3, <1>4, <1>5, <1>6, ListMoves

LEMMA MakeTail ==
    ASSUME TypeInv, NEW j \in jobs, Head(j.todo) = "create"
    PROVE  Tail(j.todo) = <<j.arg>>
  <1>1. j.todo \in MakeRest /\ ArgOK(j)
    BY JobFacts, RestHeads
  <1>2. j.todo \in {<<"create", j.arg>>, <<"passkeyCreation", "create", j.arg>>}
    BY <1>1 DEF ArgOK
  <1>3. Head(<<"passkeyCreation", "create", j.arg>>) = "passkeyCreation" /\ Tail(<<"create", j.arg>>) = <<j.arg>>
    OBVIOUS
  <1>4. QED
    BY <1>2, <1>3

LEMMA CreateNow ==
    ASSUME Now, NEW j \in jobs, UNCHANGED <<storage, page, bounds>>, HandleCreate(j)
    PROVE  SteadyOK'
  <1>1. j.stage = "out" /\ Head(j.todo) = "create"
    BY DEF HandleCreate, Authorized, Asking
  <1>2. UNCHANGED <<open, era, token, family, setting, picked, row, shown>>
    BY DEF HandleCreate, storage, page, bounds
  <1>3. PICK i : i.card = j.arg /\ rows' = rows \cup {i}
    <2>1. PICK i : i = New(j.arg, j.family) /\ rows' = rows \cup {i}
      BY DEF HandleCreate, Make
    <2>2. i.card = j.arg
      BY <2>1 DEF New
    <2>3. QED
      BY <2>1, <2>2
  <1>4. PICK x : jobs' = (jobs \ {j}) \cup {x} /\ Back(j, x) /\ x.status = "ok"
    BY JobFacts, AnswerFields DEF Now, HandleCreate, Ok
  <1>5. Same(j, x) /\ x.stage = "back" /\ x.todo = j.todo
    BY <1>4 DEF Back, Same
  <1>6. Head(j.todo) \notin Looks /\ Tail(j.todo) = <<j.arg>>
    BY <1>1, MakeTail DEF Looks, Now
  <1>7. ASSUME NEW c \in setting.cards PROVE ListOf(c, family)' = ListOf(c, family) \/ Mends(x, c)
    <2>1. CASE c = j.arg
      BY <1>1, <1>4, <1>5, <1>6, <2>1 DEF Mends
    <2>2. CASE c # j.arg
      BY <1>2, <1>3, <2>2 DEF ListOf
    <2>3. QED
      BY <2>1, <2>2
  <1>8. x \in jobs' /\ \A y \in jobs' : y = x \/ (Feeds(y) /\ Alive(y))
    BY <1>4, <1>6, OthersFeed
  <1>9. QED
    BY <1>1, <1>2, <1>4, <1>5, <1>6, <1>7, <1>8, ChangeMoves

LEMMA DeleteNow ==
    ASSUME Now, NEW j \in jobs, UNCHANGED <<storage, page, bounds>>, HandleDelete(j)
    PROVE  SteadyOK'
  <1>1. j.stage = "out" /\ Head(j.todo) \in {"delete", "undo"}
    BY DEF HandleDelete, Authorized, Asking
  <1>2. UNCHANGED <<open, era, token, family, setting, picked, row, shown>>
    BY DEF HandleDelete, storage, page, bounds
  <1>3. Head(j.todo) \notin Looks /\ Head(j.todo) # "put"
    BY <1>1 DEF Looks
  <1>4. PICK card : card = IF Head(j.todo) = "undo" \/ j.arg.card = "rules" THEN "rules" ELSE j.arg.card
    OBVIOUS
  <1>5. PICK hit : hit = {x \in ListOf(card, j.family) : x.id = j.arg.id}
    OBVIOUS
  <1>6. \/ Answer(j, "refused", {}, None) /\ UNCHANGED rows
        \/ Answer(j, "ok", {}, None) /\ rows' = rows \ hit
    BY <1>4, <1>5 DEF HandleDelete, Drop
  <1>7. CASE Answer(j, "refused", {}, None) /\ UNCHANGED rows
    BY <1>1, <1>2, <1>3, <1>7, PlainMoves
  <1>8. CASE Answer(j, "ok", {}, None) /\ rows' = rows \ hit
    <2>1. PICK x : jobs' = (jobs \ {j}) \cup {x} /\ Back(j, x) /\ x.status = "ok"
      BY <1>8, JobFacts, AnswerFields DEF Now
    <2>2. Same(j, x) /\ x.stage = "back" /\ x.todo = j.todo
      BY <2>1 DEF Back, Same
    <2>3. \A i \in hit : i.card = card
      BY <1>5 DEF ListOf
    <2>4. Head(j.todo) = "delete" => Tail(j.todo) = <<card>>
      BY <1>4, NowSent DEF FnOK
    <2>5. ASSUME NEW c \in setting.cards PROVE ListOf(c, family)' = ListOf(c, family) \/ Mends(x, c)
      <3>1. CASE c = card
        BY <1>1, <1>4, <2>1, <2>2, <2>4, <3>1 DEF Mends
      <3>2. CASE c # card
        BY <1>2, <1>8, <2>3, <3>2 DEF ListOf
      <3>3. QED
        BY <3>1, <3>2
    <2>6. x \in jobs' /\ \A y \in jobs' : y = x \/ (Feeds(y) /\ Alive(y))
      BY <1>3, <2>1, OthersFeed
    <2>7. QED
      BY <1>1, <1>2, <1>3, <2>1, <2>2, <2>5, <2>6, ChangeMoves
  <1>9. QED
    BY <1>6, <1>7, <1>8

LEMMA DecideNow ==
    ASSUME Now, NEW j \in jobs, UNCHANGED <<storage, page, bounds>>, HandleDecide(j)
    PROVE  SteadyOK'
  <1>1. j.stage = "out" /\ Head(j.todo) = "decide" /\ Head(j.todo) \notin Looks /\ Head(j.todo) # "put" /\ j.status = "ok"
    BY NowSent DEF HandleDecide, Authorized, Asking, Looks
  <1>2. UNCHANGED <<open, era, token, family, setting, picked, row, shown>>
    BY DEF HandleDecide, storage, page, bounds
  <1>3. CASE Answer(j, "refused", {}, None) /\ UNCHANGED rows
    BY <1>1, <1>2, <1>3, PlainMoves
  <1>4. ASSUME NEW answer, answer = New(IF j.standing THEN "rules" ELSE "grants", j.family),
               j.arg \in ListOf("asks", j.family), rows' = (rows \ {j.arg}) \cup {answer},
               NEW x, x = [j EXCEPT !.stage = "back", !.token = None, !.made = answer],
               jobs' = Woken(jobs \ {j}, j.family) \cup {x}
        PROVE  SteadyOK'
    <2>1. answer.card \in {"rules", "grants"} /\ j.arg.card = "asks"
      BY <1>4 DEF New, ListOf
    <2>2. Same(j, x) /\ x.stage = "back" /\ x.status = "ok" /\ x.todo = j.todo
      BY <1>1, <1>4, JobFacts DEF Same, Now, JobFields
    <2>3. PICK S : S = jobs \ {j}
      OBVIOUS
    <2>4. ASSUME NEW y \in Woken(S, j.family) PROVE Feeds(y) /\ Alive(y)
      <3>1. \A k \in S : Feeds(k) /\ Alive(k)
        BY <1>1, <2>3, Loner DEF Now, SteadyOK, Patient, Feeds
      <3>2. \/ y \in S
            \/ \E k \in S : Feeds(y) /\ Same(k, y) /\ y.stage = "woken" /\ y.status = k.status
        BY <2>3, WokenFeeds DEF Now
      <3>3. QED
        BY <3>1, <3>2 DEF Alive, Same
    <2>5. ASSUME NEW c \in setting.cards PROVE ListOf(c, family)' = ListOf(c, family) \/ Mends(x, c)
      <3>1. CASE c \in {"rules", "grants"}
        BY <1>1, <2>2, <3>1 DEF Mends
      <3>2. CASE c \notin {"rules", "grants"}
        <4>1. c # "asks"
          BY CardsShown
        <4>2. QED
          BY <1>2, <1>4, <2>1, <3>2, <4>1 DEF ListOf
      <3>3. QED
        BY <3>1, <3>2
    <2>6. x \in jobs' /\ \A y \in jobs' : y = x \/ (Feeds(y) /\ Alive(y))
      BY <1>4, <2>3, <2>4
    <2>7. QED
      BY <1>1, <1>2, <2>2, <2>5, <2>6, ChangeMoves
  <1>5. CASE ~(Answer(j, "refused", {}, None) /\ UNCHANGED rows)
    <2>1. PICK answer, x :
             /\ answer = New(IF j.standing THEN "rules" ELSE "grants", j.family)
             /\ j.arg \in ListOf("asks", j.family) /\ rows' = (rows \ {j.arg}) \cup {answer}
             /\ x = [j EXCEPT !.stage = "back", !.token = None, !.made = answer]
             /\ jobs' = Woken(jobs \ {j}, j.family) \cup {x}
      BY <1>5 DEF HandleDecide
    <2>2. QED
      BY <1>4, <2>1
  <1>6. QED
    BY <1>3, <1>5

LEMMA PutNow ==
    ASSUME Now, NEW j \in jobs, UNCHANGED <<storage, page, bounds>>, HandlePut(j)
    PROVE  SteadyOK'
  <1>1. j.stage = "out" /\ Head(j.todo) = "put" /\ Head(j.todo) \notin Looks
    BY DEF HandlePut, Authorized, Asking, Looks
  <1>2. UNCHANGED <<open, era, token, family, setting, picked, row, shown>>
    BY DEF HandlePut, storage, page, bounds
  <1>3. PICK x : jobs' = (jobs \ {j}) \cup {x} /\ Back(j, x) /\ x.status = "ok"
    BY JobFacts, AnswerFields DEF Now, HandlePut, Ok
  <1>4. Same(j, x) /\ x.stage = "back" /\ x.todo = j.todo
    BY <1>3 DEF Back, Same
  <1>5. j.family = family /\ \A i \in j.next : i.card = "defaults" /\ i.family = family
    BY <1>1, NowSent DEF PutOK, Defaults
  <1>6. rows' = (rows \ ListOf("defaults", family)) \cup j.next
    BY <1>5 DEF HandlePut
  <1>7. ListOf("defaults", family)' = j.next
    BY <1>2, <1>5, <1>6 DEF ListOf
  <1>8. ASSUME NEW c \in setting.cards PROVE ListOf(c, family)' = ListOf(c, family) \/ Mends(x, c)
    <2>1. CASE c = "defaults"
      BY <1>1, <1>4, <2>1 DEF Mends
    <2>2. CASE c # "defaults"
      BY <1>2, <1>5, <1>6, <2>2 DEF ListOf
    <2>3. QED
      BY <2>1, <2>2
  <1>9. x \in jobs' /\ \A y \in jobs' : y = x \/ (Feeds(y) /\ Alive(y))
    BY <1>1, <1>3, OthersFeed
  <1>10. QED
    BY <1>1, <1>2, <1>3, <1>4, <1>7, <1>8, <1>9, ChangeMoves

LEMMA LogoutNow ==
    ASSUME Now, NEW j \in jobs, HandleLogout(j)
    PROVE  Leaving'
  <1>1. j.stage = "out" /\ Head(j.todo) \in {"logout", "deleteMe"} /\ j.try = "first"
    BY NowSent DEF HandleLogout, Authorized, Asking
  <1>2. PICK x : jobs' = (jobs \ {j}) \cup {x} /\ Back(j, x) /\ x.status = "ok"
    BY JobFacts, AnswerFields DEF Now, HandleLogout, Ok
  <1>3. Leaves(x)
    BY <1>1, <1>2 DEF Leaves, Back
  <1>4. QED
    BY <1>2, <1>3 DEF Leaving

LEMMA FeedNow ==
    ASSUME Now, NEW j \in jobs, UNCHANGED <<storage, page, bounds>>,
           ListPending(j) \/ Compare(j) \/ ListAgain(j) \/ TimeOut(j)
    PROVE  SteadyOK'
  <1>1. UNCHANGED <<rows, open, era, token, family, setting, picked, row, shown>>
    BY DEF ListPending, Compare, ListAgain, TimeOut, server, storage, page, bounds
  <1>2. Head(j.todo) = "wait" /\ DOMAIN j = JobFields /\ Alive(j) /\ FnOK(j) /\ j.fn = "live"
    <2>1. j.todo = <<"wait">> /\ Head(<<"wait">>) = "wait"
      BY DEF ListPending, Compare, ListAgain, TimeOut, At
    <2>2. QED
      BY <2>1, NowSent, JobFacts DEF FnOK, Now
  <1>3. PICK x : /\ jobs' = (jobs \ {j}) \cup {x} /\ Same(j, x) /\ x.stage # "out"
                 /\ x.status \in {j.status, "ok", "upToDate"}
    <2>1. ASSUME NEW status \in {"ok", "upToDate"}, NEW items, Answer(j, status, items, None)
          PROVE  \E x : /\ jobs' = (jobs \ {j}) \cup {x} /\ Same(j, x) /\ x.stage # "out"
                        /\ x.status \in {j.status, "ok", "upToDate"}
      <3>1. PICK x : jobs' = (jobs \ {j}) \cup {x} /\ Back(j, x) /\ x.status = status
        BY <1>2, <2>1, AnswerFields
      <3>2. Same(j, x) /\ x.stage # "out"
        BY <3>1 DEF Back, Same
      <3>3. QED
        BY <3>1, <3>2
    <2>2. ASSUME NEW stage \in {"listed", "parked"}, NEW x, jobs' = (jobs \ {j}) \cup {x},
                 \E items : x = [j EXCEPT !.stage = stage, !.items = items]
          PROVE  Same(j, x) /\ x.stage # "out" /\ x.status = j.status
      BY <1>2, <2>2 DEF Same, JobFields
    <2>3. CASE ListPending(j)
      <3>1. PICK l, x : x = [j EXCEPT !.stage = "listed", !.items = l] /\ jobs' = (jobs \ {j}) \cup {x}
        BY <2>3 DEF ListPending
      <3>2. QED
        BY <2>2, <3>1
    <2>4. CASE Compare(j)
      <3>1. CASE jobs' = (jobs \ {j}) \cup {[j EXCEPT !.stage = "parked"]}
        <4>1. PICK x : x = [j EXCEPT !.stage = "parked"] /\ jobs' = (jobs \ {j}) \cup {x}
          BY <3>1
        <4>2. Same(j, x) /\ x.stage # "out" /\ x.status = j.status
          BY <1>2, <4>1 DEF Same, JobFields
        <4>3. QED
          BY <4>1, <4>2
      <3>2. QED
        BY <2>1, <2>4, <3>1 DEF Compare
    <2>5. QED
      BY <2>1, <2>3, <2>4 DEF ListAgain, TimeOut
  <1>4. Feeds(x) /\ Alive(x)
    BY <1>2, <1>3, SameFn DEF Same, Feeds, Alive
  <1>5. \A c : ListOf(c, family)' = ListOf(c, family)
    BY <1>1 DEF ListOf
  <1>6. QED
    BY <1>1, <1>2, <1>3, <1>4, <1>5, LiveMoves

LEMMA HandleNow ==
    ASSUME Now, NEW j \in jobs, UNCHANGED <<storage, page, bounds>>, Handle(j)
    PROVE  SteadyOK' \/ Leaving'
  BY NotNow, OptionsNow, MeNow, ListNow, CreateNow, DeleteNow, DecideNow, PutNow, LogoutNow, FeedNow DEF Handle

-----------------------------------------------------------------------------
(* The page gets its answers while the console is on screen. *)

LEMMA LoadStarts ==
    ASSUME TypeInv, Calm, NEW cs \in SUBSET Card
    PROVE  /\ \A x \in Load(cs) : FnOK(x) /\ Starts(x) /\ Helper(x) /\ Head(x.todo) \in Looks
           /\ \A c \in cs \cap setting.cards : \E x \in Load(cs) : Head(x.todo) = c
  <1>1. ASSUME NEW c \in cs \cap setting.cards, NEW x, x = Call(c, <<c>>)
        PROVE  FnOK(x) /\ Starts(x) /\ Helper(x) /\ Head(x.todo) \in Looks /\ Head(x.todo) = c
    <2>1. c \in Card /\ c # "asks"
      BY CalmSteps
    <2>2. PICK t : t = <<c>>
      OBVIOUS
    <2>3. t \in Rests /\ Head(t) = c
      BY <2>1, <2>2, LoadHas
    <2>4. Out(x, t) /\ x.fn = c
      BY <1>1, <2>2, CallFields
    <2>5. t \notin FoundRest
      BY <2>1, <2>3, RestHeads DEF FoundHeads, Card
    <2>6. FnOK(x)
      BY <2>1, <2>3, <2>4, <2>5 DEF FnOK, Out, Card
    <2>7. QED
      BY <2>1, <2>3, <2>4, <2>6 DEF Out, Starts, Helper, Looks, Card
  <1>2. QED
    BY <1>1 DEF Load

LEMMA RestStarts ==
    ASSUME NEW j, FnOK(j), DOMAIN j = JobFields, NEW x \in Rest(j)
    PROVE  /\ FnOK(x) /\ x.todo = Tail(j.todo) /\ x.todo # <<>> /\ x.fn = j.fn /\ x.arg = j.arg
           /\ ~Helper(j)
           /\ Head(x.todo) # "passkeyLogin" => Starts(x)
           /\ x.stage = "out" /\ x.try = "first" /\ x.status = "ok"
  <1>1. Tail(j.todo) # <<>> /\ x = Sent(j, Tail(j.todo))
    BY DEF Rest
  <1>2. PICK r : r = Tail(j.todo)
    OBVIOUS
  <1>3. Out(x, r) /\ x.fn = j.fn /\ x.arg = j.arg
    BY <1>1, <1>2, SentFields
  <1>4. j.todo \in Rests /\ j.todo \notin FoundRest
    BY DEF FnOK
  <1>5. Head(j.todo) \in SignIns \cup {"passkeyOptions", "me", "select", "passkeyCreation", "create", "delete"}
    BY <1>1, <1>2, <1>4, Follows
  <1>6. /\ r \in Rests /\ r \notin FoundRest
        /\ Head(r) \in {"me", "passkeyLogin", "select", "picker", "create", "children", "rules", "grants", "devices", "passkeys"}
        /\ j.todo \in EnterRest => r \in EnterRest
    BY <1>1, <1>2, <1>4, <1>5, Follows
  <1>7. j.fn \notin Card \cup {"live", "saveDefault"}
    BY <1>5 DEF FnOK, SignIns, Card
  <1>8. FnOK(x)
    BY <1>3, <1>6, <1>7 DEF FnOK, Out
  <1>9. QED
    BY <1>1, <1>2, <1>3, <1>6, <1>7, <1>8 DEF Helper, Out, Starts

\* A function goes on or ends, and loads begin.
LEMMA Goes ==
    ASSUME Now, NEW j \in jobs, j.fn # "live", UNCHANGED <<rows, open, era, token, setting, family>>,
           NEW N, jobs' = (jobs \ {j}) \cup N, \A x \in N : FnOK(x) /\ Starts(x) /\ Head(x.todo) # "put",
           (\A x \in N : Head(x.todo) \in Looks) \/ (Head(j.todo) \notin Looks /\ \A x, y \in N : x = y)
    PROVE  Valid(token)' /\ \A x \in jobs' : Alive(x)' /\ LoadOK(x)' /\ Alone(x)' /\ PutOK(x)'
  <1>1. PICK K : K = jobs \ {j}
    OBVIOUS
  <1>2. \A x \in N : PutOK(x)'
    BY DEF PutOK
  <1>3. \A k \in jobs : k.fn = "live" => Head(k.todo) \in Looks
    BY LiveLooks DEF Now, Patient
  <1>4. CASE \A x \in N : Head(x.todo) \in Looks
    <2>1. \A k \in K : Head(k.todo) \in Looks
      BY <1>1, <1>3, Loner, Lookers
    <2>2. QED
      BY <1>1, <1>2, <1>4, <2>1, Begins
  <1>5. CASE Head(j.todo) \notin Looks /\ \A x, y \in N : x = y
    <2>1. \A k \in K : k.fn = "live"
      BY <1>1, <1>5, Loner
    <2>2. QED
      BY <1>1, <1>2, <1>5, <2>1, Begins
  <1>6. QED
    BY <1>4, <1>5

\* What is covered stays so if what j covers is.
LEMMA GoesOnCovered ==
    ASSUME Now, NEW j \in jobs, j.fn # "live", UNCHANGED <<rows, open, era, token, setting, family, shown, picked, row>>,
           NEW N, jobs' = (jobs \ {j}) \cup N, \A x \in N : FnOK(x) /\ Starts(x) /\ Head(x.todo) # "put",
           (\A x \in N : Head(x.todo) \in Looks) \/ (Head(j.todo) \notin Looks /\ \A x, y \in N : x = y),
           \A c \in setting.cards : Mends(j, c) => \E x \in N : Head(x.todo) = c
    PROVE  SteadyOK'
  <1>1. Valid(token)' /\ \A x \in jobs' : Alive(x)' /\ LoadOK(x)' /\ Alone(x)' /\ PutOK(x)'
    BY Goes
  <1>2. \A c : ListOf(c, family)' = ListOf(c, family)
    BY DEF ListOf
  <1>3. AllCovered'
    <2> SUFFICES ASSUME NEW c \in setting.cards, family # None \/ c = "passkeys"
                 PROVE  Covered(c)'
      BY DEF AllCovered
    <2>1. Covered(c)
      BY DEF Now, SteadyOK, AllCovered
    <2>2. CASE Tells(c)
      <3>1. Tells(c)'
        BY <1>2, <2>2 DEF Tells
      <3>2. QED
        BY <3>1 DEF Covered
    <2>3. ASSUME NEW k \in jobs, Mends(k, c) PROVE Covered(c)'
      <3>1. CASE k = j
        <4>1. PICK x \in N : Head(x.todo) = c
          BY <2>3, <3>1
        <4>2. Mends(x, c)
          BY <4>1 DEF Mends
        <4>3. QED
          BY <4>2 DEF Covered
      <3>2. CASE k # j
        BY <2>3, <3>2 DEF Covered
      <3>3. QED
        BY <3>1, <3>2
    <2>4. QED
      BY <2>1, <2>2, <2>3 DEF Covered
  <1>4. (family = None => NoDefaults)'
    BY DEF Now, SteadyOK, NoDefaults
  <1>5. QED
    BY <1>1, <1>3, <1>4 DEF SteadyOK

LEMMA EndsCovered ==
    ASSUME Now, NEW j \in jobs, j.fn # "live", UNCHANGED <<rows, open, era, token, setting, family, shown, picked, row>>,
           NEW N, N = {}, jobs' = (jobs \ {j}) \cup N, \A c \in setting.cards : ~Mends(j, c)
    PROVE  SteadyOK'
  <1>1. \A x \in N : FnOK(x) /\ Starts(x) /\ Head(x.todo) # "put"
    OBVIOUS
  <1>2. \A x \in N : Head(x.todo) \in Looks
    OBVIOUS
  <1>3. \A c \in setting.cards : Mends(j, c) => \E x \in N : Head(x.todo) = c
    OBVIOUS
  <1>4. QED
    BY <1>1, <1>2, <1>3, GoesOnCovered

\* What is known of an answer when it comes to the page.
LEMMA NowSettled ==
    ASSUME Now, NEW j \in jobs, NEW requests, Settled(j, requests)
    PROVE  /\ FnOK(j) /\ LoadOK(j) /\ PutOK(j) /\ DOMAIN j = JobFields /\ j.stage = "back"
           /\ Head(j.todo) \in requests /\ Head(j.todo) \notin Early /\ j.status # "401"
           /\ Head(j.todo) # "wait" => j.fn # "live"
  BY NowSent, JobFacts DEF Settled, Now, FnOK, Alive

LEMMA NotNowPage ==
    ASSUME Now, NEW j \in jobs
    PROVE  ~(RenewTokens(j) \/ Renewed(j) \/ SignedIn(j) \/ AfterMe(j) \/ NotSaved(j))
  <1>1. ~RenewTokens(j) /\ ~Renewed(j)
    BY NowSent DEF RenewTokens, Renewed, Renews, Alive
  <1>2. ~SignedIn(j) /\ ~AfterMe(j)
    BY NowSettled DEF SignedIn, AfterMe, Answered, Early
  <1>3. ~NotSaved(j)
    BY NowSettled DEF NotSaved, Failed, PutOK
  <1>4. QED
    BY <1>1, <1>2, <1>3

LEMMA PickedNow ==
    ASSUME Now, NEW j \in jobs, UNCHANGED bounds, Picked(j)
    PROVE  SteadyOK'
  <1>1. FnOK(j) /\ Head(j.todo) = "picker" /\ j.fn # "live"
    BY NowSettled DEF Picked
  <1>2. Tail(j.todo) = <<>>
    BY <1>1, TailOf DEF FnOK, SignIns
  <1>3. UNCHANGED <<rows, open, era, token, setting, family, shown, picked, row>>
    BY <1>2 DEF Picked, server, page, bounds
  <1>4. PICK N : N = {} /\ jobs' = (jobs \ {j}) \cup N
    BY <1>2 DEF Picked, GoOn, Rest
  <1>5. \A c \in setting.cards : ~Mends(j, c)
    BY <1>1, CardsShown DEF Mends, Card
  <1>6. QED
    BY <1>1, <1>3, <1>4, <1>5, EndsCovered

LEMMA ChangedNow ==
    ASSUME Now, NEW j \in jobs, UNCHANGED bounds, Changed(j)
    PROVE  SteadyOK'
  <1>1. /\ FnOK(j) /\ DOMAIN j = JobFields
        /\ Head(j.todo) \in {"create", "delete", "passkeyCreation", "enroll"} /\ j.fn # "live"
    <2>1. Settled(j, {"create", "delete", "createFamily", "passkeyOptions", "passkeyCreation",
                      "enroll", "register", "forgot"})
      BY DEF Changed, Answered
    <2>2. QED
      BY <2>1, NowSettled, NowSent DEF Early, Card
  <1>2. UNCHANGED <<rows, open, era, token, setting, family, shown, picked, row>>
    BY DEF Changed, server, storage, page, bounds
  <1>3. PICK N : N = Rest(j) \cup With(j) /\ jobs' = (jobs \ {j}) \cup N
    <2>1. PICK R, W : R = Rest(j) /\ W = With(j)
      OBVIOUS
    <2>2. jobs' = (jobs \ {j}) \cup R \cup W
      BY <2>1 DEF Changed, GoOn
    <2>3. PICK N : N = R \cup W
      OBVIOUS
    <2>4. QED
      BY <2>1, <2>2, <2>3
  <1>4. Head(j.todo) \notin Looks
    BY <1>1 DEF Looks
  <1>5. \A x \in With(j) : FnOK(x) /\ Starts(x) /\ Head(x.todo) \in Looks /\ Tail(j.todo) = <<"rules">>
    BY LoadStarts DEF With, Now, Card
  <1>6. ASSUME NEW x \in Rest(j)
        PROVE  FnOK(x) /\ Starts(x) /\ Head(x.todo) # "put" /\ (Head(x.todo) \in Looks \/ Head(j.todo) = "passkeyCreation")
    <2>1. FnOK(x) /\ x.todo = Tail(j.todo) /\ x.todo # <<>> /\ (Head(x.todo) # "passkeyLogin" => Starts(x))
      BY <1>1, RestStarts
    <2>2. \/ Head(j.todo) = "passkeyCreation" /\ Head(x.todo) = "create"
          \/ Head(x.todo) \in {"children", "rules", "grants", "devices", "passkeys"}
      <3>1. PICK r : r = x.todo
        OBVIOUS
      <3>2. j.todo \in Rests /\ j.todo \notin FoundRest /\ r = Tail(j.todo) /\ r # <<>>
        BY <1>1, <2>1, <3>1 DEF FnOK
      <3>3. QED
        BY <1>1, <3>1, <3>2, Follows DEF SignIns
    <2>3. QED
      BY <2>1, <2>2 DEF Looks
  <1>7. (\A x \in N : Head(x.todo) \in Looks) \/ (Head(j.todo) \notin Looks /\ \A x, y \in N : x = y)
    <2>1. CASE Head(j.todo) = "passkeyCreation"
      <3>1. Tail(j.todo) = <<"create", "passkeys">>
        BY <1>1, <2>1, TailOf DEF FnOK
      <3>2. <<"create", "passkeys">> # <<"rules">>
        OBVIOUS
      <3>3. With(j) = {}
        BY <3>1, <3>2 DEF With
      <3>4. QED
        BY <1>3, <1>4, <3>3, RestOne
    <2>2. CASE Head(j.todo) # "passkeyCreation"
      BY <1>3, <1>5, <1>6, <2>2
    <2>3. QED
      BY <2>1, <2>2
  <1>8. ASSUME NEW c \in setting.cards, Mends(j, c) PROVE \E x \in N : Head(x.todo) = c
    <2>1. Tail(j.todo) = <<c>> /\ Head(<<c>>) = c
      BY <1>1, <1>8, CardsShown DEF Mends, Card
    <2>2. PICK x : x \in Rest(j)
      BY <2>1 DEF Rest
    <2>3. x.todo = Tail(j.todo)
      BY <1>1, <2>2, RestStarts
    <2>4. QED
      BY <1>3, <2>1, <2>2, <2>3
  <1>9. \A x \in N : FnOK(x) /\ Starts(x) /\ Head(x.todo) # "put"
    BY <1>3, <1>5, <1>6 DEF Looks
  <1>10. QED
    BY <1>1, <1>2, <1>3, <1>7, <1>8, <1>9, GoesOnCovered

LEMMA DecidedNow ==
    ASSUME Now, NEW j \in jobs, UNCHANGED bounds, Decided(j) \/ TakenBack(j)
    PROVE  SteadyOK'
  <1>1. Head(j.todo) \in {"decide", "undo"} /\ j.fn # "live"
    BY NowSettled DEF Decided, TakenBack, Answered
  <1>2. UNCHANGED <<rows, open, era, token, setting, family, shown, picked, row>>
    BY DEF Decided, TakenBack, server, storage, cards, bounds
  <1>3. PICK cs, N : cs = {"rules", "grants"} /\ N = Load(cs) /\ jobs' = (jobs \ {j}) \cup N
    BY DEF Decided, TakenBack, End
  <1>4. /\ \A x \in N : FnOK(x) /\ Starts(x) /\ Head(x.todo) \in Looks
        /\ \A c \in cs \cap setting.cards : \E x \in N : Head(x.todo) = c
    BY <1>3, LoadStarts DEF Now, Card
  <1>5. \A c \in setting.cards : Mends(j, c) => c \in cs
    BY <1>1, <1>3, CardsShown DEF Mends, Card
  <1>6. \A x \in N : Head(x.todo) # "put"
    BY <1>4 DEF Looks
  <1>7. QED
    BY <1>1, <1>2, <1>3, <1>4, <1>5, <1>6, GoesOnCovered

LEMMA FailedNow ==
    ASSUME Now, NEW j \in jobs, UNCHANGED bounds, NotDecided(j) \/ GaveUp(j)
    PROVE  SteadyOK'
  <1>1. /\ Head(j.todo) \in {"decide", "create", "delete", "undo", "passkeyCreation", "enroll", "deleteMe"}
        /\ j.fn # "live" /\ j.status # "ok"
    <2>1. Failed(j, {"decide"}) \/ Failed(j, {"me", "create", "delete", "undo", "createFamily", "passkeyOptions",
                  "passkeyCreation", "enroll", "register", "forgot", "deleteMe"} \cup SignIns)
      BY DEF NotDecided, GaveUp
    <2>2. QED
      BY <2>1, NowSettled, NowSent DEF Failed, Early, Card
  <1>2. UNCHANGED <<rows, open, era, token, setting, family, shown, picked, row>>
    BY DEF NotDecided, GaveUp, server, storage, cards, bounds
  <1>3. PICK N : N = {} /\ jobs' = (jobs \ {j}) \cup N
    BY DEF NotDecided, GaveUp, End
  <1>4. \A c \in setting.cards : ~Mends(j, c)
    BY <1>1, CardsShown DEF Mends, Card
  <1>5. QED
    BY <1>1, <1>2, <1>3, <1>4, EndsCovered

LEMMA StaysTold ==
    ASSUME UNCHANGED <<rows, family>>, NEW c, shown'[c] = shown[c], c = "defaults" => UNCHANGED <<picked, row>>, Tells(c)
    PROVE  Tells(c)'
  <1>1. ListOf(c, family)' = ListOf(c, family)
    BY DEF ListOf
  <1>2. QED
    BY <1>1 DEF Tells

\* The live loop begins.
LEMMA LiveStarts ==
    ASSUME NEW t, t = <<"wait">>, NEW x, x = Call("live", t)
    PROVE  FnOK(x) /\ Starts(x) /\ Helper(x) /\ Head(x.todo) = "wait"
  <1>1. Out(x, t) /\ x.fn = "live"
    BY CallFields
  <1>2. Head(t) = "wait" /\ t \in SingleRest
    BY DEF SingleRest
  <1>3. t \in Rests
    BY <1>2 DEF Rests
  <1>4. t \notin FoundRest
    BY <1>2, <1>3, RestHeads DEF FoundHeads
  <1>5. FnOK(x)
    BY <1>1, <1>2, <1>3, <1>4 DEF FnOK, Out, Card
  <1>6. QED
    BY <1>1, <1>2, <1>5 DEF Out, Starts, Helper

LEMMA SelectedNow ==
    ASSUME Now, NEW j \in jobs, UNCHANGED bounds, Selected(j)
    PROVE  SteadyOK'
  <1>1. /\ FnOK(j) /\ Head(j.todo) = "select" /\ j.fn # "live" /\ DOMAIN j = JobFields
        /\ j.family = family /\ j.status = "ok" /\ j.items = ListOf("children", family)
    <2>1. FnOK(j) /\ Head(j.todo) = "select" /\ j.fn # "live" /\ DOMAIN j = JobFields /\ j.stage = "back" /\ LoadOK(j)
      BY NowSettled, NowSent DEF Selected, Card
    <2>2. QED
      BY <2>1 DEF LoadOK, Lists, CardOf
  <1>2. UNCHANGED <<rows, open, era, token, setting, family, picked, row>>
    BY DEF Selected, server, storage, bounds
  <1>3. PICK N : jobs' = (jobs \ {j}) \cup N /\ Load(Refreshed) \subseteq N
                 /\ \A x \in N : x \in Rest(j) \/ x \in Load(Refreshed) \/ x = Call("live", <<"wait">>)
    <2>1. PICK R, L, C : R = Rest(j) /\ L = Load(Refreshed) /\ C = (IF Watched THEN {} ELSE {Call("live", <<"wait">>)})
      OBVIOUS
    <2>2. jobs' = (jobs \ {j}) \cup R \cup (L \cup C)
      BY <2>1 DEF Selected, GoOn
    <2>3. PICK N : N = R \cup L \cup C
      OBVIOUS
    <2>4. QED
      BY <2>1, <2>2, <2>3
  <1>4. Refreshed \in SUBSET Card
    BY DEF Refreshed, Card
  <1>5. ASSUME NEW x \in N PROVE FnOK(x) /\ Starts(x) /\ Head(x.todo) # "put" /\ Head(x.todo) \in Looks
    <2>1. CASE x \in Load(Refreshed)
      BY <1>4, <2>1, LoadStarts DEF Now, Looks
    <2>2. CASE x = Call("live", <<"wait">>)
      BY <2>2, LiveStarts DEF Looks
    <2>3. CASE x \in Rest(j)
      <3>1. FnOK(x) /\ x.todo = Tail(j.todo) /\ (Head(x.todo) # "passkeyLogin" => Starts(x))
        BY <1>1, <2>3, RestStarts
      <3>2. Tail(j.todo) = <<"picker">> /\ Head(<<"picker">>) = "picker"
        BY <1>1, TailOf DEF FnOK
      <3>3. QED
        BY <3>1, <3>2 DEF Looks
    <2>4. QED
      BY <1>3, <2>1, <2>2, <2>3
  <1>6. Valid(token)' /\ \A x \in jobs' : Alive(x)' /\ LoadOK(x)' /\ Alone(x)' /\ PutOK(x)'
    BY <1>1, <1>2, <1>3, <1>5, Goes
  <1>7. /\ \A c : c # "children" => shown'[c] = shown[c]
        /\ "children" \in DOMAIN shown => shown'["children"] = Listed(j)
    BY DEF Selected
  <1>8. AllCovered'
    <2> SUFFICES ASSUME NEW c \in setting.cards, family # None \/ c = "passkeys"
                 PROVE  Covered(c)'
      BY <1>2 DEF AllCovered
    <2>1. c \in Card \ {"asks"} /\ c \in DOMAIN shown
      BY CardsShown
    <2>2. CASE c = "children"
      <3>1. ListOf(c, family)' = ListOf(c, family)
        BY <1>2 DEF ListOf
      <3>2. shown'[c].of = family /\ shown'[c].items = ListOf(c, family)
        BY <1>1, <1>7, <2>1, <2>2 DEF Listed
      <3>3. QED
        BY <1>2, <2>2, <3>1, <3>2 DEF Covered, Tells
    <2>3. CASE c \in Refreshed
      <3>1. PICK x \in Load(Refreshed) : Head(x.todo) = c
        BY <1>4, <2>3, LoadStarts DEF Now
      <3>2. x \in jobs' /\ Mends(x, c)
        BY <1>3, <3>1 DEF Mends
      <3>3. QED
        BY <3>2 DEF Covered
    <2>4. CASE c = "passkeys"
      <3>1. CASE Tells(c)
        <4>1. Tells(c)'
          BY <1>2, <1>7, <2>4, <3>1, StaysTold
        <4>2. QED
          BY <4>1 DEF Covered
      <3>2. ASSUME NEW k \in jobs, Mends(k, c) PROVE Covered(c)'
        <4>1. k # j
          BY <1>1, <2>4, <3>2 DEF Mends
        <4>2. k \in jobs'
          BY <1>3, <4>1
        <4>3. QED
          BY <3>2, <4>2 DEF Covered
      <3>3. Covered(c)
        BY <2>4 DEF Now, SteadyOK, AllCovered
      <3>4. QED
        BY <3>1, <3>2, <3>3 DEF Covered
    <2>5. QED
      BY <2>1, <2>2, <2>3, <2>4 DEF Card, Refreshed
  <1>9. (family = None => NoDefaults)'
    BY <1>2, <1>7 DEF Now, SteadyOK, NoDefaults
  <1>10. QED
    BY <1>6, <1>8, <1>9 DEF SteadyOK

LEMMA NoDetached ==
    ASSUME NEW S, \A k \in S : k.fn # "saveDefault"
    PROVE  Detached(S) = S
  <1>1. \A y : y \in Detached(S) <=> \E k \in S : y = IF k.fn = "saveDefault" THEN [k EXCEPT !.known = -2] ELSE k
    BY DEF Detached
  <1>2. \A y : y \in Detached(S) <=> \E k \in S : y = k
    BY <1>1
  <1>3. QED
    BY <1>2

\* The card that is told or saved is told; the others are as they were.
LEMMA OneTold ==
    ASSUME Now, NEW j \in jobs, j.fn # "live", UNCHANGED <<rows, open, era, token, setting, family>>,
           jobs' = jobs \ {j}, NEW card,
           \A c : c # card => shown'[c] = shown[c],
           card # "defaults" => UNCHANGED <<picked, row>>,
           card \in setting.cards => Tells(card)',
           \A c \in setting.cards : Mends(j, c) => c = card,
           (family = None => NoDefaults)'
    PROVE  SteadyOK'
  <1>1. PICK N : N = {} /\ jobs' = (jobs \ {j}) \cup N
    <2>1. jobs' = (jobs \ {j}) \cup {}
      OBVIOUS
    <2>2. QED
      BY <2>1
  <1>2. /\ \A x \in N : FnOK(x) /\ Starts(x) /\ Head(x.todo) # "put"
        /\ \A x \in N : Head(x.todo) \in Looks
    BY <1>1
  <1>3. Valid(token)' /\ \A x \in jobs' : Alive(x)' /\ LoadOK(x)' /\ Alone(x)' /\ PutOK(x)'
    BY <1>1, <1>2, Goes
  <1>4. AllCovered'
    <2> SUFFICES ASSUME NEW c \in setting.cards, family # None \/ c = "passkeys"
                 PROVE  Covered(c)'
      BY DEF AllCovered
    <2>1. CASE c = card
      BY <2>1 DEF Covered
    <2>2. CASE c # card
      <3>1. CASE Tells(c)
        <4>1. Tells(c)'
          BY <2>2, <3>1, StaysTold
        <4>2. QED
          BY <4>1 DEF Covered
      <3>2. ASSUME NEW k \in jobs, Mends(k, c) PROVE Covered(c)'
        <4>1. k \in jobs'
          BY <2>2, <3>2
        <4>2. QED
          BY <3>2, <4>1 DEF Covered
      <3>3. Covered(c)
        BY DEF Now, SteadyOK, AllCovered
      <3>4. QED
        BY <3>1, <3>2, <3>3 DEF Covered
    <2>3. QED
      BY <2>1, <2>2
  <1>5. QED
    BY <1>3, <1>4 DEF SteadyOK

LEMMA CardLoadedNow ==
    ASSUME Now, NEW j \in jobs, UNCHANGED bounds, CardLoaded(j)
    PROVE  SteadyOK'
  <1>1. PICK card : card = Head(j.todo)
    OBVIOUS
  <1>2. /\ FnOK(j) /\ card \in Card \ {"asks"} /\ j.fn # "live"
        /\ card # "passkeys" => j.family = family
        /\ j.status = "ok" /\ j.items = ListOf(card, family)
    <2>1. FnOK(j) /\ card \in Card \ {"asks"} /\ j.fn # "live" /\ j.stage = "back" /\ LoadOK(j)
      BY <1>1, NowSettled DEF CardLoaded, FnOK, Card
    <2>2. QED
      BY <1>1, <2>1 DEF LoadOK, Lists, CardOf, Card
  <1>3. UNCHANGED <<rows, open, era, token, setting, family>>
    BY DEF CardLoaded, server, storage, bounds
  <1>4. jobs' = jobs \ {j}
    <2>1. Head(j.todo) \in Looks
      BY <1>1, <1>2 DEF Looks, Card
    <2>2. \A k \in jobs : FnOK(k) /\ Head(k.todo) \in Looks
      BY <1>2, <2>1, Lookers DEF Now, Patient
    <2>3. \A k \in jobs \ {j} : k.fn # "saveDefault"
      BY <2>2 DEF FnOK, Looks
    <2>4. Detached(jobs \ {j}) = jobs \ {j}
      BY <2>3, NoDetached
    <2>5. QED
      BY <2>4 DEF CardLoaded
  <1>5. /\ \A c : c # card => shown'[c] = shown[c]
        /\ card \in DOMAIN shown => shown'[card] = Listed(j)
    BY <1>1 DEF CardLoaded
  <1>6. card # "defaults" => UNCHANGED <<picked, row>>
    BY <1>1 DEF CardLoaded
  <1>7. card = "defaults" => picked' = j.items /\ row' = j.items
    BY <1>1, <1>2 DEF CardLoaded
  <1>8. ASSUME card \in setting.cards PROVE Tells(card)' /\ shown'[card].of = j.family
    <2>1. shown'[card].of = j.family /\ shown'[card].items = ListOf(card, family)
      BY <1>2, <1>5, <1>8, CardsShown DEF Listed
    <2>2. ListOf(card, family)' = ListOf(card, family)
      BY <1>3 DEF ListOf
    <2>3. QED
      BY <1>2, <1>3, <1>7, <2>1, <2>2 DEF Tells
  <1>9. \A c \in setting.cards : Mends(j, c) => c = card
    BY <1>1, <1>2 DEF Mends, Card
  <1>10. (family = None => NoDefaults)'
    <2>1. family = None => NoDefaults
      BY DEF Now, SteadyOK
    <2>2. CASE card = "defaults"
      BY <1>2, <1>3, <1>8, <2>2 DEF NoDefaults
    <2>3. CASE card # "defaults"
      BY <1>3, <1>5, <2>1, <2>3 DEF NoDefaults
    <2>4. QED
      BY <2>2, <2>3
  <1>11. QED
    BY <1>2, <1>3, <1>4, <1>5, <1>6, <1>8, <1>9, <1>10, OneTold

LEMMA SavedNow ==
    ASSUME Now, NEW j \in jobs, UNCHANGED bounds, Saved(j)
    PROVE  SteadyOK'
  <1>1. Head(j.todo) = "put" /\ j.fn # "live" /\ j.stage = "back" /\ PutOK(j)
    BY NowSettled DEF Saved, Answered
  <1>2. /\ shown["defaults"].of = family /\ j.known # -2 /\ picked = j.next /\ ListOf("defaults", family) = j.next
        /\ family # None
    BY <1>1 DEF PutOK
  <1>3. UNCHANGED <<rows, open, era, token, setting, family, shown, picked>> /\ row' = j.next
    BY <1>2 DEF Saved, server, storage, bounds
  <1>4. ListOf("defaults", family)' = ListOf("defaults", family)
    BY <1>3 DEF ListOf
  <1>5. PICK card : card = "defaults"
    OBVIOUS
  <1>6. Tells(card)'
    BY <1>2, <1>3, <1>4, <1>5 DEF Tells
  <1>7. jobs' = jobs \ {j}
    BY DEF Saved, End
  <1>8. \A c \in setting.cards : Mends(j, c) => c = card
    BY <1>1, <1>5, CardsShown DEF Mends, Card
  <1>9. QED
    BY <1>1, <1>2, <1>3, <1>5, <1>6, <1>7, <1>8, OneTold

LEMMA WaitedNow ==
    ASSUME Now, NEW j \in jobs, UNCHANGED bounds, Waited(j) \/ BackOff(j) \/ PollAgain(j)
    PROVE  SteadyOK'
  <1>1. Head(j.todo) = "wait" /\ FnOK(j) /\ j.fn = "live" /\ Alive(j) /\ DOMAIN j = JobFields
    <2>1. Head(j.todo) = "wait"
      <3>1. Head(<<"wait">>) = "wait"
        OBVIOUS
      <3>2. QED
        BY <3>1 DEF Waited, BackOff, PollAgain, Settled, Failed, At
    <2>2. QED
      BY <2>1, NowSent, JobFacts DEF FnOK, Now
  <1>2. UNCHANGED <<rows, open, era, token, family, setting, picked, row>>
    BY DEF Waited, BackOff, PollAgain, server, storage, page, bounds
  <1>3. \A c \in setting.cards : shown'[c] = shown[c]
    <2>1. \A c : c # "asks" => shown'[c] = shown[c]
      <3>1. CASE Waited(j)
        <4>1. PICK new : UNCHANGED shown \/ shown' = [shown EXCEPT !["asks"] = new]
          BY <3>1 DEF Waited
        <4>2. CASE UNCHANGED shown
          BY <4>2
        <4>3. CASE shown' = [shown EXCEPT !["asks"] = new]
          BY <4>3
        <4>4. QED
          BY <4>1, <4>2, <4>3
      <3>2. CASE BackOff(j) \/ PollAgain(j)
        BY <3>2 DEF BackOff, PollAgain, page
      <3>3. QED
        BY <3>1, <3>2
    <2>2. QED
      BY <2>1, CardsShown
  <1>4. PICK x : /\ jobs' = (jobs \ {j}) \cup {x} /\ x.fn = j.fn /\ x.todo = j.todo /\ x.arg = j.arg
                 /\ x.status = "ok" /\ x.try = "first" /\ (x.stage = "out" => x.token = token)
    <2>1. CASE BackOff(j)
      <3>1. PICK x : x = [j EXCEPT !.stage = "resting", !.status = "ok"] /\ jobs' = (jobs \ {j}) \cup {x}
        BY <2>1 DEF BackOff
      <3>2. /\ x.fn = j.fn /\ x.todo = j.todo /\ x.arg = j.arg /\ x.status = "ok" /\ x.try = j.try /\ x.stage = "resting"
        BY <1>1, <3>1 DEF JobFields
      <3>3. QED
        BY <1>1, <3>1, <3>2 DEF Alive
    <2>2. CASE Waited(j) \/ PollAgain(j)
      <3>1. PICK x : x = Sent(j, j.todo) /\ jobs' = (jobs \ {j}) \cup {x}
        BY <2>2 DEF Waited, PollAgain
      <3>2. PICK t : t = j.todo
        OBVIOUS
      <3>3. Out(x, t) /\ x.fn = j.fn /\ x.arg = j.arg
        BY <1>1, <3>1, <3>2, SentFields
      <3>4. QED
        BY <1>1, <1>2, <3>1, <3>2, <3>3 DEF Out
    <2>3. QED
      BY <2>1, <2>2
  <1>5. Feeds(x) /\ Alive(x)
    BY <1>1, <1>4, SameFn DEF Feeds, Alive
  <1>6. \A c \in Card \ {"asks"} : ListOf(c, family)' = ListOf(c, family)
    BY <1>2 DEF ListOf
  <1>7. (\A y \in jobs' : y \in jobs \/ (Feeds(y) /\ Alive(y))) /\ \A k \in jobs : k \in jobs' \/ k.fn = "live"
    BY <1>1, <1>4, <1>5
  <1>8. QED
    BY <1>2, <1>3, <1>6, <1>7, LiveMoves

LEMMA LeftNow ==
    ASSUME TypeInv, NEW j \in jobs, SignedOut(j) \/ Closed(j)
    PROVE  panel' # "console"
  BY DEF SignedOut, Closed, resume

LEMMA DeliverNow ==
    ASSUME Now, NEW j \in jobs, UNCHANGED bounds, Deliver(j)
    PROVE  SteadyOK' \/ panel' # "console"
  BY NotNowPage, SelectedNow, PickedNow, CardLoadedNow, ChangedNow, DecidedNow, SavedNow, FailedNow, WaitedNow, LeftNow
     DEF Deliver, Now

-----------------------------------------------------------------------------
(* The patient parent taps when only the live loop is under way. *)

LEMMA TapsLive ==
    ASSUME TypeInv, Calm, NEW what, Tap(what)
    PROVE  /\ \A k \in jobs : k.fn = "live"
           /\ what \in setting.taps /\ UNCHANGED <<rows, open, era, setting>>
  BY DEF Calm, Tap, server

LEMMA StartOK ==
    ASSUME NEW fn, NEW todo \in Rests, todo \notin FoundRest, NEW arg, Start(fn, todo, arg),
           Head(todo) \notin {"asks", "wait"},
           fn \notin Card \cup {"live", "resume", "completeConfirmation", "saveDefault"},
           Head(todo) = "delete" => Tail(todo) = <<arg.card>>
    PROVE  \E x : /\ jobs' = jobs \cup {x} /\ FnOK(x) /\ x.todo = todo /\ x.fn = fn
                  /\ Head(todo) \notin {"passkeyOptions", "passkeyLogin"} => Starts(x)
  <1>1. PICK x : jobs' = jobs \cup {x} /\ Out(x, todo) /\ x.fn = fn /\ x.arg = arg
    BY StartFields
  <1>2. FnOK(x)
    BY <1>1 DEF FnOK, Out
  <1>3. QED
    BY <1>1, <1>2 DEF Out, Starts

\* One function begins while the console is on screen.
LEMMA TapPatient ==
    ASSUME Patient, \A k \in jobs : k.fn = "live", NEW x, FnOK(x), jobs' = jobs \cup {x}
    PROVE  Patient'
  <1>1. PICK K, R, H : K = jobs /\ R = {x} /\ H = {}
    OBVIOUS
  <1>2. /\ K \subseteq jobs /\ jobs' \subseteq K \cup R \cup H /\ \A u, v \in R : u = v
        /\ \A y \in R : FnOK(y) /\ (Helper(y) \/ \A k \in K : Helper(k))
        /\ \A y \in H : FnOK(y) /\ Helper(y)
    BY <1>1 DEF Helper
  <1>3. QED
    BY <1>2, PatientStays

LEMMA TapInside ==
    ASSUME Outside, Inside, UNCHANGED panel, NEW x, Head(x.todo) \notin Early, jobs' = jobs \cup {x}
    PROVE  Outside'
  BY DEF Outside, Inside

LEMMA TapSteady ==
    ASSUME Now, \A k \in jobs : k.fn = "live", UNCHANGED <<rows, open, era, token, setting>>,
           NEW x, FnOK(x), Starts(x), PutOK(x)', jobs' = jobs \cup {x},
           \A c \in setting.cards : (family' # None \/ c = "passkeys") => Tells(c)' \/ Mends(x, c),
           (family = None => NoDefaults)'
    PROVE  SteadyOK'
  <1>1. PICK K, N : K = jobs /\ N = {x}
    OBVIOUS
  <1>2. /\ K \subseteq jobs /\ jobs' = K \cup N /\ \A y \in N : FnOK(y) /\ Starts(y) /\ PutOK(y)'
        /\ \A k \in K : k.fn = "live"
        /\ \A y, z \in N : y = z
    BY <1>1
  <1>3. Valid(token)' /\ \A y \in jobs' : Alive(y)' /\ LoadOK(y)' /\ Alone(y)' /\ PutOK(y)'
    BY <1>2, Begins
  <1>4. AllCovered'
    BY DEF AllCovered, Covered
  <1>5. QED
    BY <1>3, <1>4 DEF SteadyOK

\* With only the live loop under way, everything on screen is true.
LEMMA AllTold ==
    ASSUME Now, \A k \in jobs : k.fn = "live", NEW c \in setting.cards, family # None \/ c = "passkeys"
    PROVE  Tells(c)
  <1>1. Covered(c) /\ c \in Card
    BY CardsShown DEF Now, SteadyOK, AllCovered
  <1>2. \A k \in jobs : ~Mends(k, c)
    BY <1>1, LiveLooks DEF Now, Patient
  <1>3. QED
    BY <1>1, <1>2 DEF Covered

\* What a tap leaves true.
Taken == Patient' /\ Outside' /\ (Steady' => SteadyOK')

\* A function begins that changes nothing on screen yet.
LEMMA TapTaken ==
    ASSUME TypeInv, Calm, Patient, Outside, Inside, Steady => SteadyOK, \A k \in jobs : k.fn = "live",
           UNCHANGED <<rows, open, era, token, setting, family, panel, shown, picked, row>>,
           NEW x, FnOK(x), Starts(x), Head(x.todo) \notin Early \cup {"put"}, jobs' = jobs \cup {x}
    PROVE  Taken
  <1>1. Patient' /\ Outside'
    BY TapPatient, TapInside
  <1>2. ASSUME Steady' PROVE SteadyOK'
    <2>1. panel = "console"
      BY <1>2 DEF Steady
    <2>2. ~Leaving
      BY LiveLooks DEF Leaving, Leaves, Patient
    <2>3. Now
      BY <2>1, <2>2 DEF Now, Steady
    <2>4. ASSUME NEW c \in setting.cards, family # None \/ c = "passkeys" PROVE Tells(c)'
      BY <2>3, <2>4, AllTold, StaysTold
    <2>5. (family = None => NoDefaults)'
      BY <2>3 DEF Now, SteadyOK, NoDefaults
    <2>6. PutOK(x)'
      BY DEF PutOK
    <2>7. QED
      BY <2>3, <2>4, <2>5, <2>6, TapSteady
  <1>3. QED
    BY <1>1, <1>2 DEF Taken

LEMMA SubmitTaken ==
    ASSUME Now, Submit
    PROVE  Taken
  <1>1. PICK f \in Form : Tap(f[1]) /\ UNCHANGED <<storage, page>> /\ Start(f[1], f[2], f[3])
    BY DEF Submit
  <1>2. PICK fn, todo, arg : fn = f[1] /\ todo = f[2] /\ arg = f[3]
    OBVIOUS
  <1>3. /\ Tap(fn) /\ Start(fn, todo, arg) /\ <<fn, todo, arg>> \in Form
    BY <1>1, <1>2 DEF Form
  <1>4. (\A k \in jobs : k.fn = "live") /\ fn # "createFamily" /\ UNCHANGED <<rows, open, era, setting>>
    BY <1>3, TapsLive DEF Now, Calm
  <1>5. UNCHANGED <<token, family, panel, shown, picked, row>>
    BY <1>1 DEF storage, page
  <1>6. /\ fn \in {"addChild", "enrollDevice", "addRule", "addPasskey", "signout", "closeAccount"}
        /\ todo \in {<<"create", "children">>, <<"enroll">>, <<"create", "rules">>,
                     <<"passkeyCreation", "create", "passkeys">>, <<"logout">>, <<"deleteMe">>}
    BY <1>3, <1>4 DEF Form, addChild, enrollDevice, addRule, addPasskey, signout, closeAccount
  <1>7. todo \in Rests
    BY <1>6 DEF Rests, MakeRest, SingleRest
  <1>8. Head(todo) \in {"create", "enroll", "passkeyCreation", "logout", "deleteMe"}
    <2>1. /\ Head(<<"create", "children">>) = "create" /\ Head(<<"enroll">>) = "enroll"
          /\ Head(<<"create", "rules">>) = "create" /\ Head(<<"logout">>) = "logout"
          /\ Head(<<"passkeyCreation", "create", "passkeys">>) = "passkeyCreation"
          /\ Head(<<"deleteMe">>) = "deleteMe"
      OBVIOUS
    <2>2. QED
      BY <1>6, <2>1
  <1>9. todo \notin FoundRest
    BY <1>7, <1>8, RestHeads DEF FoundHeads
  <1>10. PICK x : jobs' = jobs \cup {x} /\ FnOK(x) /\ x.todo = todo /\ Starts(x)
    BY <1>3, <1>6, <1>7, <1>8, <1>9, StartOK DEF Card
  <1>11. Head(x.todo) \notin Early \cup {"put"}
    BY <1>8, <1>10 DEF Early, SignIns
  <1>12. QED
    BY <1>4, <1>5, <1>10, <1>11, TapTaken DEF Now, Steady, Inside

LEMMA RemoveTaken ==
    ASSUME Now, Remove
    PROVE  Taken
  <1>1. PICK r \in Removal : /\ r[1] \in setting.cards
                             /\ \E i \in shown[r[1]].items :
                                   Tap("remove") /\ UNCHANGED <<storage, page>> /\ Start("remove", r[2], i)
    BY DEF Remove
  <1>2. PICK card, todo : card = r[1] /\ todo = r[2]
    OBVIOUS
  <1>3. PICK i \in shown[card].items : Tap("remove") /\ UNCHANGED <<storage, page>> /\ Start("remove", todo, i)
    BY <1>1, <1>2
  <1>4. /\ card \in {"rules", "grants", "devices", "passkeys"} /\ todo = <<"delete", card>>
    BY <1>2 DEF Removal, removeRule, revokeGrant, removeDevice, removePasskey
  <1>5. i.card = card
    BY <1>1, <1>2, CardsShown DEF Now, TypeInv, PageOK, ShownOK
  <1>6. (\A k \in jobs : k.fn = "live") /\ UNCHANGED <<rows, open, era, setting>>
    BY <1>3, TapsLive DEF Now
  <1>7. UNCHANGED <<token, family, panel, shown, picked, row>>
    BY <1>3 DEF storage, page
  <1>8. todo \in Rests
    BY <1>4 DEF Rests, DropRest
  <1>9. Head(todo) = "delete" /\ Tail(todo) = <<card>>
    <2>1. Head(<<"delete", card>>) = "delete" /\ Tail(<<"delete", card>>) = <<card>>
      OBVIOUS
    <2>2. QED
      BY <1>4, <2>1
  <1>10. todo \notin FoundRest
    BY <1>8, <1>9, RestHeads DEF FoundHeads
  <1>11. PICK x : jobs' = jobs \cup {x} /\ FnOK(x) /\ x.todo = todo /\ Starts(x)
    BY <1>3, <1>5, <1>8, <1>9, <1>10, StartOK DEF Card
  <1>12. Head(x.todo) \notin Early \cup {"put"}
    BY <1>9, <1>11 DEF Early, SignIns
  <1>13. QED
    BY <1>6, <1>7, <1>11, <1>12, TapTaken DEF Now, Steady, Inside

LEMMA undoTaken ==
    ASSUME TypeInv, Calm, Patient, Outside, Inside, Steady => SteadyOK, undoTapped
    PROVE  Taken
  <1>1. Tap("undo") /\ UNCHANGED <<storage, auths, cards, lastCount, busy>> /\ Start("undo", <<"undo">>, undo)
    BY DEF undoTapped
  <1>2. (\A k \in jobs : k.fn = "live") /\ UNCHANGED <<rows, open, era, setting>>
    BY <1>1, TapsLive
  <1>3. UNCHANGED <<token, family, panel, shown, picked, row>>
    BY <1>1 DEF storage, auths, cards
  <1>4. PICK todo : todo = <<"undo">>
    OBVIOUS
  <1>5. Head(todo) = "undo" /\ todo \in Rests
    BY <1>4 DEF Rests, SingleRest
  <1>6. todo \notin FoundRest
    BY <1>5, RestHeads DEF FoundHeads
  <1>7. PICK x : jobs' = jobs \cup {x} /\ FnOK(x) /\ x.todo = todo /\ Starts(x)
    BY <1>1, <1>4, <1>5, <1>6, StartOK DEF Card
  <1>8. Head(x.todo) \notin Early \cup {"put"}
    BY <1>5, <1>7 DEF Early, SignIns
  <1>9. QED
    BY <1>2, <1>3, <1>7, <1>8, TapTaken

LEMMA decideTaken ==
    ASSUME Now, decide
    PROVE  Taken
  <1>1. PICK i, standing : /\ Tap("decide") /\ UNCHANGED <<storage, auths, cards, lastCount, undo>>
                           /\ jobs' = jobs \cup {[Call("decide", <<"decide">>) EXCEPT !.arg = i, !.standing = standing]}
    BY DEF decide
  <1>2. (\A k \in jobs : k.fn = "live") /\ UNCHANGED <<rows, open, era, setting>>
    BY <1>1, TapsLive DEF Now
  <1>3. UNCHANGED <<token, family, panel, shown, picked, row>>
    BY <1>1 DEF storage, auths, cards
  <1>4. PICK todo, y : todo = <<"decide">> /\ y = Call("decide", todo)
    OBVIOUS
  <1>5. PICK x : x = [y EXCEPT !.arg = i, !.standing = standing] /\ jobs' = jobs \cup {x}
    BY <1>1, <1>4
  <1>6. Out(y, todo) /\ y.fn = "decide"
    BY <1>4, CallFields
  <1>7. Out(x, todo) /\ x.fn = "decide"
    BY <1>5, <1>6 DEF Out, JobFields
  <1>8. Head(todo) = "decide" /\ todo \in Rests
    BY <1>4 DEF Rests, SingleRest
  <1>9. todo \notin FoundRest
    BY <1>8, RestHeads DEF FoundHeads
  <1>10. FnOK(x) /\ Starts(x)
    BY <1>7, <1>8, <1>9 DEF FnOK, Out, Starts, Card
  <1>11. Head(x.todo) \notin Early \cup {"put"}
    BY <1>7, <1>8 DEF Early, SignIns, Out
  <1>12. QED
    BY <1>2, <1>3, <1>5, <1>10, <1>11, TapTaken DEF Now, Steady, Inside

LEMMA selectTaken ==
    ASSUME Now, selectFamilyTapped
    PROVE  Taken
  <1>1. /\ Tap("family") /\ family' \in mine /\ UNCHANGED <<token, refresh, page>>
        /\ Start("selectFamily", selectFamily, None)
    BY DEF selectFamilyTapped
  <1>2. (\A k \in jobs : k.fn = "live") /\ UNCHANGED <<rows, open, era, setting>>
    BY <1>1, TapsLive DEF Now
  <1>3. UNCHANGED <<token, panel, shown, picked, row>> /\ family' # None
    BY <1>1, ConsoleAssumption DEF page, Now, TypeInv, ServerOK
  <1>4. PICK todo : todo = <<"select", "picker">> /\ Start("selectFamily", todo, None)
    BY <1>1 DEF selectFamily
  <1>5. Head(todo) = "select" /\ todo \in EnterRest
    BY <1>4 DEF EnterRest, MeRest, SelectRest
  <1>6. todo \in Rests /\ todo \notin FoundRest
    BY <1>5, EnterIsNotFound DEF Rests
  <1>7. PICK x : jobs' = jobs \cup {x} /\ FnOK(x) /\ x.todo = todo /\ Starts(x)
    BY <1>4, <1>5, <1>6, StartOK DEF Card
  <1>8. Head(x.todo) = "select" /\ Head(x.todo) \notin Early \cup {"put"}
    BY <1>5, <1>7 DEF Early, SignIns
  <1>9. Patient' /\ Outside'
    BY <1>2, <1>3, <1>7, <1>8, TapPatient, TapInside DEF Now, Steady, Inside
  <1>10. ASSUME NEW c \in setting.cards PROVE Tells(c)' \/ Mends(x, c)
    <2>1. CASE c # "passkeys"
      BY <1>8, <2>1 DEF Mends
    <2>2. CASE c = "passkeys"
      <3>1. Tells(c)
        BY <1>2, <2>2, AllTold
      <3>2. ListOf(c, family)' = ListOf(c, family)
        BY <1>2, <2>2 DEF ListOf
      <3>3. QED
        BY <1>3, <2>2, <3>1, <3>2 DEF Tells
    <2>3. QED
      BY <2>1, <2>2
  <1>11. PutOK(x)' /\ (family = None => NoDefaults)'
    BY <1>3, <1>8 DEF PutOK
  <1>12. SteadyOK'
    BY <1>2, <1>3, <1>7, <1>10, <1>11, TapSteady
  <1>13. QED
    BY <1>9, <1>12 DEF Taken

LEMMA saveDefaultTaken ==
    ASSUME Now, saveDefaultTapped
    PROVE  Taken
  <1>1. PICK i \in [card : {"defaults"}, family : {shown["defaults"].of} \ {None}, id : Field] :
            /\ Tap("default")
            /\ picked' = (IF i \in picked THEN picked \ {i} ELSE picked \cup {i})
            /\ UNCHANGED <<storage, auths, shown, row, asking>>
            /\ jobs' = jobs \cup
                 {[Call("saveDefault", saveDefault) EXCEPT !.arg = i, !.row = row, !.known = 0,
                     !.next = IF i \in picked THEN row \ {i} ELSE row \cup {i}]}
    BY DEF saveDefaultTapped
  <1>2. (\A k \in jobs : k.fn = "live") /\ UNCHANGED <<rows, open, era, setting>> /\ "defaults" \in setting.cards
    BY <1>1, TapsLive, CalmSteps DEF Now
  <1>3. UNCHANGED <<token, family, panel, shown, row>>
    BY <1>1 DEF storage, auths
  <1>4. shown["defaults"].of # None /\ i.card = "defaults" /\ i.family = shown["defaults"].of
    BY <1>1
  <1>5. family # None
    BY <1>2, <1>4 DEF Now, SteadyOK, NoDefaults
  <1>6. shown["defaults"].of = family /\ picked = ListOf("defaults", family) /\ row = picked
    BY <1>2, <1>5, AllTold DEF Tells
  <1>7. i \in Defaults
    <2>1. family \in Family
      BY <1>5 DEF Now, TypeInv, PageOK, ViewOK
    <2>2. i.card = "defaults" /\ i.family \in Family /\ i.id \in Id /\ i = [card |-> i.card, family |-> i.family, id |-> i.id]
      BY <1>1, <1>6, <2>1, ConsoleAssumption
    <2>3. i \in Item
      BY <2>2 DEF Item, Card
    <2>4. QED
      BY <2>2, <2>3 DEF Defaults
  <1>8. PICK todo, y, next : /\ todo = <<"put">> /\ y = Call("saveDefault", todo)
                             /\ next = IF i \in picked THEN row \ {i} ELSE row \cup {i}
    OBVIOUS
  <1>9. PICK x : x = [y EXCEPT !.arg = i, !.row = row, !.known = 0, !.next = next] /\ jobs' = jobs \cup {x}
    BY <1>1, <1>8 DEF saveDefault
  <1>10. Out(y, todo) /\ y.fn = "saveDefault"
    BY <1>8, CallFields
  <1>11. /\ x.fn = "saveDefault" /\ x.next = next /\ x.known = 0 /\ x.todo = todo /\ x.stage = "out" /\ x.try = "first"
         /\ x.status = "ok" /\ x.token = y.token /\ x.family = family'
    BY <1>9, <1>10 DEF Out, JobFields
  <1>12. Head(todo) = "put" /\ todo \in Rests
    BY <1>8 DEF Rests, SingleRest
  <1>13. todo \notin FoundRest
    BY <1>12, RestHeads DEF FoundHeads
  <1>14. FnOK(x)
    BY <1>11, <1>12, <1>13 DEF FnOK, Card
  <1>15. Starts(x)
    BY <1>10, <1>11, <1>12 DEF Starts, Out
  <1>16. Patient' /\ Outside'
    <2>1. Head(x.todo) \notin Early
      BY <1>11, <1>12 DEF Early, SignIns
    <2>2. QED
      BY <1>2, <1>3, <1>9, <1>14, <2>1, TapPatient, TapInside DEF Now, Steady, Inside
  <1>17. picked' = next
    BY <1>1, <1>6, <1>8
  <1>18. \A k \in next : k \in Defaults /\ k.family = family
    <2>1. \A k \in row : k \in Defaults /\ k.family = family
      BY <1>6 DEF ListOf, Now, TypeInv, PageOK, ViewOK
    <2>2. QED
      BY <1>4, <1>6, <1>7, <1>8, <2>1
  <1>19. PutOK(x)'
    BY <1>2, <1>3, <1>5, <1>6, <1>11, <1>17, <1>18 DEF PutOK, Defaults
  <1>20. ASSUME NEW c \in setting.cards, family' # None \/ c = "passkeys" PROVE Tells(c)' \/ Mends(x, c)
    <2>1. CASE c = "defaults"
      BY <1>11, <1>12, <2>1 DEF Mends
    <2>2. CASE c # "defaults"
      BY <1>2, <1>3, <1>20, <2>2, AllTold, StaysTold
    <2>3. QED
      BY <2>1, <2>2
  <1>21. (family = None => NoDefaults)'
    BY <1>3, <1>5
  <1>22. SteadyOK'
    BY <1>2, <1>3, <1>9, <1>14, <1>15, <1>19, <1>20, <1>21, TapSteady
  <1>23. QED
    BY <1>16, <1>22 DEF Taken

-----------------------------------------------------------------------------
(* One function at a time, and none but sign-ins before the console is on screen: *)
(* the API answers.                                                              *)

\* x is j after something happened to its request.
Moved(j, x) == x.fn = j.fn /\ x.todo = j.todo /\ (x.arg = j.arg \/ Head(j.todo) \in {"me", "picker"})

LEMMA AnswerMoves ==
    ASSUME TypeInv, NEW j \in jobs, NEW status, NEW items, NEW gets, Answer(j, status, items, gets)
    PROVE  \E x : jobs' = (jobs \ {j}) \cup {x} /\ Moved(j, x) /\ x.try = j.try /\ x.status = status /\ x.stage = "back"
  <1>1. PICK x : jobs' = (jobs \ {j}) \cup {x} /\ Back(j, x) /\ x.status = status
    BY JobFacts, AnswerFields
  <1>2. Moved(j, x) /\ x.try = j.try /\ x.stage = "back"
    BY <1>1 DEF Back, Moved
  <1>3. QED
    BY <1>1, <1>2

\* Asked again, its token was the one of the page.
MeAnswered(j, x) ==
    Head(j.todo) = "me" =>
        x.stage # "out" /\ (Done(x) => j.stage = "out" /\ j.try # "refresh" /\ Valid(j.token) /\ UNCHANGED <<open, era>>)

\* What the API does to the calls under way.
CallAnswered(j) ==
    \E x : /\ Moved(j, x) /\ MeAnswered(j, x)
           /\ jobs' = (jobs \ {j}) \cup {x} \/ jobs' = Woken(jobs \ {j}, j.family) \cup {x}

LEMMA AnswerHandled ==
    ASSUME TypeInv, NEW j \in jobs, NEW status, NEW items, NEW gets, Answer(j, status, items, gets),
           Head(j.todo) = "me" => status # "ok" \/ j.try = "refresh"
    PROVE  CallAnswered(j)
  <1>1. PICK x : jobs' = (jobs \ {j}) \cup {x} /\ Moved(j, x) /\ x.try = j.try /\ x.status = status /\ x.stage = "back"
    BY AnswerMoves
  <1>2. MeAnswered(j, x)
    BY <1>1 DEF MeAnswered, Done
  <1>3. QED
    BY <1>1, <1>2 DEF CallAnswered

LEMMA PlainHandled ==
    ASSUME TypeInv, NEW j \in jobs,
           \/ Refuse(j) \/ HandleSignIn(j) \/ HandleMail(j) \/ HandleOptions(j) \/ HandleList(j)
           \/ HandleCreate(j) \/ HandleDelete(j) \/ HandlePut(j) \/ HandleLogout(j)
    PROVE  CallAnswered(j)
  <1>1. CASE Refuse(j)
    BY <1>1, AnswerHandled DEF Refuse
  <1>2. CASE HandleSignIn(j)
    <2>1. PICK status, gets : Answer(j, status, {}, gets)
      BY <1>2 DEF HandleSignIn
    <2>2. Head(j.todo) # "me"
      BY <1>2 DEF HandleSignIn, Asking, SignIns
    <2>3. QED
      BY <2>1, <2>2, AnswerHandled
  <1>3. CASE HandleMail(j)
    <2>1. Answer(j, "ok", {}, None) /\ Head(j.todo) # "me"
      BY <1>3 DEF HandleMail, Ok, Asking
    <2>2. QED
      BY <2>1, AnswerHandled
  <1>4. CASE HandleOptions(j)
    <2>1. Answer(j, "ok", {}, None) /\ Head(j.todo) # "me"
      BY <1>4 DEF HandleOptions, Ok, Asking, Authorized
    <2>2. QED
      BY <2>1, AnswerHandled
  <1>5. CASE HandleList(j)
    <2>1. Answer(j, "ok", ListOf(CardOf(Head(j.todo)), j.family), None) /\ Head(j.todo) # "me"
      BY <1>5 DEF HandleList, Asking, Authorized, Card
    <2>2. QED
      BY <2>1, AnswerHandled
  <1>6. CASE HandleCreate(j)
    <2>1. Answer(j, "ok", {}, None) /\ Head(j.todo) # "me"
      BY <1>6 DEF HandleCreate, Ok, Asking, Authorized
    <2>2. QED
      BY <2>1, AnswerHandled
  <1>7. CASE HandleDelete(j)
    <2>1. PICK status : Answer(j, status, {}, None)
      BY <1>7 DEF HandleDelete
    <2>2. Head(j.todo) # "me"
      BY <1>7 DEF HandleDelete, Asking, Authorized
    <2>3. QED
      BY <2>1, <2>2, AnswerHandled
  <1>8. CASE HandlePut(j)
    <2>1. Answer(j, "ok", {}, None) /\ Head(j.todo) # "me"
      BY <1>8 DEF HandlePut, Ok, Asking, Authorized
    <2>2. QED
      BY <2>1, AnswerHandled
  <1>9. CASE HandleLogout(j)
    <2>1. Answer(j, "ok", {}, None) /\ Head(j.todo) # "me"
      BY <1>9 DEF HandleLogout, Ok, Asking, Authorized
    <2>2. QED
      BY <2>1, AnswerHandled
  <1>10. QED
    BY <1>1, <1>2, <1>3, <1>4, <1>5, <1>6, <1>7, <1>8, <1>9

LEMMA OtherHandled ==
    ASSUME TypeInv, NEW j \in jobs, HandleRefresh(j) \/ HandleMe(j) \/ HandleCreateFamily(j) \/ HandleDecide(j)
    PROVE  CallAnswered(j)
  <1> DOMAIN j = JobFields
    BY JobFacts
  <1>1. CASE HandleRefresh(j)
    <2>1. CASE \E gets : Answer(j, "ok", {}, gets)
      BY <1>1, <2>1, AnswerHandled DEF HandleRefresh
    <2>2. CASE \E x : x = [j EXCEPT !.stage = "back", !.status = "401"] /\ jobs' = (jobs \ {j}) \cup {x}
      <3>1. PICK x : x = [j EXCEPT !.stage = "back", !.status = "401"] /\ jobs' = (jobs \ {j}) \cup {x}
        BY <2>2
      <3>2. x.fn = j.fn /\ x.todo = j.todo /\ x.arg = j.arg /\ x.stage = "back" /\ x.status = "401"
        BY <3>1 DEF JobFields
      <3>3. QED
        BY <3>1, <3>2 DEF CallAnswered, Moved, MeAnswered, Done
    <2>3. QED
      BY <1>1, <2>1, <2>2 DEF HandleRefresh
  <1>2. CASE HandleMe(j)
    <2>1. PICK f, x : x = [j EXCEPT !.stage = "back", !.token = None, !.arg = f] /\ jobs' = (jobs \ {j}) \cup {x}
      BY <1>2 DEF HandleMe
    <2>2. x.fn = j.fn /\ x.todo = j.todo /\ x.stage = "back"
      BY <2>1 DEF JobFields
    <2>3. Head(j.todo) \in {"me", "picker"} /\ j.stage = "out" /\ j.try # "refresh" /\ Valid(j.token)
          /\ UNCHANGED <<open, era>>
      BY <1>2 DEF HandleMe, Authorized, Asking, server
    <2>4. QED
      BY <2>1, <2>2, <2>3 DEF CallAnswered, Moved, MeAnswered
  <1>3. CASE HandleCreateFamily(j)
    <2>1. PICK f, x : x = [j EXCEPT !.stage = "back", !.token = None, !.made = f] /\ jobs' = (jobs \ {j}) \cup {x}
      BY <1>3 DEF HandleCreateFamily
    <2>2. x.fn = j.fn /\ x.todo = j.todo /\ x.arg = j.arg
      BY <2>1 DEF JobFields
    <2>3. Head(j.todo) # "me"
      BY <1>3 DEF HandleCreateFamily, Authorized, Asking
    <2>4. QED
      BY <2>1, <2>2, <2>3 DEF CallAnswered, Moved, MeAnswered
  <1>4. CASE HandleDecide(j)
    <2>1. Head(j.todo) # "me"
      BY <1>4 DEF HandleDecide, Authorized, Asking
    <2>2. CASE Answer(j, "refused", {}, None)
      BY <2>1, <2>2, AnswerHandled
    <2>3. CASE \E f, x : /\ x = [j EXCEPT !.stage = "back", !.token = None, !.made = f]
                         /\ jobs' = Woken(jobs \ {j}, j.family) \cup {x}
      <3>1. PICK f, x : /\ x = [j EXCEPT !.stage = "back", !.token = None, !.made = f]
                        /\ jobs' = Woken(jobs \ {j}, j.family) \cup {x}
        BY <2>3
      <3>2. x.fn = j.fn /\ x.todo = j.todo /\ x.arg = j.arg
        BY <3>1 DEF JobFields
      <3>3. QED
        BY <2>1, <3>1, <3>2 DEF CallAnswered, Moved, MeAnswered
    <2>4. QED
      BY <1>4, <2>2, <2>3 DEF HandleDecide
  <1>5. QED
    BY <1>1, <1>2, <1>3, <1>4

LEMMA FeedHandled ==
    ASSUME TypeInv, NEW j \in jobs, ListPending(j) \/ Compare(j) \/ ListAgain(j) \/ TimeOut(j)
    PROVE  CallAnswered(j)
  <1>1. Head(j.todo) # "me"
    <2>1. Head(<<"wait">>) = "wait"
      OBVIOUS
    <2>2. QED
      BY <2>1 DEF ListPending, Compare, ListAgain, TimeOut, At
  <1>2. ASSUME NEW status, NEW items, Answer(j, status, items, None) PROVE CallAnswered(j)
    BY <1>1, <1>2, AnswerHandled
  <1>3. ASSUME NEW x, Moved(j, x), jobs' = (jobs \ {j}) \cup {x} PROVE CallAnswered(j)
    BY <1>1, <1>3 DEF CallAnswered, MeAnswered
  <1>4. DOMAIN j = JobFields
    BY JobFacts
  <1>5. CASE ListPending(j)
    <2>1. PICK items, x : x = [j EXCEPT !.stage = "listed", !.items = items] /\ jobs' = (jobs \ {j}) \cup {x}
      BY <1>5 DEF ListPending
    <2>2. Moved(j, x)
      BY <1>4, <2>1 DEF Moved, JobFields
    <2>3. QED
      BY <1>3, <2>1, <2>2
  <1>6. CASE Compare(j)
    <2>1. CASE Answer(j, "ok", j.items, None)
      BY <1>2, <2>1
    <2>2. CASE \E x : x = [j EXCEPT !.stage = "parked"] /\ jobs' = (jobs \ {j}) \cup {x}
      <3>1. PICK x : x = [j EXCEPT !.stage = "parked"] /\ jobs' = (jobs \ {j}) \cup {x}
        BY <2>2
      <3>2. Moved(j, x)
        BY <1>4, <3>1 DEF Moved, JobFields
      <3>3. QED
        BY <1>3, <3>1, <3>2
    <2>3. QED
      BY <1>6, <2>1, <2>2 DEF Compare
  <1>7. CASE ListAgain(j) \/ TimeOut(j)
    BY <1>2, <1>7 DEF ListAgain, TimeOut
  <1>8. QED
    BY <1>5, <1>6, <1>7

LEMMA AllHandled ==
    ASSUME TypeInv, NEW j \in jobs, Handle(j)
    PROVE  CallAnswered(j)
  BY PlainHandled, OtherHandled, FeedHandled DEF Handle

\* Before the console is on screen, one function at most is under way.
LEMMA OutsideOne ==
    ASSUME Patient, Outside, ~Inside
    PROVE  \A j, k \in jobs : j = k
  <1>1. \A j \in jobs : ~Helper(j)
    BY DEF Patient, Outside, FnOK, Helper, Early, SignIns, Card
  <1>2. QED
    BY <1>1 DEF Patient

LEMMA HandlePatient ==
    ASSUME TypeInv, Patient, Outside, NEW j \in jobs, CallAnswered(j), UNCHANGED <<storage, page, setting>>
    PROVE  /\ Patient' /\ Outside'
           /\ \A k \in jobs : k = j \/ k \in jobs' \/ k.fn = "live"
  <1>1. PICK x : /\ Moved(j, x) /\ MeAnswered(j, x)
                 /\ jobs' = (jobs \ {j}) \cup {x} \/ jobs' = Woken(jobs \ {j}, j.family) \cup {x}
    BY DEF CallAnswered
  <1>2. PICK S : S = jobs \ {j}
    OBVIOUS
  <1>3. PICK W : W = Woken(S, j.family)
    OBVIOUS
  <1>4. /\ S \subseteq jobs
        /\ \A y \in W : y \in S \/ \E k \in S : Feeds(y) /\ Same(k, y) /\ y.stage = "woken" /\ y.status = k.status
        /\ \A k \in S : k \in W \/ (k.fn = "live" /\ k.stage = "parked")
    BY <1>2, <1>3, WokenFeeds
  <1>5. jobs' = S \cup {x} \/ jobs' = W \cup {x}
    BY <1>1, <1>2, <1>3
  <1>6. FnOK(x) /\ (Helper(x) <=> Helper(j)) /\ x.todo = j.todo
    BY <1>1, SameFn DEF Moved, Patient
  <1>7. Patient'
    <2>1. PICK R, H : R = {x} /\ H = W \ S
      OBVIOUS
    <2>2. jobs' \subseteq S \cup R \cup H
      BY <1>5, <2>1
    <2>3. \A y \in H : FnOK(y) /\ Helper(y)
      BY <1>4, <2>1 DEF Feeds, Helper
    <2>4. Helper(x) \/ \A k \in S : Helper(k)
      BY <1>2, <1>6 DEF Patient
    <2>5. \A y \in R : FnOK(y) /\ (Helper(y) \/ \A k \in S : Helper(k))
      BY <1>6, <2>1, <2>4
    <2>6. \A u, v \in R : u = v
      BY <2>1
    <2>7. QED
      BY <1>4, <2>2, <2>3, <2>5, <2>6, PatientStays
  <1>8. \A k \in jobs : k = j \/ k \in jobs' \/ k.fn = "live"
    BY <1>2, <1>4, <1>5
  <1>9. UNCHANGED <<panel, undo, shown, token, setting>>
    BY DEF storage, page
  <1>10. CASE Inside
    <2>1. \A y \in W : Head(y.todo) \notin Early
      BY <1>4, <1>10 DEF Outside, Feeds, FnOK, Early, SignIns
    <2>2. \A y \in jobs' : Head(y.todo) \notin Early
      BY <1>2, <1>5, <1>6, <1>10, <2>1 DEF Outside
    <2>3. Inside'
      BY <1>9, <1>10 DEF Inside
    <2>4. QED
      BY <1>7, <1>8, <2>2, <2>3 DEF Outside
  <1>11. CASE ~Inside
    <2>1. S = {}
      BY <1>2, <1>11, OutsideOne
    <2>2. W = {}
      BY <1>4, <2>1
    <2>3. jobs' = {x}
      BY <1>5, <2>1, <2>2
    <2>4. Head(x.todo) \in Early
      BY <1>6, <1>11 DEF Outside
    <2>5. MeOK(x)'
      <3>1. ASSUME Head(x.todo) = "me" PROVE (x.stage = "out" /\ x.try # "refresh" => x.token = token') /\ (Done(x) => Valid(token)')
        <4>1. x.stage # "out" /\ (Done(x) => j.stage = "out" /\ j.try # "refresh" /\ Valid(j.token) /\ UNCHANGED <<open, era>>)
          BY <1>1, <1>6, <3>1 DEF MeAnswered
        <4>2. MeOK(j) /\ Head(j.todo) = "me"
          BY <1>6, <1>11, <3>1 DEF Outside
        <4>3. QED
          BY <1>9, <4>1, <4>2 DEF MeOK, Valid
      <3>2. QED
        BY <3>1 DEF MeOK, Done
    <2>6. ~Inside' /\ undo' = None /\ NoDefaults'
      BY <1>9, <1>11 DEF Inside, Outside, NoDefaults
    <2>7. QED
      BY <1>7, <1>8, <2>3, <2>4, <2>5, <2>6 DEF Outside
  <1>12. QED
    BY <1>10, <1>11

-----------------------------------------------------------------------------
(* One function at a time: the page gets its answers. *)

\* The request of j goes on by itself.
LEMMA TokensMove ==
    ASSUME TypeInv, NEW j \in jobs, RenewTokens(j) \/ Renewed(j)
    PROVE  /\ \E x : /\ jobs' = (jobs \ {j}) \cup {x} /\ Moved(j, x) /\ ~Done(x)
                     /\ x.stage = "out" /\ x.try # "refresh" => x.token = token'
           /\ UNCHANGED page /\ UNCHANGED server
  <1>1. DOMAIN j = JobFields
    BY JobFacts
  <1>2. CASE RenewTokens(j)
    <2>1. PICK x : /\ x = [j EXCEPT !.stage = "out", !.try = "refresh", !.token = refresh, !.status = "ok"]
                   /\ jobs' = (jobs \ {j}) \cup {x}
      BY <1>2 DEF RenewTokens
    <2>2. x.fn = j.fn /\ x.todo = j.todo /\ x.arg = j.arg /\ x.try = "refresh"
      BY <1>1, <2>1 DEF JobFields
    <2>3. Moved(j, x) /\ ~Done(x)
      BY <2>2 DEF Moved, Done
    <2>4. QED
      BY <1>2, <2>1, <2>2, <2>3 DEF RenewTokens
  <1>3. CASE Renewed(j)
    <2>1. CASE /\ j.status = "ok" /\ setTokens(j.gets)
               /\ jobs' = (jobs \ {j}) \cup {[j EXCEPT !.stage = "out", !.try = "again", !.token = j.gets, !.gets = None]}
      <3>1. PICK x : /\ x = [j EXCEPT !.stage = "out", !.try = "again", !.token = j.gets, !.gets = None]
                     /\ jobs' = (jobs \ {j}) \cup {x}
        BY <2>1
      <3>2. x.fn = j.fn /\ x.todo = j.todo /\ x.arg = j.arg /\ x.stage = "out" /\ x.token = j.gets
        BY <1>1, <3>1 DEF JobFields
      <3>3. x.token = token'
        BY <2>1, <3>2 DEF setTokens
      <3>4. Moved(j, x) /\ ~Done(x)
        BY <3>2 DEF Moved, Done
      <3>5. QED
        BY <1>3, <3>1, <3>3, <3>4 DEF Renewed
    <2>2. CASE \E x : /\ x = [j EXCEPT !.try = "again", !.token = None, !.status = "401"]
                      /\ jobs' = (jobs \ {j}) \cup {x}
      <3>1. PICK x : x = [j EXCEPT !.try = "again", !.token = None, !.status = "401"] /\ jobs' = (jobs \ {j}) \cup {x}
        BY <2>2
      <3>2. x.fn = j.fn /\ x.todo = j.todo /\ x.arg = j.arg /\ x.stage = j.stage /\ x.status = "401"
        BY <1>1, <3>1 DEF JobFields
      <3>3. Moved(j, x) /\ ~Done(x) /\ x.stage # "out"
        BY <1>3, <3>2 DEF Moved, Done, Renewed
      <3>4. QED
        BY <1>3, <3>1, <3>3 DEF Renewed
    <2>3. QED
      BY <1>3, <2>1, <2>2 DEF Renewed
  <1>4. QED
    BY <1>2, <1>3

LEMMA TokensPatient ==
    ASSUME TypeInv, Patient, Outside, NEW j \in jobs, UNCHANGED bounds, RenewTokens(j) \/ Renewed(j)
    PROVE  Patient' /\ Outside'
  <1>1. PICK x : /\ jobs' = (jobs \ {j}) \cup {x} /\ Moved(j, x) /\ ~Done(x)
                 /\ x.stage = "out" /\ x.try # "refresh" => x.token = token'
    BY TokensMove
  <1>2. UNCHANGED <<panel, undo, shown, setting>>
    BY TokensMove DEF page, bounds
  <1>3. Patient'
    BY <1>1, OneStays DEF Moved
  <1>4. CASE Inside
    <2>1. \A y \in jobs' : Head(y.todo) \notin Early
      BY <1>1, <1>4 DEF Outside, Moved
    <2>2. Inside'
      BY <1>2, <1>4 DEF Inside
    <2>3. QED
      BY <1>3, <2>1, <2>2 DEF Outside
  <1>5. CASE ~Inside
    <2>1. jobs' = {x}
      BY <1>1, <1>5, OutsideOne
    <2>2. Head(x.todo) \in Early /\ MeOK(x)'
      <3>1. Head(x.todo) \in Early
        BY <1>1, <1>5 DEF Outside, Moved
      <3>2. ~Done(x) /\ (x.stage = "out" /\ x.try # "refresh" => x.token = token')
        BY <1>1
      <3>3. QED
        BY <3>1, <3>2 DEF MeOK, Done
    <2>3. QED
      BY <1>2, <1>3, <1>5, <2>1, <2>2 DEF Outside, Inside, NoDefaults
  <1>6. QED
    BY <1>3, <1>4, <1>5

\* A function goes on or ends, and starts loads and the live loop.
LEMMA GoesPatient ==
    ASSUME Patient, NEW j \in jobs, DOMAIN j = JobFields, NEW H, \A x \in H : FnOK(x) /\ Helper(x),
           jobs' = (jobs \ {j}) \cup Rest(j) \cup H \/ jobs' = (jobs \ {j}) \cup H
    PROVE  Patient'
  <1>1. PICK K, R : K = jobs \ {j} /\ R = Rest(j)
    OBVIOUS
  <1>2. \A u, v \in R : u = v
    BY <1>1 DEF Rest
  <1>3. ASSUME NEW x \in R PROVE FnOK(x) /\ (Helper(x) \/ \A k \in K : Helper(k))
    <2>1. FnOK(x) /\ ~Helper(j)
      BY <1>1, RestStarts DEF Patient
    <2>2. \A k \in K : Helper(k)
      BY <1>1, <2>1 DEF Patient
    <2>3. QED
      BY <2>1, <2>2
  <1>4. K \subseteq jobs /\ jobs' \subseteq K \cup R \cup H
    BY <1>1
  <1>5. QED
    BY <1>2, <1>3, <1>4, PatientStays

LEMMA HelpersStart ==
    ASSUME TypeInv, Calm, NEW H,
           \A x \in H : (\E cs \in SUBSET Card : x \in Load(cs)) \/ x = Call("live", <<"wait">>)
    PROVE  \A x \in H : FnOK(x) /\ Helper(x) /\ Starts(x) /\ Head(x.todo) \in Looks
  <1>1. ASSUME NEW x \in H, NEW cs \in SUBSET Card, x \in Load(cs)
        PROVE  FnOK(x) /\ Helper(x) /\ Starts(x) /\ Head(x.todo) \in Looks
    BY <1>1, LoadStarts
  <1>2. ASSUME NEW x \in H, x = Call("live", <<"wait">>)
        PROVE  FnOK(x) /\ Helper(x) /\ Starts(x) /\ Head(x.todo) \in Looks
    BY <1>2, LiveStarts DEF Looks
  <1>3. QED
    BY <1>1, <1>2

\* While the parent is signed in, no function that begins or goes on is a sign-in.
LEMMA RestInside ==
    ASSUME NEW j, FnOK(j), DOMAIN j = JobFields, Head(j.todo) \notin Early, NEW x \in Rest(j)
    PROVE  Head(x.todo) \notin Early
  <1>1. x.todo = Tail(j.todo) /\ x.todo # <<>>
    BY RestStarts
  <1>2. PICK r : r = x.todo
    OBVIOUS
  <1>3. j.todo \in Rests /\ j.todo \notin FoundRest /\ r = Tail(j.todo) /\ r # <<>>
    BY <1>1, <1>2 DEF FnOK
  <1>4. Head(j.todo) \in {"select", "passkeyCreation", "create", "delete"}
    BY <1>3, Follows DEF Early, SignIns
  <1>5. Head(r) \in {"picker", "create", "children", "rules", "grants", "devices", "passkeys"}
    BY <1>3, <1>4, Follows
  <1>6. QED
    BY <1>2, <1>5 DEF Early, SignIns

LEMMA GoesInside ==
    ASSUME TypeInv, Calm, Patient, Outside, Inside, Inside', NEW j \in jobs,
           NEW H, \A x \in H : (\E cs \in SUBSET Card : x \in Load(cs)) \/ x = Call("live", <<"wait">>),
           jobs' = (jobs \ {j}) \cup Rest(j) \cup H \/ jobs' = (jobs \ {j}) \cup H
    PROVE  Patient' /\ Outside' /\ \A k \in jobs : k = j \/ k \in jobs'
  <1>1. FnOK(j) /\ DOMAIN j = JobFields /\ Head(j.todo) \notin Early
    BY JobFacts DEF Patient, Outside
  <1>2. \A x \in H : FnOK(x) /\ Helper(x) /\ Head(x.todo) \in Looks
    BY HelpersStart
  <1>3. Patient'
    BY <1>1, <1>2, GoesPatient
  <1>4. \A x \in Rest(j) : Head(x.todo) \notin Early
    BY <1>1, RestInside
  <1>5. \A x \in H : Head(x.todo) \notin Early
    BY <1>2 DEF Looks, Early, SignIns
  <1>6. \A x \in jobs' : Head(x.todo) \notin Early
    BY <1>4, <1>5 DEF Outside
  <1>7. QED
    BY <1>3, <1>6 DEF Outside

LEMMA MovedInside ==
    ASSUME Patient, Outside, Inside, Inside', NEW j \in jobs, NEW x, jobs' = (jobs \ {j}) \cup {x}, Moved(j, x)
    PROVE  Patient' /\ Outside' /\ \A k \in jobs : k = j \/ k \in jobs'
  <1>1. Patient'
    BY OneStays DEF Moved
  <1>2. \A y \in jobs' : Head(y.todo) \notin Early
    BY DEF Outside, Moved
  <1>3. QED
    BY <1>1, <1>2 DEF Outside

LEMMA FeedInside ==
    ASSUME TypeInv, Calm, Patient, Outside, Inside, NEW j \in jobs, UNCHANGED bounds,
           Waited(j) \/ BackOff(j) \/ PollAgain(j)
    PROVE  Patient' /\ Outside' /\ (\A k \in jobs : k = j \/ k \in jobs') /\ UNCHANGED panel
  <1>1. UNCHANGED panel
    BY DEF Waited, BackOff, PollAgain, page, auths
  <1>2. PICK x : jobs' = (jobs \ {j}) \cup {x} /\ Moved(j, x)
    <2>1. DOMAIN j = JobFields
      BY JobFacts
    <2>2. CASE BackOff(j)
      <3>1. PICK x : x = [j EXCEPT !.stage = "resting", !.status = "ok"] /\ jobs' = (jobs \ {j}) \cup {x}
        BY <2>2 DEF BackOff
      <3>2. Moved(j, x)
        BY <2>1, <3>1 DEF JobFields, Moved
      <3>3. QED
        BY <3>1, <3>2
    <2>3. CASE Waited(j) \/ PollAgain(j)
      <3>1. PICK x, t : t = j.todo /\ x = Sent(j, t) /\ jobs' = (jobs \ {j}) \cup {x}
        BY <2>3 DEF Waited, PollAgain
      <3>2. Out(x, t) /\ x.fn = j.fn /\ x.arg = j.arg
        BY <2>1, <3>1, SentFields
      <3>3. QED
        BY <3>1, <3>2 DEF Out, Moved
    <2>4. QED
      BY <2>2, <2>3
  <1>3. Inside'
    BY <1>1 DEF Inside
  <1>4. QED
    BY <1>1, <1>2, <1>3, MovedInside

\* What End and GoOn come to.
LEMMA EndGoes ==
    ASSUME NEW j, NEW H, End(j, H) \/ GoOn(j, H)
    PROVE  jobs' = (jobs \ {j}) \cup Rest(j) \cup H \/ jobs' = (jobs \ {j}) \cup H
  BY DEF End, GoOn

LEMMA AnswerInside ==
    ASSUME TypeInv, Calm, Patient, Outside, Inside, NEW j \in jobs, UNCHANGED bounds,
           \/ Selected(j) \/ Picked(j) \/ Changed(j) \/ Decided(j) \/ TakenBack(j) \/ Saved(j) \/ NotSaved(j)
           \/ NotDecided(j) \/ GaveUp(j) \/ Closed(j)
    PROVE  /\ Patient' /\ Outside' /\ \A k \in jobs : k = j \/ k \in jobs'
           /\ panel' = "closed" \/ UNCHANGED panel
  <1>1. panel' = "closed" \/ UNCHANGED panel
    <2>1. CASE GaveUp(j)
      <3>1. Head(j.todo) \in {"me", "create", "delete", "undo", "createFamily", "passkeyOptions",
                  "passkeyCreation", "enroll", "register", "forgot", "deleteMe"} \cup SignIns
        BY <2>1 DEF GaveUp, Failed, Settled
      <3>2. FnOK(j) /\ Head(j.todo) \notin Early
        BY DEF Patient, Outside
      <3>3. j.todo \notin EnterRest
        BY <3>1, <3>2, EnterRests DEF EnterHeads, Early
      <3>4. j.fn # "resume" /\ j.fn # "completeConfirmation"
        BY <3>2, <3>3 DEF FnOK
      <3>5. QED
        BY <2>1, <3>4 DEF GaveUp
    <2>2. CASE Closed(j)
      BY <2>2 DEF Closed
    <2>3. CASE Selected(j) \/ Picked(j) \/ Changed(j) \/ Decided(j) \/ TakenBack(j) \/ Saved(j) \/ NotSaved(j) \/ NotDecided(j)
      BY <2>3 DEF Selected, Picked, Changed, Decided, TakenBack, Saved, NotSaved, NotDecided, page, auths
    <2>4. QED
      BY <2>1, <2>2, <2>3
  <1>2. Inside'
    BY <1>1 DEF Inside
  <1>3. PICK H : /\ \A x \in H : (\E cs \in SUBSET Card : x \in Load(cs)) \/ x = Call("live", <<"wait">>)
                 /\ End(j, H) \/ GoOn(j, H)
    <2>1. CASE Picked(j) \/ Saved(j) \/ NotSaved(j) \/ NotDecided(j) \/ GaveUp(j) \/ Closed(j)
      <3>1. PICK H : H = {} /\ (End(j, H) \/ GoOn(j, H))
        BY <2>1 DEF Picked, Saved, NotSaved, NotDecided, GaveUp, Closed
      <3>2. QED
        BY <3>1
    <2>2. CASE Decided(j) \/ TakenBack(j)
      <3>1. PICK cs, H : cs = {"rules", "grants"} /\ H = Load(cs) /\ End(j, H)
        BY <2>2 DEF Decided, TakenBack
      <3>2. cs \in SUBSET Card
        BY <3>1 DEF Card
      <3>3. QED
        BY <3>1, <3>2
    <2>3. CASE Changed(j)
      <3>1. PICK cs, H : cs = {"grants"} /\ H = With(j) /\ GoOn(j, H)
        BY <2>3 DEF Changed
      <3>2. cs \in SUBSET Card
        BY <3>1 DEF Card
      <3>3. \A x \in H : x \in Load(cs)
        BY <3>1 DEF With
      <3>4. QED
        BY <3>1, <3>2, <3>3
    <2>4. CASE Selected(j)
      <3>1. PICK cs, C, H : /\ cs = Refreshed /\ C = (IF Watched THEN {} ELSE {Call("live", <<"wait">>)})
                            /\ H = Load(cs) \cup C /\ GoOn(j, H)
        BY <2>4 DEF Selected
      <3>2. cs \in SUBSET Card
        BY <3>1 DEF Card, Refreshed
      <3>3. QED
        BY <3>1, <3>2
    <2>5. QED
      BY <2>1, <2>2, <2>3, <2>4
  <1>4. jobs' = (jobs \ {j}) \cup Rest(j) \cup H \/ jobs' = (jobs \ {j}) \cup H
    BY <1>3, EndGoes
  <1>5. QED
    BY <1>1, <1>2, <1>3, <1>4, GoesInside

LEMMA LoadedInside ==
    ASSUME TypeInv, Calm, Patient, Outside, Inside, NEW j \in jobs, UNCHANGED bounds, CardLoaded(j)
    PROVE  /\ Patient' /\ Outside' /\ \A k \in jobs : k = j \/ k \in jobs' \/ k.fn = "saveDefault"
           /\ UNCHANGED panel
  <1>1. UNCHANGED panel
    BY DEF CardLoaded, auths
  <1>2. PICK S : S = jobs \ {j}
    OBVIOUS
  <1>3. jobs' = S \/ jobs' = Detached(S)
    BY <1>2 DEF CardLoaded
  <1>4. \A k \in S : DOMAIN k = JobFields
    BY <1>2, JobFacts
  <1>5. /\ \A y \in jobs' : \E k \in S : /\ y = (IF k.fn = "saveDefault" THEN y ELSE k)
                                         /\ y = k \/ y = [k EXCEPT !.known = -2]
                                         /\ k.fn = "saveDefault" => jobs' = S \/ y = [k EXCEPT !.known = -2]
        /\ \A k \in S : k \in jobs' \/ k.fn = "saveDefault"
    BY <1>3 DEF Detached
  <1>6. ASSUME NEW y \in jobs'
        PROVE  \E k \in S : Moved(k, y) /\ (k.fn # "saveDefault" => y = k)
    <2>1. PICK k \in S : /\ y = k \/ y = [k EXCEPT !.known = -2]
                         /\ k.fn # "saveDefault" => y = k
      BY <1>5
    <2>2. Moved(k, y)
      BY <1>4, <2>1 DEF Moved, JobFields
    <2>3. QED
      BY <2>1, <2>2
  <1>7. \A y \in jobs' : FnOK(y) /\ Head(y.todo) \notin Early
    BY <1>2, <1>6, SameFn DEF Moved, Patient, Outside
  <1>8. ASSUME NEW u \in jobs', NEW v \in jobs', ~Helper(u), ~Helper(v) PROVE u = v
    <2>1. PICK a \in S : Moved(a, u)
      BY <1>6
    <2>2. PICK b \in S : Moved(b, v)
      BY <1>6
    <2>3. ~Helper(a) /\ ~Helper(b)
      BY <1>8, <2>1, <2>2 DEF Moved, Helper
    <2>4. \A k \in S : ~Helper(k) => k = a
      BY <1>2, <2>3 DEF Patient
    <2>5. CASE jobs' = S
      BY <1>8, <2>4, <2>5
    <2>6. CASE jobs' = Detached(S)
      <3>1. PICK c \in S : u = IF c.fn = "saveDefault" THEN [c EXCEPT !.known = -2] ELSE c
        BY <2>6 DEF Detached
      <3>2. PICK d \in S : v = IF d.fn = "saveDefault" THEN [d EXCEPT !.known = -2] ELSE d
        BY <2>6 DEF Detached
      <3>3. u.fn = c.fn /\ v.fn = d.fn
        BY <1>4, <3>1, <3>2 DEF JobFields
      <3>4. c = a /\ d = a
        BY <1>8, <2>4, <3>3 DEF Helper
      <3>5. QED
        BY <3>1, <3>2, <3>4
    <2>7. QED
      BY <1>3, <2>5, <2>6
  <1>9. Patient' /\ Outside'
    BY <1>1, <1>7, <1>8 DEF Patient, Outside, Inside
  <1>10. QED
    BY <1>1, <1>2, <1>5, <1>9

\* What the functions that sign in ask first.
LEMMA EntryHeads ==
    /\ Head(afterLogin) = "me" /\ Head(login) = "login" /\ Head(reset) = "reset"
    /\ Head(completeConfirmation) = "verify" /\ Head(usePasskey) = "passkeyOptions"
  <1>1. ASSUME NEW p, NEW t, t = <<p>> \o <<"me", "select", "picker">> PROVE Head(t) = p
    BY <1>1, Front
  <1>2. ASSUME NEW t, t = <<"passkeyOptions", "passkeyLogin">> \o <<"me", "select", "picker">>
        PROVE  Head(t) = "passkeyOptions"
    <2>1. PICK S : S = {"passkeyOptions", "passkeyLogin", "me", "select", "picker"}
      OBVIOUS
    <2>2. <<"passkeyOptions", "passkeyLogin">> \in Seq(S) /\ <<"me", "select", "picker">> \in Seq(S)
      BY <2>1
    <2>3. t \in Seq(S) /\ Len(t) = 5 /\ t[1] = "passkeyOptions"
      BY <1>2, <2>2, ConcatProperties
    <2>4. QED
      BY <2>3
  <1>3. Head(<<"me", "select", "picker">>) = "me"
    OBVIOUS
  <1>4. QED
    BY <1>1, <1>2, <1>3 DEF afterLogin, login, reset, completeConfirmation, usePasskey

\* A page begins.
LEMMA NewPageOutside ==
    ASSUME TypeInv, UNCHANGED setting, NewPage, panel' \notin {"console", "closed"},
           \A x \in jobs' : FnOK(x) /\ Starts(x) /\ Head(x.todo) \in Early,
           \A x, y \in jobs' : x = y
    PROVE  Patient' /\ Outside'
  <1>1. Patient'
    BY DEF Patient
  <1>2. undo' = None /\ NoDefaults'
    BY DEF NewPage, NoCards, NoDefaults
  <1>3. \A x \in jobs' : MeOK(x)'
    BY DEF MeOK, Starts, Done
  <1>4. QED
    BY <1>1, <1>2, <1>3 DEF Outside, Inside

LEMMA EntersOK ==
    ASSUME NEW fn \in {"resume", "completeConfirmation"}, NEW todo \in EnterRest,
           Head(todo) \in {"me", "verify"}, NEW x, x = Call(fn, todo)
    PROVE  FnOK(x) /\ Starts(x) /\ Head(x.todo) \in Early
  <1>1. Out(x, todo) /\ x.fn = fn
    BY CallFields
  <1>2. todo \in Rests /\ todo \notin FoundRest
    BY EnterIsEnter
  <1>3. QED
    BY <1>1, <1>2 DEF FnOK, Out, Starts, Early, SignIns, Card

LEMMA ResumeOutside ==
    ASSUME TypeInv, UNCHANGED setting, resume
    PROVE  Patient' /\ Outside' /\ panel' \notin {"console", "closed"}
  <1>1. NewPage /\ panel' \in {"signin", "resuming"}
    BY DEF resume
  <1>2. afterLogin \in EnterRest /\ Head(afterLogin) = "me"
    BY Entries, EntryHeads
  <1>3. jobs' = {} \/ \E x : x = Call("resume", afterLogin) /\ jobs' = {x}
    BY DEF resume
  <1>4. /\ \A x \in jobs' : FnOK(x) /\ Starts(x) /\ Head(x.todo) \in Early
        /\ \A x, y \in jobs' : x = y
    BY <1>2, <1>3, EntersOK
  <1>5. QED
    BY <1>1, <1>4, NewPageOutside

LEMMA SignedOutOutside ==
    ASSUME TypeInv, NEW j \in jobs, UNCHANGED bounds, SignedOut(j)
    PROVE  Patient' /\ Outside' /\ panel' \notin {"console", "closed"}
  BY ResumeOutside DEF SignedOut, bounds

LEMMA DeliverInside ==
    ASSUME TypeInv, Calm, Patient, Outside, Inside, NEW j \in jobs, UNCHANGED bounds, Deliver(j)
    PROVE  /\ Patient' /\ Outside'
           /\ panel' = "console" => /\ UNCHANGED panel
                                    /\ \A k \in jobs : k = j \/ k \in jobs' \/ k.fn = "saveDefault"
  <1>1. ~SignedIn(j) /\ ~AfterMe(j)
    BY DEF SignedIn, AfterMe, Answered, Settled, Outside, Early
  <1>2. CASE RenewTokens(j) \/ Renewed(j)
    <2>1. UNCHANGED panel /\ \A k \in jobs : k = j \/ k \in jobs'
      BY <1>2, TokensMove DEF page
    <2>2. QED
      BY <1>2, <2>1, TokensPatient
  <1>3. CASE \/ Selected(j) \/ Picked(j) \/ Changed(j) \/ Decided(j) \/ TakenBack(j) \/ Saved(j) \/ NotSaved(j)
             \/ NotDecided(j) \/ GaveUp(j) \/ Closed(j)
    BY <1>3, AnswerInside
  <1>4. CASE CardLoaded(j)
    BY <1>4, LoadedInside
  <1>5. CASE Waited(j) \/ BackOff(j) \/ PollAgain(j)
    BY <1>5, FeedInside
  <1>6. CASE SignedOut(j)
    BY <1>6, SignedOutOutside
  <1>7. QED
    BY <1>1, <1>2, <1>3, <1>4, <1>5, <1>6 DEF Deliver

-----------------------------------------------------------------------------
(* Before the console is on screen. *)

LEMMA OutsideFacts ==
    ASSUME TypeInv, Patient, Outside, ~Inside, NEW j \in jobs
    PROVE  /\ jobs = {j} /\ FnOK(j) /\ DOMAIN j = JobFields /\ Head(j.todo) \in Early /\ MeOK(j)
           /\ undo = None /\ NoDefaults
  BY OutsideOne, JobFacts DEF Outside, Patient

\* At most one function goes on, and the console is not on screen yet.
LEMMA StaysOutside ==
    ASSUME UNCHANGED <<undo, shown, setting>>, undo = None, NoDefaults, panel' \notin {"console", "closed"},
           NEW R, jobs' = R, \A x, y \in R : x = y, \A x \in R : FnOK(x) /\ Head(x.todo) \in Early,
           \A x \in R : Head(x.todo) = "me" => Starts(x)
    PROVE  Patient' /\ Outside'
  <1>1. Patient'
    BY DEF Patient
  <1>2. \A x \in jobs' : MeOK(x)'
    BY DEF MeOK, Starts, Done
  <1>3. undo' = None /\ NoDefaults'
    BY DEF NoDefaults
  <1>4. QED
    BY <1>1, <1>2, <1>3 DEF Outside, Inside

LEMMA usePasskeyOK ==
    ASSUME NEW todo, todo = usePasskey, NEW x, x = Call("usePasskey", todo)
    PROVE  FnOK(x) /\ Head(x.todo) = "passkeyOptions"
  <1>1. Out(x, todo) /\ x.fn = "usePasskey"
    BY CallFields
  <1>2. todo \in Rests /\ todo \notin FoundRest
    BY Entries, EnterIsEnter
  <1>3. Head(todo) = "passkeyOptions"
    BY EntryHeads
  <1>4. QED
    BY <1>1, <1>2, <1>3 DEF FnOK, Out, Card

LEMMA SignedInOutside ==
    ASSUME TypeInv, Patient, Outside, ~Inside, NEW j \in jobs, UNCHANGED bounds, SignedIn(j)
    PROVE  Patient' /\ Outside' /\ panel' # "console"
  <1>1. Head(j.todo) \in SignIns /\ panel' \in {"passkey", "signin"}
    BY DEF SignedIn, Answered, Settled
  <1>2. UNCHANGED <<undo, shown, setting>>
    BY DEF SignedIn, asking, cards, bounds
  <1>3. jobs = {j} /\ FnOK(j) /\ DOMAIN j = JobFields /\ undo = None /\ NoDefaults
    BY OutsideFacts
  <1>4. CASE End(j, {Call("usePasskey", usePasskey)})
    <2>1. PICK todo, x, R : todo = usePasskey /\ x = Call("usePasskey", todo) /\ R = {x}
      OBVIOUS
    <2>2. jobs' = R
      BY <1>3, <1>4, <2>1 DEF End
    <2>3. FnOK(x) /\ Head(x.todo) = "passkeyOptions"
      BY <2>1, usePasskeyOK
    <2>4. /\ \A y, z \in R : y = z
          /\ \A y \in R : FnOK(y) /\ Head(y.todo) \in Early
          /\ \A y \in R : Head(y.todo) = "me" => Starts(y)
      BY <2>1, <2>3 DEF Early
    <2>5. QED
      BY <1>1, <1>2, <1>3, <2>2, <2>4, StaysOutside
  <1>5. CASE GoOn(j, {})
    <2>1. PICK R : R = Rest(j)
      OBVIOUS
    <2>2. jobs' = R
      BY <1>3, <1>5, <2>1 DEF GoOn
    <2>3. \A x, y \in R : x = y
      BY <2>1, RestOne
    <2>4. ASSUME NEW x \in R PROVE FnOK(x) /\ Head(x.todo) = "me" /\ Starts(x)
      <3>1. FnOK(x) /\ x.todo = Tail(j.todo) /\ (Head(x.todo) # "passkeyLogin" => Starts(x))
        BY <1>3, <2>1, RestStarts
      <3>2. Tail(j.todo) = <<"me", "select", "picker">> /\ Head(<<"me", "select", "picker">>) = "me"
        BY <1>1, <1>3, TailOf DEF FnOK
      <3>3. QED
        BY <3>1, <3>2
    <2>5. \A x \in R : Head(x.todo) \in Early
      BY <2>4 DEF Early
    <2>6. QED
      BY <1>1, <1>2, <1>3, <2>2, <2>3, <2>4, <2>5, StaysOutside
  <1>6. QED
    BY <1>4, <1>5 DEF SignedIn

LEMMA ChangedOutside ==
    ASSUME TypeInv, Patient, Outside, ~Inside, NEW j \in jobs, UNCHANGED bounds, Changed(j)
    PROVE  Patient' /\ Outside' /\ panel' # "console"
  <1>1. jobs = {j} /\ FnOK(j) /\ DOMAIN j = JobFields /\ undo = None /\ NoDefaults /\ Head(j.todo) \in Early
    BY OutsideFacts
  <1>2. Head(j.todo) \in {"passkeyOptions", "register", "forgot"}
    BY <1>1 DEF Changed, Answered, Settled, Early, SignIns
  <1>3. UNCHANGED <<undo, shown, setting, panel>>
    BY DEF Changed, page, bounds
  <1>4. panel' \notin {"console", "closed"}
    BY <1>3 DEF Inside
  <1>5. \/ Head(j.todo) = "passkeyOptions" /\ Tail(j.todo) = <<"passkeyLogin", "me", "select", "picker">>
        \/ Tail(j.todo) = <<>>
    BY <1>1, <1>2, TailOf DEF FnOK, SignIns
  <1>6. With(j) = {}
    <2>1. <<"passkeyLogin", "me", "select", "picker">> # <<"rules">> /\ <<>> # <<"rules">>
      OBVIOUS
    <2>2. Tail(j.todo) # <<"rules">>
      BY <1>5, <2>1
    <2>3. QED
      BY <2>2 DEF With
  <1>7. PICK R : R = Rest(j)
    OBVIOUS
  <1>8. jobs' = R
    BY <1>1, <1>6, <1>7 DEF Changed, GoOn
  <1>9. \A x, y \in R : x = y
    BY <1>7, RestOne
  <1>10. ASSUME NEW x \in R PROVE FnOK(x) /\ Head(x.todo) = "passkeyLogin"
    <2>1. FnOK(x) /\ x.todo = Tail(j.todo) /\ x.todo # <<>>
      BY <1>1, <1>7, RestStarts
    <2>2. Head(<<"passkeyLogin", "me", "select", "picker">>) = "passkeyLogin"
      OBVIOUS
    <2>3. QED
      BY <1>5, <2>1, <2>2
  <1>11. /\ \A x \in R : FnOK(x) /\ Head(x.todo) \in Early
         /\ \A x \in R : Head(x.todo) = "me" => Starts(x)
    BY <1>10 DEF Early, SignIns
  <1>12. QED
    BY <1>1, <1>3, <1>4, <1>8, <1>9, <1>11, StaysOutside

LEMMA GaveUpOutside ==
    ASSUME TypeInv, Patient, Outside, ~Inside, NEW j \in jobs, UNCHANGED bounds, GaveUp(j)
    PROVE  Patient' /\ Outside' /\ panel' # "console"
  <1>1. jobs = {j} /\ undo = None /\ NoDefaults
    BY OutsideFacts
  <1>2. UNCHANGED <<undo, shown, setting>> /\ panel' \in {panel, "trouble", "signin"}
    BY DEF GaveUp, asking, cards, bounds
  <1>3. panel' \notin {"console", "closed"}
    BY <1>2 DEF Inside
  <1>4. PICK R : R = {} /\ jobs' = R
    BY <1>1 DEF GaveUp, End
  <1>5. (\A x, y \in R : x = y) /\ \A x \in R : FnOK(x) /\ Head(x.todo) \in Early /\ (Head(x.todo) = "me" => Starts(x))
    BY <1>4
  <1>6. QED
    BY <1>1, <1>2, <1>3, <1>4, <1>5, StaysOutside

\* The console comes on screen: what it is about to show is loaded.
LEMMA AfterMeEnters ==
    ASSUME TypeInv, Calm, Patient, Outside, ~Inside, NEW j \in jobs, UNCHANGED bounds, AfterMe(j)
    PROVE  Patient' /\ Outside' /\ SteadyOK'
  <1>1. jobs = {j} /\ FnOK(j) /\ DOMAIN j = JobFields /\ MeOK(j) /\ undo = None /\ NoDefaults
    BY OutsideFacts
  <1>2. Head(j.todo) = "me" /\ Valid(token)
    BY <1>1 DEF AfterMe, Answered, Settled, MeOK, Done
  <1>3. UNCHANGED <<open, era, token, setting, shown>> /\ panel' = "console"
    BY DEF AfterMe, server, cards, bounds
  <1>4. Valid(token)'
    BY <1>2, <1>3 DEF Valid
  <1>5. PICK cs, H, R : cs = {"passkeys"} /\ H = Load(cs) /\ R = Rest(j)
    OBVIOUS
  <1>6. cs \in SUBSET Card
    BY <1>5 DEF Card
  <1>7. /\ \A x \in H : FnOK(x) /\ Starts(x) /\ Helper(x) /\ Head(x.todo) \in Looks
        /\ \A c \in cs \cap setting.cards : \E x \in H : Head(x.todo) = c
    BY <1>5, <1>6, LoadStarts
  <1>8. jobs' = (jobs \ {j}) \cup Rest(j) \cup H \/ (family' = None /\ jobs' = (jobs \ {j}) \cup H)
    BY <1>5 DEF AfterMe, GoOn, End
  <1>9. Patient'
    BY <1>1, <1>7, <1>8, GoesPatient
  <1>10. Tail(j.todo) = <<"select", "picker">> /\ Head(<<"select", "picker">>) = "select" /\ <<"select", "picker">> # <<>>
    BY <1>1, <1>2, TailOf DEF FnOK, SignIns
  <1>11. ASSUME NEW x \in R PROVE FnOK(x) /\ Starts(x) /\ Head(x.todo) = "select"
    <2>1. FnOK(x) /\ x.todo = Tail(j.todo) /\ (Head(x.todo) # "passkeyLogin" => Starts(x))
      BY <1>1, <1>5, <1>11, RestStarts
    <2>2. QED
      BY <1>10, <2>1
  <1>12. ASSUME NEW x \in jobs' PROVE Starts(x) /\ Head(x.todo) \in Looks
    <2>1. x \in R \cup H
      BY <1>1, <1>5, <1>8
    <2>2. QED
      BY <1>7, <1>11, <2>1 DEF Looks
  <1>13. Outside'
    BY <1>3, <1>12 DEF Outside, Inside, Looks, Early, SignIns
  <1>14. \A x \in jobs' : Alive(x)' /\ LoadOK(x)' /\ Alone(x)' /\ PutOK(x)'
    BY <1>12 DEF Starts, Alive, LoadOK, Alone, PutOK, Looks
  <1>15. AllCovered'
    <2> SUFFICES ASSUME NEW c \in setting.cards, family' # None \/ c = "passkeys"
                 PROVE  Covered(c)'
      BY <1>3 DEF AllCovered
    <2>1. CASE c = "passkeys"
      <3>1. PICK x \in H : Head(x.todo) = c
        BY <1>5, <1>7, <2>1
      <3>2. x \in jobs' /\ Mends(x, c)
        BY <1>8, <3>1 DEF Mends
      <3>3. QED
        BY <3>2 DEF Covered
    <2>2. CASE c # "passkeys"
      <3>1. PICK x : x \in R
        BY <1>5, <1>10 DEF Rest
      <3>2. Head(x.todo) = "select"
        BY <1>11, <3>1
      <3>3. x \in jobs'
        BY <1>5, <1>8, <2>2, <3>1
      <3>4. Mends(x, c)
        BY <2>2, <3>2 DEF Mends
      <3>5. QED
        BY <3>3, <3>4 DEF Covered
    <2>3. QED
      BY <2>1, <2>2
  <1>16. NoDefaults'
    BY <1>1, <1>3 DEF NoDefaults
  <1>17. QED
    BY <1>4, <1>9, <1>13, <1>14, <1>15, <1>16 DEF SteadyOK

LEMMA DeliverOutside ==
    ASSUME TypeInv, Calm, Patient, Outside, ~Inside, NEW j \in jobs, UNCHANGED bounds, Deliver(j)
    PROVE  Patient' /\ Outside' /\ (panel' = "console" => SteadyOK')
  <1>1. Head(j.todo) \in Early /\ Head(j.todo) # "wait"
    BY OutsideFacts DEF Early, SignIns
  <1>2. ~(\/ Selected(j) \/ Picked(j) \/ CardLoaded(j) \/ Decided(j) \/ TakenBack(j) \/ Saved(j) \/ NotSaved(j)
          \/ NotDecided(j) \/ SignedOut(j) \/ Closed(j) \/ Waited(j) \/ BackOff(j) \/ PollAgain(j))
    <2>1. Head(<<"wait">>) = "wait"
      OBVIOUS
    <2>2. ~(Selected(j) \/ Picked(j) \/ CardLoaded(j) \/ SignedOut(j) \/ Waited(j))
      BY <1>1 DEF Selected, Picked, CardLoaded, SignedOut, Waited, Settled, Early, SignIns, Card
    <2>3. ~(Decided(j) \/ TakenBack(j) \/ Saved(j) \/ Closed(j))
      BY <1>1 DEF Decided, TakenBack, Saved, Closed, Answered, Settled, Early, SignIns
    <2>4. ~(NotSaved(j) \/ NotDecided(j) \/ BackOff(j) \/ PollAgain(j))
      BY <1>1, <2>1 DEF NotSaved, NotDecided, BackOff, PollAgain, Failed, Settled, At, Early, SignIns
    <2>5. QED
      BY <2>2, <2>3, <2>4
  <1>3. CASE RenewTokens(j) \/ Renewed(j)
    BY <1>3, TokensPatient, TokensMove DEF page, Inside
  <1>4. QED
    BY <1>2, <1>3, SignedInOutside, ChangedOutside, GaveUpOutside, AfterMeEnters DEF Deliver

-----------------------------------------------------------------------------
(* The parent taps. *)

LEMMA TapsAlone ==
    ASSUME TypeInv, Calm, Patient, Outside, ~Inside, NEW what, Tap(what)
    PROVE  jobs = {} /\ undo = None /\ NoDefaults /\ UNCHANGED setting
  <1>1. (\A k \in jobs : k.fn = "live") /\ UNCHANGED setting
    BY TapsLive
  <1>2. \A k \in jobs : Head(k.todo) = "wait" /\ Head(k.todo) \in Early
    BY <1>1, LiveLooks DEF Patient, Outside
  <1>3. QED
    BY <1>1, <1>2 DEF Outside, Early, SignIns

LEMMA authTaken ==
    ASSUME TypeInv, Calm, Patient, Outside, auth \/ Forgot \/ TryPasskey \/ Reset
    PROVE  Taken
  <1>1. PICK what, fn, todo : /\ Tap(what) /\ UNCHANGED <<storage, page>> /\ Start(fn, todo, None)
                              /\ fn \in {"login", "register", "forgot", "usePasskey", "reset"}
                              /\ todo \in {login, <<"register">>, <<"forgot">>, usePasskey, reset}
    BY DEF auth, Forgot, TryPasskey, Reset, register, forgot
  <1>2. panel \in {"signin", "passkey", "reset"}
    BY DEF auth, Forgot, TryPasskey, Reset
  <1>3. jobs = {} /\ undo = None /\ NoDefaults /\ UNCHANGED setting
    BY <1>1, <1>2, TapsAlone DEF Inside
  <1>4. /\ todo \in Rests /\ todo \notin FoundRest
        /\ Head(todo) \in {"login", "register", "forgot", "passkeyOptions", "reset"}
    <2>1. CASE todo \in {login, usePasskey, reset}
      BY <2>1, Entries, EntryHeads, EnterIsEnter
    <2>2. CASE todo \in {<<"register">>, <<"forgot">>}
      <3>1. Head(<<"register">>) = "register" /\ Head(<<"forgot">>) = "forgot"
        OBVIOUS
      <3>2. todo \in Rests
        BY <2>2 DEF Rests, SingleRest
      <3>3. Head(todo) \in {"register", "forgot"}
        BY <2>2, <3>1
      <3>4. QED
        BY <3>2, <3>3, RestHeads DEF FoundHeads
    <2>3. QED
      BY <1>1, <2>1, <2>2
  <1>5. PICK x : jobs' = jobs \cup {x} /\ FnOK(x) /\ x.todo = todo
    BY <1>1, <1>4, StartOK DEF Card
  <1>6. UNCHANGED <<undo, shown, panel>>
    BY <1>1 DEF page
  <1>7. PICK R : R = {x}
    OBVIOUS
  <1>8. jobs' = R
    BY <1>3, <1>5, <1>7
  <1>9. /\ \A y, z \in R : y = z
        /\ \A y \in R : FnOK(y) /\ Head(y.todo) \in Early
        /\ \A y \in R : Head(y.todo) = "me" => Starts(y)
    BY <1>4, <1>5, <1>7 DEF Early, SignIns
  <1>10. Patient' /\ Outside'
    BY <1>2, <1>3, <1>6, <1>8, <1>9, StaysOutside
  <1>11. QED
    BY <1>2, <1>6, <1>10 DEF Taken, Steady

LEMMA cancelTaken ==
    ASSUME TypeInv, Calm, Patient, Outside, endPasskeyStep
    PROVE  Taken
  <1>1. /\ panel = "passkey" /\ panel' = "signin" /\ Tap("cancel") /\ UNCHANGED <<undo, shown, jobs>>
    BY DEF endPasskeyStep, cards, asking
  <1>2. jobs = {} /\ undo = None /\ NoDefaults /\ UNCHANGED setting
    BY <1>1, TapsAlone DEF Inside
  <1>3. PICK R : R = {} /\ jobs' = R
    BY <1>1, <1>2
  <1>4. (\A y, z \in R : y = z) /\ \A y \in R : FnOK(y) /\ Head(y.todo) \in Early /\ (Head(y.todo) = "me" => Starts(y))
    BY <1>3
  <1>5. Patient' /\ Outside'
    BY <1>1, <1>2, <1>3, <1>4, StaysOutside
  <1>6. QED
    BY <1>1, <1>5 DEF Taken, Steady

LEMMA linkTaken ==
    ASSUME TypeInv, Calm, OpenLink
    PROVE  Taken
  <1>1. NewPage /\ panel' \in {"resuming", "reset"} /\ Tap("link")
    BY DEF OpenLink
  <1>2. UNCHANGED setting
    BY <1>1, TapsLive
  <1>3. jobs' = {} \/ \E x : x = Call("completeConfirmation", completeConfirmation) /\ jobs' = {x}
    BY DEF OpenLink
  <1>4. /\ \A x \in jobs' : FnOK(x) /\ Starts(x) /\ Head(x.todo) \in Early
        /\ \A x, y \in jobs' : x = y
    BY <1>3, Entries, EntryHeads, EntersOK
  <1>5. Patient' /\ Outside'
    BY <1>1, <1>2, <1>4, NewPageOutside
  <1>6. QED
    BY <1>1, <1>5 DEF Taken, Steady

LEMMA resumeTaken ==
    ASSUME TypeInv, UNCHANGED setting, resume
    PROVE  Taken
  BY ResumeOutside DEF Taken, Steady

LEMMA ParentTaken ==
    ASSUME TypeInv, Calm, Patient, Outside, Steady => SteadyOK, Parent
    PROVE  Taken
  <1>1. CASE auth \/ Forgot \/ TryPasskey \/ Reset
    BY <1>1, authTaken
  <1>2. CASE endPasskeyStep
    BY <1>2, cancelTaken
  <1>3. CASE OpenLink
    BY <1>3, linkTaken
  <1>4. CASE TryAgain
    BY <1>4, resumeTaken, TapsLive DEF TryAgain
  <1>5. CASE undoTapped
    BY <1>5, undoTaken DEF undoTapped, Outside
  <1>6. CASE selectFamilyTapped \/ Submit \/ Remove \/ saveDefaultTapped \/ decide
    <2>1. panel = "console" /\ \E what : Tap(what)
      BY <1>6 DEF selectFamilyTapped, Submit, Remove, saveDefaultTapped, decide
    <2>2. \A k \in jobs : k.fn = "live"
      BY <2>1, TapsLive
    <2>3. ~Leaving
      BY <2>2, LiveLooks DEF Leaving, Leaves, Patient
    <2>4. Now
      BY <2>1, <2>3 DEF Now, Steady
    <2>5. QED
      BY <1>6, <2>4, selectTaken, SubmitTaken, RemoveTaken, saveDefaultTaken, decideTaken
  <1>7. QED
    BY <1>1, <1>2, <1>3, <1>4, <1>5, <1>6 DEF Parent

-----------------------------------------------------------------------------
(* Every step. *)

\* One who is about to be told that the session has ended still is.
LEMMA LeaversStay ==
    ASSUME Patient, NEW j, \A k \in jobs : k = j \/ k \in jobs' \/ k.fn \in {"live", "saveDefault"},
           ~Leaving', UNCHANGED panel, panel = "console"
    PROVE  Steady \/ (j \in jobs /\ Leaves(j))
  <1>1. ASSUME NEW k \in jobs, Leaves(k) PROVE k = j
    <2>1. k.fn \notin {"live", "saveDefault"}
      BY <1>1 DEF Patient, FnOK, Leaves
    <2>2. k \in jobs' => Leaving'
      BY <1>1 DEF Leaving, Leaves
    <2>3. QED
      BY <1>1, <2>1, <2>2
  <1>2. QED
    BY <1>1 DEF Steady, Leaving

LEMMA HandleTaken ==
    ASSUME TypeInv, Calm, Patient, Outside, Steady => SteadyOK, NEW j \in jobs,
           UNCHANGED <<storage, page, bounds>>, Handle(j)
    PROVE  Taken
  <1>1. UNCHANGED setting /\ UNCHANGED panel
    BY DEF bounds, page
  <1>2. Patient' /\ Outside' /\ \A k \in jobs : k = j \/ k \in jobs' \/ k.fn = "live"
    BY <1>1, AllHandled, HandlePatient
  <1>3. ASSUME Steady' PROVE SteadyOK'
    <2>1. j.stage # "back"
      BY DEF Handle, Refuse, HandleRefresh, HandleSignIn, HandleMail, HandleOptions, HandleMe, HandleList, HandleCreate,
             HandleCreateFamily, HandleDelete, HandleDecide, HandlePut, HandleLogout, ListPending, Compare, ListAgain,
             TimeOut, Asking, Authorized, At
    <2>2. Steady
      BY <1>1, <1>2, <1>3, <2>1, LeaversStay DEF Steady, Leaves
    <2>3. Now
      BY <2>2 DEF Now
    <2>4. QED
      BY <1>3, <2>3, HandleNow DEF Steady
  <1>4. QED
    BY <1>2, <1>3 DEF Taken

LEMMA LeaverLeaves ==
    ASSUME NEW j, Leaves(j), Deliver(j)
    PROVE  SignedOut(j) \/ Closed(j)
  <1>1. ~RenewTokens(j) /\ ~Renewed(j)
    BY DEF RenewTokens, Renewed, Renews, Leaves
  <1>2. ~(SignedIn(j) \/ AfterMe(j) \/ Selected(j) \/ Picked(j) \/ CardLoaded(j))
    BY DEF SignedIn, AfterMe, Selected, Picked, CardLoaded, Answered, Settled, Leaves, SignIns, Card
  <1>3. ~(Changed(j) \/ Decided(j) \/ TakenBack(j) \/ Saved(j))
    BY DEF Changed, Decided, TakenBack, Saved, Answered, Settled, Leaves
  <1>4. ~(NotSaved(j) \/ NotDecided(j) \/ GaveUp(j) \/ BackOff(j))
    BY DEF NotSaved, NotDecided, GaveUp, BackOff, Failed, Leaves
  <1>5. ~(Waited(j) \/ PollAgain(j))
    BY DEF Waited, PollAgain, Settled, At, Leaves
  <1>6. QED
    BY <1>1, <1>2, <1>3, <1>4, <1>5 DEF Deliver

LEMMA DeliverTaken ==
    ASSUME TypeInv, Calm, Patient, Outside, Steady => SteadyOK, NEW j \in jobs, UNCHANGED bounds, Deliver(j)
    PROVE  Taken
  <1>1. CASE Inside
    <2>1. /\ Patient' /\ Outside'
          /\ panel' = "console" => /\ UNCHANGED panel
                                   /\ \A k \in jobs : k = j \/ k \in jobs' \/ k.fn = "saveDefault"
      BY <1>1, DeliverInside
    <2>2. ASSUME Steady' PROVE SteadyOK'
      <3>1. panel' = "console" /\ ~Leaving' /\ panel = "console"
        BY <2>1, <2>2 DEF Steady
      <3>2. ~Leaves(j)
        BY <3>1, LeaverLeaves, LeftNow
      <3>3. Steady
        BY <2>1, <3>1, <3>2, LeaversStay
      <3>4. Now
        BY <3>3 DEF Now
      <3>5. QED
        BY <3>1, <3>4, DeliverNow
    <2>3. QED
      BY <2>1, <2>2 DEF Taken
  <1>2. CASE ~Inside
    BY <1>2, DeliverOutside DEF Taken, Steady
  <1>3. QED
    BY <1>1, <1>2

LEMMA AskTaken ==
    ASSUME TypeInv, Calm, Patient, Outside, Steady => SteadyOK, FileAsk
    PROVE  Taken
  <1>1. PICK i \in setting.asks : rows' = rows \cup {i} /\ jobs' = Woken(jobs, i.family)
    BY DEF FileAsk
  <1>2. UNCHANGED <<open, era, token, family, setting, picked, row, shown, panel, undo>>
    BY DEF FileAsk, storage, page, bounds
  <1>3. PICK f : f = i.family /\ jobs' = Woken(jobs, f)
    BY <1>1
  <1>4. /\ \A y \in jobs' : y \in jobs \/ \E k \in jobs : Feeds(y) /\ Same(k, y) /\ y.stage = "woken" /\ y.status = k.status
        /\ \A k \in jobs : k \in jobs' \/ (k.fn = "live" /\ k.stage = "parked")
    BY <1>3, WokenFeeds
  <1>5. Patient'
    <2>1. PICK K, R, H : K = jobs /\ R = {} /\ H = jobs' \ jobs
      OBVIOUS
    <2>2. /\ K \subseteq jobs /\ jobs' \subseteq K \cup R \cup H /\ \A u, v \in R : u = v
          /\ \A x \in R : FnOK(x) /\ (Helper(x) \/ \A k \in K : Helper(k))
          /\ \A x \in H : FnOK(x) /\ Helper(x)
      BY <1>4, <2>1 DEF Feeds, Helper
    <2>3. QED
      BY <2>2, PatientStays
  <1>6. Outside'
    <2>1. CASE Inside
      <3>1. \A y \in jobs' : Head(y.todo) \notin Early
        BY <1>4, <2>1 DEF Outside, Feeds, FnOK, Early, SignIns
      <3>2. QED
        BY <1>2, <2>1, <3>1 DEF Outside, Inside
    <2>2. CASE ~Inside
      <3>1. \A y \in jobs' : y \in jobs
        BY <1>4, <2>2 DEF Outside, Feeds, FnOK, Early, SignIns, Same
      <3>2. \A y \in jobs' : Head(y.todo) \in Early /\ MeOK(y)
        BY <2>2, <3>1 DEF Outside
      <3>3. \A y \in jobs' : MeOK(y)'
        BY <1>2, <3>2 DEF MeOK, Done, Valid
      <3>4. undo' = None /\ NoDefaults' /\ ~Inside'
        BY <1>2, <2>2 DEF Outside, NoDefaults, Inside
      <3>5. QED
        BY <3>2, <3>3, <3>4 DEF Outside
    <2>3. QED
      BY <2>1, <2>2
  <1>7. ASSUME Steady' PROVE SteadyOK'
    <2>1. \A k \in jobs : k \in jobs' \/ k.fn = "live"
      BY <1>4
    <2>2. Steady
      <3>1. ASSUME NEW k \in jobs, Leaves(k) PROVE Leaving'
        <4>1. k.fn # "live"
          BY <3>1 DEF Patient, FnOK, Leaves
        <4>2. QED
          BY <2>1, <3>1, <4>1 DEF Leaving, Leaves
      <3>2. QED
        BY <1>2, <1>7, <3>1 DEF Steady, Leaving
    <2>3. Now
      BY <2>2 DEF Now
    <2>4. \A y \in jobs' : y \in jobs \/ (Feeds(y) /\ Alive(y))
      BY <1>4, <2>3 DEF Now, SteadyOK, Alive, Same
    <2>5. i.card = "asks"
      BY CalmSteps
    <2>6. \A c \in Card \ {"asks"} : ListOf(c, family)' = ListOf(c, family)
      BY <1>1, <1>2, <2>5 DEF ListOf
    <2>7. QED
      BY <1>2, <2>1, <2>3, <2>4, <2>6, LiveMoves
  <1>8. QED
    BY <1>5, <1>6, <1>7 DEF Taken

LEMMA SettingStays ==
    ASSUME [Next]_vars
    PROVE  UNCHANGED setting
  <1>1. CASE UNCHANGED vars
    BY <1>1 DEF vars, bounds
  <1>2. CASE Parent
    BY <1>2 DEF Parent, auth, Forgot, TryPasskey, endPasskeyStep, OpenLink, Reset, TryAgain, selectFamilyTapped,
                Submit, Remove, saveDefaultTapped, decide, undoTapped, Tap
  <1>3. CASE \E j \in jobs : Step(j) \/ Mishap(j)
    BY <1>3 DEF Step, Mishap, bounds
  <1>4. CASE OpenPage \/ FileAsk \/ OtherDecides \/ EndSession \/ ExpireTokens
    BY <1>4 DEF OpenPage, FileAsk, OtherDecides, EndSession, ExpireTokens, bounds
  <1>5. QED
    BY <1>1, <1>2, <1>3, <1>4 DEF Next

LEMMA StutterTaken ==
    ASSUME Patient, Outside, Steady => SteadyOK, UNCHANGED vars
    PROVE  Taken
  <1>1. /\ UNCHANGED <<rows, open, era, token, family, panel, undo, shown, picked, row, jobs, setting>>
    BY DEF vars, server, storage, page, bounds
  <1>2. Patient'
    BY <1>1 DEF Patient
  <1>3. \A c : ListOf(c, family)' = ListOf(c, family)
    BY <1>1 DEF ListOf
  <1>4. \A j \in jobs : MeOK(j) => MeOK(j)'
    BY <1>1 DEF MeOK, Done, Valid
  <1>5. Outside'
    BY <1>1, <1>4 DEF Outside, Inside, NoDefaults
  <1>6. ASSUME Steady' PROVE SteadyOK'
    <2>1. SteadyOK
      BY <1>1, <1>6 DEF Steady, Leaving
    <2>2. \A c : Tells(c) => Tells(c)'
      BY <1>1, <1>3 DEF Tells
    <2>3. AllCovered'
      BY <1>1, <2>1, <2>2 DEF SteadyOK, AllCovered, Covered
    <2>4. \A j \in jobs : LoadOK(j)'
      BY <1>1, <1>3, <2>1 DEF SteadyOK, LoadOK
    <2>5. \A j \in jobs : Alive(j)' /\ Alone(j)'
      BY <1>1, <2>1 DEF SteadyOK, Alive, Alone
    <2>6. \A j \in jobs : PutOK(j)'
      BY <1>1, <1>3, <2>1 DEF SteadyOK, PutOK
    <2>7. Valid(token)' /\ (family = None => NoDefaults)'
      BY <1>1, <2>1 DEF SteadyOK, Valid, NoDefaults
    <2>8. QED
      BY <1>1, <2>3, <2>4, <2>5, <2>6, <2>7 DEF SteadyOK
  <1>7. QED
    BY <1>2, <1>5, <1>6 DEF Taken

LEMMA ShownStep ==
    ASSUME TypeInv, ShownInv, [Next]_vars
    PROVE  ShownInv'
  <1> SUFFICES ASSUME Calm' PROVE Taken
    BY DEF ShownInv, Taken
  <1>1. Calm
    BY SettingStays DEF Calm
  <1>2. Patient /\ Outside /\ (Steady => SteadyOK)
    BY <1>1 DEF ShownInv
  <1>3. CASE UNCHANGED vars
    BY <1>2, <1>3, StutterTaken
  <1>4. CASE \E j \in jobs : Step(j)
    BY <1>1, <1>2, <1>4, HandleTaken, DeliverTaken DEF Step
  <1>5. CASE Parent
    BY <1>1, <1>2, <1>5, ParentTaken
  <1>6. CASE FileAsk
    BY <1>1, <1>2, <1>6, AskTaken
  <1>7. CASE OpenPage
    BY <1>7, SettingStays, resumeTaken DEF OpenPage
  <1>8. CASE (\E j \in jobs : Mishap(j)) \/ OtherDecides \/ EndSession \/ ExpireTokens
    BY <1>1, <1>8, CalmSteps
  <1>9. QED
    BY <1>3, <1>4, <1>5, <1>6, <1>7, <1>8 DEF Next

LEMMA ShownInit == Init => ShownInv
  <1> SUFFICES ASSUME Init PROVE Patient /\ Outside /\ ~Steady
    BY DEF ShownInv
  <1>1. jobs = {} /\ panel = "opening" /\ undo = None /\ shown = NoCards
    BY DEF Init
  <1>2. NoDefaults
    BY <1>1 DEF NoDefaults, NoCards
  <1>3. QED
    BY <1>1, <1>2 DEF Patient, Outside, Inside, Steady

LEMMA ShownGives ==
    ASSUME TypeInv, ShownInv
    PROVE  ShownIsTrue
  <1> SUFFICES ASSUME Quiet
               PROVE  /\ \A c \in setting.cards :
                           /\ c \in {"passkeys", "defaults"} \/ shown[c].of = family
                           /\ c = "defaults" \/ shown[c].items = ListOf(c, family)
                      /\ "defaults" \in setting.cards => picked = ListOf("defaults", family) /\ row = picked
    BY DEF ShownIsTrue
  <1>1. Calm /\ panel = "console" /\ family # None /\ \A j \in jobs : j.fn = "live"
    BY DEF Quiet, Calm
  <1>2. Patient /\ Outside /\ (Steady => SteadyOK)
    BY <1>1 DEF ShownInv
  <1>3. ~Leaving
    BY <1>1, <1>2, LiveLooks DEF Leaving, Leaves, Patient
  <1>4. Now
    BY <1>1, <1>2, <1>3 DEF Now, Steady
  <1>5. \A c \in setting.cards : Tells(c)
    BY <1>1, <1>4, AllTold
  <1>6. QED
    BY <1>5 DEF Tells

\* What a parent sees who waits for each change to finish, alone and with nothing going wrong,
\* is what the server has, for any number of families, rows and taps (app.js, selectFamily,
\* saveDefault, the refresh functions).
THEOREM WhatIsShownIsTrue == Spec => []ShownIsTrue
  <1>1. Init => TypeInv /\ ShownInv
    BY ShownInit, InitTypes
  <1>2. TypeInv /\ ShownInv /\ [Next]_vars => TypeInv' /\ ShownInv'
    BY ShownStep, NextTypes
  <1>3. TypeInv /\ ShownInv => ShownIsTrue
    BY ShownGives
  <1>4. QED
    BY <1>1, <1>2, <1>3, PTL DEF Spec
=============================================================================
