---------------------------- MODULE MCParentConsole ----------------------------
(***************************************************************************)
(* The console in the situations it meets: a signed-in parent who watches  *)
(* and answers asks while others do too, one who manages two families card *)
(* by card, one who taps without waiting, and one who is not signed in.    *)
(***************************************************************************)
EXTENDS ParentConsole

CONSTANTS f1, f2

MCId == {"c1", "c2", "a1", "a2", "r1", "g1", "e1", "e2", "d1", "p1", "n1", "n2", "n3"}
MCField == {"e1", "e2"}

Row(card, f, id) == [card |-> card, family |-> f, id |-> id]

Kids == {Row("children", f1, "c1"), Row("children", f2, "c2")}
Kid  == {Row("children", f1, "c1")}
Ask  == {Row("asks", f1, "a1")}
Late == {Row("asks", f1, "a2")}

Plain == [taps |-> {}, limit |-> 0, patient |-> FALSE, others |-> {}, mishaps |-> 0,
          eras |-> 0, passkey |-> FALSE, cards |-> {}, rows |-> Kid, asks |-> {},
          signedIn |-> TRUE]

\* Asks come and go, a request is lost, tokens run out, the session may be revoked.
Watch == {
    [Plain EXCEPT !.others = {"decide"}, !.mishaps = 1, !.eras = 1, !.rows = Kid \cup Ask, !.asks = Late],
    [Plain EXCEPT !.others = {"decide", "revoke"}, !.eras = 1, !.mishaps = 1, !.asks = Late],
    [Plain EXCEPT !.taps = {"family"}, !.limit = 1, !.rows = Kids \cup Ask, !.asks = Late,
                  !.others = {"decide"}],
    [Plain EXCEPT !.taps = {"decide"}, !.limit = 1, !.mishaps = 1, !.rows = Kid \cup Ask, !.asks = Late]}

\* One thing after another, on cards that have something to take away.
Manage == {
    [Plain EXCEPT !.patient = TRUE, !.taps = {"family", "remove", "addRule", "decide", "undo"},
        !.limit = 3, !.cards = {"rules", "grants"},
        !.rows = Kids \cup Ask \cup {Row("rules", f1, "r1"), Row("grants", f1, "g1")}],
    [Plain EXCEPT !.patient = TRUE, !.taps = {"family", "default"},
        !.limit = 3, !.cards = {"defaults"}, !.rows = Kids \cup {Row("defaults", f1, "e1")}],
    [Plain EXCEPT !.patient = TRUE, !.taps = {"addChild", "enrollDevice", "remove", "addPasskey"},
        !.limit = 3, !.cards = {"devices", "passkeys"},
        !.rows = Kid \cup {Row("devices", f1, "d1"), Row("passkeys", None, "p1")}]}

\* Taps that do not wait, and a request that is lost, refused or sent again.
Hurry == {
    [Plain EXCEPT !.taps = {"addRule"}, !.limit = 1, !.mishaps = 1, !.eras = 1],
    [Plain EXCEPT !.taps = {"addRule", "signout"}, !.limit = 2, !.mishaps = 1],
    [Plain EXCEPT !.taps = {"decide", "undo"}, !.limit = 2, !.mishaps = 1, !.eras = 1,
                  !.rows = Kid \cup Ask],
    [Plain EXCEPT !.taps = {"closeAccount", "again"}, !.limit = 1, !.mishaps = 1, !.eras = 1],
    [Plain EXCEPT !.taps = {"default"}, !.limit = 2, !.mishaps = 1,
                  !.cards = {"defaults"}, !.rows = Kid \cup {Row("defaults", f1, "e1")}]}

Enter == {
    [Plain EXCEPT !.signedIn = FALSE, !.mishaps = 1, !.limit = 3,
                  !.taps = {"login", "register", "forgot", "link", "reset", "again"}],
    [Plain EXCEPT !.signedIn = FALSE, !.passkey = TRUE, !.eras = 1, !.limit = 2,
                  !.taps = {"login", "passkey", "cancel"}],
    [Plain EXCEPT !.signedIn = FALSE, !.rows = {}, !.limit = 2, !.taps = {"login", "createFamily"}]}

MCSettings == Watch \cup Manage \cup Hurry \cup Enter

\* A parent who only watches.
Quick == {[Plain EXCEPT !.others = {"decide"}, !.rows = Kid \cup Ask, !.asks = Late]}
===============================================================================
