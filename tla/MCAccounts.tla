------------------------------ MODULE MCAccounts ------------------------------
(***************************************************************************)
(* Requests are explored in groups that meet: recovering an account,       *)
(* changing it, confirming its address, founding and deleting it, and its  *)
(* passkeys, synced ones and ones that count.                              *)
(***************************************************************************)
EXTENDS Accounts, TLC

CONSTANTS d1, d2

Asks(requests) == [requests |-> requests, account |-> TRUE, passkeys |-> {},
                   counted |-> 0, counts |-> {0}, failures |-> 0]
Fails(m) == [m EXCEPT !.failures = 1]
SignUps == [Asks({"register", "verify", "delete"}) EXCEPT !.account = FALSE]
Counts(m) == [m EXCEPT !.counted = 1, !.counts = 2 .. 3]
With(D, requests) == [Asks(requests) EXCEPT !.passkeys = D]

MCMixes == {
    Asks({"forgot", "reset", "login", "logoutAll"}),
    Fails(Asks({"change", "login", "logout", "refresh"})),
    Asks({"askConfirmation", "confirm", "forgot", "reset"}),
    Asks({"login", "change", "delete"}),
    Fails(SignUps),
    Asks({"passkeyOptions", "passkeyEnrol", "passkeyRemove"}),
    Fails(With({d1, d2}, {"passkeyOptions", "passkeyRemove", "delete"})),
    With({d1}, {"login", "passkeyChallenge", "passkeyLogin", "logoutAll"}),
    Counts(With({d1}, {"login", "passkeyChallenge", "passkeyLogin"}))}

Symmetric == Permutations(Handler)
===============================================================================
