---------------------------- MODULE AccountsProofs ----------------------------
(***************************************************************************)
(* Proofs about accounts, sessions, links and passkeys, for any number of  *)
(* requests at a time: types; that a password that was changed opens       *)
(* nothing more and a passkey's counter only grows, while changes do not   *)
(* overlap; and on a synchronous store that nothing comes back or is       *)
(* spent twice.                                                            *)
(***************************************************************************)
EXTENDS Accounts, HandlersProofs, FiniteSetTheorems

-----------------------------------------------------------------------------
(* The programs. *)

Step == {"wait", "noUser", "burnPending", "createPending", "readPending", "useLink",
         "createUser", "startSession", "findUser", "unconfirmed", "burnConfirm",
         "createConfirm", "readConfirm", "readUser", "writeConfirmed", "burnResets",
         "createReset", "readReset", "listSessions", "revokeSessions", "writePassword",
         "verifyPassword", "listPasskeys", "checkVersion", "checkSession", "writeVersion",
         "readTarget", "revokeTarget", "touchSession", "eraseSessions", "eraseCreds",
         "eraseChallenges", "eraseUser", "createChallenge", "readChallenge",
         "deleteChallenge", "checkChallenge", "verifyAttestation", "createCred",
         "hasPasskeys", "readCred", "verifyAssertion", "writeCred", "notTheLast",
         "deleteCred"}

NoneOf(s, S) == \A x \in S : Lacks(s, x)

\* Steps that read the account's row, and that use the row that was read.
RowReaders == {"findUser", "readUser", "checkVersion", "createUser"}
UsesRow == {"unconfirmed", "verifyPassword", "listPasskeys", "startSession",
            "writePassword", "writeVersion", "writeConfirmed"}
UserWrites == {"writePassword", "writeVersion", "writeConfirmed"}

\* Steps that find out whose account it is, and that need to know.
UserSources == {"findUser", "createUser", "readReset", "readConfirm"}
UsesUser == {"startSession", "listPasskeys", "createChallenge", "createCred", "eraseUser",
             "createReset", "createConfirm", "readUser", "checkVersion"}

LinkSteps == {"readPending", "readReset", "readConfirm", "useLink", "createUser"}
CredSteps == {"readCred", "verifyAssertion", "writeCred", "deleteCred"}

\* After a step of A there is none of B.
Clear(s, A, B) == \A i, j \in 1 .. Len(s) : i < j /\ s[i] \in A => s[j] \notin B

\* The order of the steps that the proofs use.
Facts(s) ==
    /\ Clear(s, UsesUser, UserSources) /\ Clear(s, UsesRow, RowReaders)
    /\ Clear(s, {"verifyAssertion", "writeCred", "deleteCred"}, {"readCred"})
    /\ Clear(s, UserSources, {"checkVersion"}) /\ Clear(s, {"readPending"}, Waits)
    /\ Clear(s, {"startSession", "listPasskeys"}, {"verifyPassword", "writePassword"})
    /\ Clear(s, {"verifyAssertion", "verifyAttestation"}, {"deleteChallenge"})
    /\ Clear(s, {"writeCred", "startSession"}, {"verifyAssertion"})
    /\ Clear(s, {"createUser"}, {"readPending"})
    /\ NoneAfter(s, "deleteChallenge", "readChallenge")
    /\ NoneAfter(s, "verifyAssertion", "verifyAssertion")
    /\ NoneAfter(s, "verifyAttestation", "verifyAttestation")
    /\ Followed(s, "readReset", "readUser") /\ Followed(s, "readConfirm", "readUser")
    /\ Preceded(s, "checkSession", "touchSession")
    /\ Preceded(s, "readChallenge", "deleteChallenge")
    /\ Preceded(s, "notTheLast", "deleteCred") /\ Preceded(s, "readCred", "notTheLast")
    /\ Preceded(s, "burnPending", "eraseUser")
    /\ ~NoneOf(s, {"startSession", "listPasskeys"}) /\ ~NoneOf(s, {"findUser", "readUser"})
            => ~NoneOf(s, {"verifyPassword", "writePassword"})
    /\ ~Lacks(s, "writeCred") /\ ~Lacks(s, "readCred") => ~Lacks(s, "verifyAssertion")
    /\ ~NoneOf(s, Waits) /\ ~Lacks(s, "createUser") => ~Lacks(s, "readPending")
    /\ ~Lacks(s, "verifyAssertion") => Lacks(s, "verifyAttestation")
    /\ ~Lacks(s, "createUser") => Lacks(s, "eraseUser")

\* Requests that carry a token.
TokenOps == {"change", "logoutAll", "logout", "refresh", "delete", "passkeyOptions",
             "passkeyEnrol", "passkeyChallenge", "passkeyLogin", "passkeyRemove"}

\* What the invariants need of a program when its request comes in.
Starts(op, s) ==
    /\ s # <<>> /\ Head(s) \in {"wait", "findUser"}
    /\ NoneOf(s, UsesRow) \/ ~NoneOf(s, RowReaders)
    /\ NoneOf(s, UsesUser) \/ ~NoneOf(s, UserSources) \/ op \in TokenOps
    /\ NoneOf(s, LinkSteps) \/ op \in {"verify", "confirm", "reset"}
    /\ NoneOf(s, CredSteps) \/ (op \in {"passkeyLogin", "passkeyRemove"} /\ ~Lacks(s, "readCred"))
    /\ NoneOf(s, {"readChallenge", "deleteChallenge"})
       \/ (op \in {"passkeyEnrol", "passkeyLogin"} /\ ~Lacks(s, "readChallenge"))
    /\ NoneOf(s, UserWrites) \/ op \in Changes
    /\ NoneOf(s, {"verifyAssertion", "writeCred"}) \/ op = "passkeyLogin"
    /\ NoneOf(s, {"eraseCreds", "eraseUser"}) \/ op = "delete"
    /\ Lacks(s, "checkVersion") \/ op \in TokenOps
    /\ Lacks(s, "createUser") \/ ~Lacks(s, "readPending")
    /\ NoneOf(s, {"verifyAssertion", "verifyAttestation"}) \/ ~Lacks(s, "deleteChallenge")

LEMMA ClearTail ==
    ASSUME NEW S, NEW s \in Seq(S), s # <<>>, NEW A, NEW B, Clear(s, A, B)
    PROVE  Clear(Tail(s), A, B) /\ (Head(s) \in A => NoneOf(Tail(s), B))
  BY TailSteps DEF Clear, NoneOf, Lacks

LEMMA FactsTail ==
    ASSUME NEW s \in Seq(Step), s # <<>>, Facts(s)
    PROVE  Facts(Tail(s))
  <1> DEFINE t == Tail(s)
  <1>1. \A x : Lacks(s, x) <=> Head(s) # x /\ Lacks(t, x)
    BY LacksTail
  <1>2. /\ Followed(t, "readReset", "readUser") /\ Followed(t, "readConfirm", "readUser")
        /\ Preceded(t, "checkSession", "touchSession")
        /\ Preceded(t, "readChallenge", "deleteChallenge")
        /\ Preceded(t, "notTheLast", "deleteCred") /\ Preceded(t, "readCred", "notTheLast")
        /\ Preceded(t, "burnPending", "eraseUser")
    BY PrecededTail, FollowedTail DEF Facts
  <1>3. /\ Clear(t, UsesUser, UserSources) /\ Clear(t, UsesRow, RowReaders)
        /\ Clear(t, {"verifyAssertion", "writeCred", "deleteCred"}, {"readCred"})
        /\ Clear(t, UserSources, {"checkVersion"}) /\ Clear(t, {"readPending"}, Waits)
        /\ Clear(t, {"startSession", "listPasskeys"}, {"verifyPassword", "writePassword"})
        /\ Clear(t, {"verifyAssertion", "verifyAttestation"}, {"deleteChallenge"})
        /\ Clear(t, {"writeCred", "startSession"}, {"verifyAssertion"})
        /\ Clear(t, {"createUser"}, {"readPending"})
        /\ NoneAfter(t, "deleteChallenge", "readChallenge")
        /\ NoneAfter(t, "verifyAssertion", "verifyAssertion")
        /\ NoneAfter(t, "verifyAttestation", "verifyAttestation")
    BY NoneAfterTail, ClearTail DEF Facts
  <1>4. /\ Head(s) \in UsesRow => NoneOf(t, RowReaders)
        /\ Head(s) \in {"verifyAssertion", "writeCred", "deleteCred"} => NoneOf(t, {"readCred"})
        /\ Head(s) \in {"readPending"} => NoneOf(t, Waits)
    BY ClearTail DEF Facts
  <1> HIDE DEF t
  <1>5. /\ ~NoneOf(t, {"startSession", "listPasskeys"}) /\ ~NoneOf(t, {"findUser", "readUser"})
              => ~NoneOf(t, {"verifyPassword", "writePassword"})
        /\ ~Lacks(t, "writeCred") /\ ~Lacks(t, "readCred") => ~Lacks(t, "verifyAssertion")
        /\ ~NoneOf(t, Waits) /\ ~Lacks(t, "createUser") => ~Lacks(t, "readPending")
        /\ ~Lacks(t, "verifyAssertion") => Lacks(t, "verifyAttestation")
        /\ ~Lacks(t, "createUser") => Lacks(t, "eraseUser")
    BY <1>1, <1>4 DEF Facts, NoneOf, UsesRow, RowReaders
  <1>6. Facts(t)
    BY <1>2, <1>3, <1>5 DEF Facts
  <1>7. QED
    BY <1>6 DEF t

LEMMA Steps_register ==
    /\ requestRegistration \in Seq(Step)
    /\ \A x : Lacks(requestRegistration, x) <=> x \notin {"wait", "noUser",
                                                          "burnPending",
                                                          "createPending"}
  BY DEF requestRegistration, Step, Lacks

LEMMA Steps_verify ==
    /\ completeSignUp \in Seq(Step)
    /\ \A x : Lacks(completeSignUp, x) <=> x \notin {"wait", "readPending",
                                                     "useLink", "burnPending",
                                                     "noUser", "createUser",
                                                     "startSession"}
  BY DEF completeSignUp, Step, Lacks

LEMMA Steps_askConfirmation ==
    /\ requestEmailVerification \in Seq(Step)
    /\ \A x : Lacks(requestEmailVerification, x) <=> x \notin {"findUser",
                                                               "unconfirmed",
                                                               "burnConfirm",
                                                               "wait",
                                                               "createConfirm"}
  BY DEF requestEmailVerification, Step, Lacks

LEMMA Steps_confirm ==
    /\ confirmAddress \in Seq(Step)
    /\ \A x : Lacks(confirmAddress, x) <=> x \notin {"wait", "readConfirm",
                                                     "readUser", "useLink",
                                                     "burnConfirm", "writeConfirmed"}
  BY DEF confirmAddress, Step, Lacks

LEMMA Steps_forgot ==
    /\ requestPasswordReset \in Seq(Step)
    /\ \A x : Lacks(requestPasswordReset, x) <=> x \notin {"findUser",
                                                           "burnResets", "wait",
                                                           "createReset"}
  BY DEF requestPasswordReset, Step, Lacks

LEMMA Steps_reset ==
    /\ resetPassword \in Seq(Step)
    /\ \A x : Lacks(resetPassword, x) <=> x \notin {"wait", "readReset",
                                                    "readUser", "useLink",
                                                    "burnResets", "listSessions",
                                                    "revokeSessions",
                                                    "writePassword", "startSession"}
  BY DEF resetPassword, Step, Lacks

LEMMA Steps_login ==
    /\ login \in Seq(Step)
    /\ \A x : Lacks(login, x) <=> x \notin {"findUser", "verifyPassword",
                                            "listPasskeys", "startSession"}
  BY DEF login, Step, Lacks

LEMMA Steps_change ==
    /\ changePassword \in Seq(Step)
    /\ \A x : Lacks(changePassword, x) <=> x \notin {"wait", "checkVersion",
                                                     "checkSession", "readUser",
                                                     "verifyPassword",
                                                     "listSessions",
                                                     "revokeSessions",
                                                     "writePassword", "startSession"}
  BY DEF changePassword, requireUser, Step, Lacks

LEMMA Steps_logoutAll ==
    /\ revokeAllSessions \in Seq(Step)
    /\ \A x : Lacks(revokeAllSessions, x) <=> x \notin {"wait", "checkVersion",
                                                        "checkSession", "readUser",
                                                        "listSessions",
                                                        "revokeSessions",
                                                        "writeVersion"}
  BY DEF revokeAllSessions, requireUser, Step, Lacks

LEMMA Steps_logout ==
    /\ revokeSession \in Seq(Step)
    /\ \A x : Lacks(revokeSession, x) <=> x \notin {"wait", "checkVersion",
                                                    "checkSession", "readTarget",
                                                    "revokeTarget"}
  BY DEF revokeSession, requireUser, Step, Lacks

LEMMA Steps_refresh ==
    /\ refreshSession \in Seq(Step)
    /\ \A x : Lacks(refreshSession, x) <=> x \notin {"wait", "checkVersion",
                                                     "checkSession", "touchSession"}
  BY DEF refreshSession, Step, Lacks

LEMMA Steps_delete ==
    /\ deleteAccount \in Seq(Step)
    /\ \A x : Lacks(deleteAccount, x) <=> x \notin {"wait", "checkVersion",
                                                    "checkSession", "readUser",
                                                    "verifyPassword",
                                                    "eraseSessions", "eraseCreds",
                                                    "eraseChallenges",
                                                    "burnResets", "burnConfirm",
                                                    "burnPending", "eraseUser"}
  BY DEF deleteAccount, requireUser, deleteUserCascade, Step, Lacks

LEMMA Steps_passkeyOptions ==
    /\ registerOptions \in Seq(Step)
    /\ \A x : Lacks(registerOptions, x) <=> x \notin {"wait", "checkVersion",
                                                      "checkSession",
                                                      "createChallenge"}
  BY DEF registerOptions, requireUser, Step, Lacks

LEMMA Steps_passkeyEnrol ==
    /\ register \in Seq(Step)
    /\ \A x : Lacks(register, x) <=> x \notin {"wait", "checkVersion",
                                               "checkSession", "readChallenge",
                                               "deleteChallenge", "checkChallenge",
                                               "verifyAttestation", "createCred"}
  BY DEF register, requireUser, spendChallenge, Step, Lacks

LEMMA Steps_passkeyChallenge ==
    /\ loginOptions \in Seq(Step)
    /\ \A x : Lacks(loginOptions, x) <=> x \notin {"wait", "checkVersion",
                                                   "hasPasskeys", "createChallenge"}
  BY DEF loginOptions, Step, Lacks

LEMMA Steps_passkeyLogin ==
    /\ passkeyLogin \in Seq(Step)
    /\ \A x : Lacks(passkeyLogin, x) <=> x \notin {"wait", "checkVersion",
                                                   "readChallenge",
                                                   "deleteChallenge",
                                                   "checkChallenge", "readCred",
                                                   "verifyAssertion", "writeCred",
                                                   "startSession"}
  BY DEF passkeyLogin, spendChallenge, Step, Lacks

LEMMA Steps_passkeyRemove ==
    /\ remove \in Seq(Step)
    /\ \A x : Lacks(remove, x) <=> x \notin {"wait", "checkVersion",
                                             "checkSession", "readCred",
                                             "notTheLast", "deleteCred"}
  BY DEF remove, requireUser, Step, Lacks

LEMMA ProgramFacts == \A op \in Request : Program[op] \in Seq(Step) /\ Facts(Program[op])
  <1>1. requestRegistration \in Seq(Step) /\ Facts(requestRegistration)
    <2>1. /\ Clear(requestRegistration, UsesUser, UserSources)
          /\ Clear(requestRegistration, UsesRow, RowReaders)
          /\ Clear(requestRegistration, {"verifyAssertion", "writeCred", "deleteCred"}, {"readCred"})
          /\ Clear(requestRegistration, UserSources, {"checkVersion"})
          /\ Clear(requestRegistration, {"readPending"}, Waits)
      BY DEF requestRegistration, Clear, Waits, UserSources, UsesUser, RowReaders, UsesRow
    <2>2. /\ Clear(requestRegistration, {"startSession", "listPasskeys"}, {"verifyPassword", "writePassword"})
          /\ Clear(requestRegistration, {"verifyAssertion", "verifyAttestation"}, {"deleteChallenge"})
          /\ Clear(requestRegistration, {"writeCred", "startSession"}, {"verifyAssertion"})
          /\ Clear(requestRegistration, {"createUser"}, {"readPending"})
      BY DEF requestRegistration, Clear
    <2>3. QED
      BY <2>1, <2>2, Steps_register DEF requestRegistration, Facts, Followed, NoneAfter, Preceded,
         NoneOf, Waits
  <1>2. completeSignUp \in Seq(Step) /\ Facts(completeSignUp)
    <2>1. /\ Clear(completeSignUp, UsesUser, UserSources)
          /\ Clear(completeSignUp, UsesRow, RowReaders)
          /\ Clear(completeSignUp, {"verifyAssertion", "writeCred", "deleteCred"}, {"readCred"})
          /\ Clear(completeSignUp, UserSources, {"checkVersion"})
          /\ Clear(completeSignUp, {"readPending"}, Waits)
      BY DEF completeSignUp, Clear, Waits, UserSources, UsesUser, RowReaders, UsesRow
    <2>2. /\ Clear(completeSignUp, {"startSession", "listPasskeys"}, {"verifyPassword", "writePassword"})
          /\ Clear(completeSignUp, {"verifyAssertion", "verifyAttestation"}, {"deleteChallenge"})
          /\ Clear(completeSignUp, {"writeCred", "startSession"}, {"verifyAssertion"})
          /\ Clear(completeSignUp, {"createUser"}, {"readPending"})
      BY DEF completeSignUp, Clear
    <2>3. QED
      BY <2>1, <2>2, Steps_verify DEF completeSignUp, Facts, Followed, NoneAfter, Preceded, NoneOf,
         Waits
  <1>3. requestEmailVerification \in Seq(Step) /\ Facts(requestEmailVerification)
    <2>1. /\ Clear(requestEmailVerification, UsesUser, UserSources)
          /\ Clear(requestEmailVerification, UsesRow, RowReaders)
          /\ Clear(requestEmailVerification, {"verifyAssertion", "writeCred", "deleteCred"}, {"readCred"})
          /\ Clear(requestEmailVerification, UserSources, {"checkVersion"})
          /\ Clear(requestEmailVerification, {"readPending"}, Waits)
      BY DEF requestEmailVerification, Clear, Waits, UserSources, UsesUser, RowReaders, UsesRow
    <2>2. /\ Clear(requestEmailVerification, {"startSession", "listPasskeys"}, {"verifyPassword", "writePassword"})
          /\ Clear(requestEmailVerification, {"verifyAssertion", "verifyAttestation"}, {"deleteChallenge"})
          /\ Clear(requestEmailVerification, {"writeCred", "startSession"}, {"verifyAssertion"})
          /\ Clear(requestEmailVerification, {"createUser"}, {"readPending"})
      BY DEF requestEmailVerification, Clear
    <2>3. QED
      BY <2>1, <2>2, Steps_askConfirmation DEF requestEmailVerification, Facts, Followed,
         NoneAfter, Preceded, NoneOf, Waits
  <1>4. confirmAddress \in Seq(Step) /\ Facts(confirmAddress)
    <2>1. /\ Clear(confirmAddress, UsesUser, UserSources)
          /\ Clear(confirmAddress, UsesRow, RowReaders)
          /\ Clear(confirmAddress, {"verifyAssertion", "writeCred", "deleteCred"}, {"readCred"})
          /\ Clear(confirmAddress, UserSources, {"checkVersion"})
          /\ Clear(confirmAddress, {"readPending"}, Waits)
      BY DEF confirmAddress, Clear, Waits, UserSources, UsesUser, RowReaders, UsesRow
    <2>2. /\ Clear(confirmAddress, {"startSession", "listPasskeys"}, {"verifyPassword", "writePassword"})
          /\ Clear(confirmAddress, {"verifyAssertion", "verifyAttestation"}, {"deleteChallenge"})
          /\ Clear(confirmAddress, {"writeCred", "startSession"}, {"verifyAssertion"})
          /\ Clear(confirmAddress, {"createUser"}, {"readPending"})
      BY DEF confirmAddress, Clear
    <2>3. QED
      BY <2>1, <2>2, Steps_confirm DEF confirmAddress, Facts, Followed, NoneAfter, Preceded,
         NoneOf, Waits
  <1>5. requestPasswordReset \in Seq(Step) /\ Facts(requestPasswordReset)
    <2>1. /\ Clear(requestPasswordReset, UsesUser, UserSources)
          /\ Clear(requestPasswordReset, UsesRow, RowReaders)
          /\ Clear(requestPasswordReset, {"verifyAssertion", "writeCred", "deleteCred"}, {"readCred"})
          /\ Clear(requestPasswordReset, UserSources, {"checkVersion"})
          /\ Clear(requestPasswordReset, {"readPending"}, Waits)
      BY DEF requestPasswordReset, Clear, Waits, UserSources, UsesUser, RowReaders, UsesRow
    <2>2. /\ Clear(requestPasswordReset, {"startSession", "listPasskeys"}, {"verifyPassword", "writePassword"})
          /\ Clear(requestPasswordReset, {"verifyAssertion", "verifyAttestation"}, {"deleteChallenge"})
          /\ Clear(requestPasswordReset, {"writeCred", "startSession"}, {"verifyAssertion"})
          /\ Clear(requestPasswordReset, {"createUser"}, {"readPending"})
      BY DEF requestPasswordReset, Clear
    <2>3. QED
      BY <2>1, <2>2, Steps_forgot DEF requestPasswordReset, Facts, Followed, NoneAfter, Preceded,
         NoneOf, Waits
  <1>6. resetPassword \in Seq(Step) /\ Facts(resetPassword)
    <2>1. /\ Clear(resetPassword, UsesUser, UserSources)
          /\ Clear(resetPassword, UsesRow, RowReaders)
          /\ Clear(resetPassword, {"verifyAssertion", "writeCred", "deleteCred"}, {"readCred"})
          /\ Clear(resetPassword, UserSources, {"checkVersion"})
          /\ Clear(resetPassword, {"readPending"}, Waits)
      BY DEF resetPassword, Clear, Waits, UserSources, UsesUser, RowReaders, UsesRow
    <2>2. /\ Clear(resetPassword, {"startSession", "listPasskeys"}, {"verifyPassword", "writePassword"})
          /\ Clear(resetPassword, {"verifyAssertion", "verifyAttestation"}, {"deleteChallenge"})
          /\ Clear(resetPassword, {"writeCred", "startSession"}, {"verifyAssertion"})
          /\ Clear(resetPassword, {"createUser"}, {"readPending"})
      BY DEF resetPassword, Clear
    <2>3. QED
      BY <2>1, <2>2, Steps_reset DEF resetPassword, Facts, Followed, NoneAfter, Preceded, NoneOf,
         Waits
  <1>7. login \in Seq(Step) /\ Facts(login)
    <2>1. /\ Clear(login, UsesUser, UserSources) /\ Clear(login, UsesRow, RowReaders)
          /\ Clear(login, {"verifyAssertion", "writeCred", "deleteCred"}, {"readCred"})
          /\ Clear(login, UserSources, {"checkVersion"})
          /\ Clear(login, {"readPending"}, Waits)
      BY DEF login, Clear, Waits, UserSources, UsesUser, RowReaders, UsesRow
    <2>2. /\ Clear(login, {"startSession", "listPasskeys"}, {"verifyPassword", "writePassword"})
          /\ Clear(login, {"verifyAssertion", "verifyAttestation"}, {"deleteChallenge"})
          /\ Clear(login, {"writeCred", "startSession"}, {"verifyAssertion"})
          /\ Clear(login, {"createUser"}, {"readPending"})
      BY DEF login, Clear
    <2>3. QED
      BY <2>1, <2>2, Steps_login DEF login, Facts, Followed, NoneAfter, Preceded, NoneOf, Waits
  <1>8. changePassword \in Seq(Step) /\ Facts(changePassword)
    <2>1. /\ Clear(changePassword, UsesUser, UserSources)
          /\ Clear(changePassword, UsesRow, RowReaders)
          /\ Clear(changePassword, {"verifyAssertion", "writeCred", "deleteCred"}, {"readCred"})
          /\ Clear(changePassword, UserSources, {"checkVersion"})
          /\ Clear(changePassword, {"readPending"}, Waits)
      BY DEF changePassword, requireUser, Clear, Waits, UserSources, UsesUser, RowReaders, UsesRow
    <2>2. /\ Clear(changePassword, {"startSession", "listPasskeys"}, {"verifyPassword", "writePassword"})
          /\ Clear(changePassword, {"verifyAssertion", "verifyAttestation"}, {"deleteChallenge"})
          /\ Clear(changePassword, {"writeCred", "startSession"}, {"verifyAssertion"})
          /\ Clear(changePassword, {"createUser"}, {"readPending"})
      BY DEF changePassword, requireUser, Clear
    <2>3. QED
      BY <2>1, <2>2, Steps_change DEF changePassword, requireUser, Facts, Followed, NoneAfter,
         Preceded, NoneOf, Waits
  <1>9. revokeAllSessions \in Seq(Step) /\ Facts(revokeAllSessions)
    <2>1. /\ Clear(revokeAllSessions, UsesUser, UserSources)
          /\ Clear(revokeAllSessions, UsesRow, RowReaders)
          /\ Clear(revokeAllSessions, {"verifyAssertion", "writeCred", "deleteCred"}, {"readCred"})
          /\ Clear(revokeAllSessions, UserSources, {"checkVersion"})
          /\ Clear(revokeAllSessions, {"readPending"}, Waits)
      BY DEF revokeAllSessions, requireUser, Clear, Waits, UserSources, UsesUser, RowReaders,
         UsesRow
    <2>2. /\ Clear(revokeAllSessions, {"startSession", "listPasskeys"}, {"verifyPassword", "writePassword"})
          /\ Clear(revokeAllSessions, {"verifyAssertion", "verifyAttestation"}, {"deleteChallenge"})
          /\ Clear(revokeAllSessions, {"writeCred", "startSession"}, {"verifyAssertion"})
          /\ Clear(revokeAllSessions, {"createUser"}, {"readPending"})
      BY DEF revokeAllSessions, requireUser, Clear
    <2>3. QED
      BY <2>1, <2>2, Steps_logoutAll DEF revokeAllSessions, requireUser, Facts, Followed,
         NoneAfter, Preceded, NoneOf, Waits
  <1>10. revokeSession \in Seq(Step) /\ Facts(revokeSession)
    <2>1. /\ Clear(revokeSession, UsesUser, UserSources)
          /\ Clear(revokeSession, UsesRow, RowReaders)
          /\ Clear(revokeSession, {"verifyAssertion", "writeCred", "deleteCred"}, {"readCred"})
          /\ Clear(revokeSession, UserSources, {"checkVersion"})
          /\ Clear(revokeSession, {"readPending"}, Waits)
      BY DEF revokeSession, requireUser, Clear, Waits, UserSources, UsesUser, RowReaders, UsesRow
    <2>2. /\ Clear(revokeSession, {"startSession", "listPasskeys"}, {"verifyPassword", "writePassword"})
          /\ Clear(revokeSession, {"verifyAssertion", "verifyAttestation"}, {"deleteChallenge"})
          /\ Clear(revokeSession, {"writeCred", "startSession"}, {"verifyAssertion"})
          /\ Clear(revokeSession, {"createUser"}, {"readPending"})
      BY DEF revokeSession, requireUser, Clear
    <2>3. QED
      BY <2>1, <2>2, Steps_logout DEF revokeSession, requireUser, Facts, Followed, NoneAfter,
         Preceded, NoneOf, Waits
  <1>11. refreshSession \in Seq(Step) /\ Facts(refreshSession)
    <2>1. /\ Clear(refreshSession, UsesUser, UserSources)
          /\ Clear(refreshSession, UsesRow, RowReaders)
          /\ Clear(refreshSession, {"verifyAssertion", "writeCred", "deleteCred"}, {"readCred"})
          /\ Clear(refreshSession, UserSources, {"checkVersion"})
          /\ Clear(refreshSession, {"readPending"}, Waits)
      BY DEF refreshSession, Clear, Waits, UserSources, UsesUser, RowReaders, UsesRow
    <2>2. /\ Clear(refreshSession, {"startSession", "listPasskeys"}, {"verifyPassword", "writePassword"})
          /\ Clear(refreshSession, {"verifyAssertion", "verifyAttestation"}, {"deleteChallenge"})
          /\ Clear(refreshSession, {"writeCred", "startSession"}, {"verifyAssertion"})
          /\ Clear(refreshSession, {"createUser"}, {"readPending"})
      BY DEF refreshSession, Clear
    <2>3. QED
      BY <2>1, <2>2, Steps_refresh DEF refreshSession, Facts, Followed, NoneAfter, Preceded,
         NoneOf, Waits
  <1>12. deleteAccount \in Seq(Step) /\ Facts(deleteAccount)
    <2>1. /\ Clear(deleteAccount, UsesUser, UserSources)
          /\ Clear(deleteAccount, UsesRow, RowReaders)
          /\ Clear(deleteAccount, {"verifyAssertion", "writeCred", "deleteCred"}, {"readCred"})
          /\ Clear(deleteAccount, UserSources, {"checkVersion"})
          /\ Clear(deleteAccount, {"readPending"}, Waits)
      BY DEF deleteAccount, requireUser, deleteUserCascade, Clear, Waits, UserSources, UsesUser,
         RowReaders, UsesRow
    <2>2. /\ Clear(deleteAccount, {"startSession", "listPasskeys"}, {"verifyPassword", "writePassword"})
          /\ Clear(deleteAccount, {"verifyAssertion", "verifyAttestation"}, {"deleteChallenge"})
          /\ Clear(deleteAccount, {"writeCred", "startSession"}, {"verifyAssertion"})
          /\ Clear(deleteAccount, {"createUser"}, {"readPending"})
      BY DEF deleteAccount, requireUser, deleteUserCascade, Clear
    <2>3. QED
      BY <2>1, <2>2, Steps_delete DEF deleteAccount, requireUser, deleteUserCascade, Facts,
         Followed, NoneAfter, Preceded, NoneOf, Waits
  <1>13. registerOptions \in Seq(Step) /\ Facts(registerOptions)
    <2>1. /\ Clear(registerOptions, UsesUser, UserSources)
          /\ Clear(registerOptions, UsesRow, RowReaders)
          /\ Clear(registerOptions, {"verifyAssertion", "writeCred", "deleteCred"}, {"readCred"})
          /\ Clear(registerOptions, UserSources, {"checkVersion"})
          /\ Clear(registerOptions, {"readPending"}, Waits)
      BY DEF registerOptions, requireUser, Clear, Waits, UserSources, UsesUser, RowReaders, UsesRow
    <2>2. /\ Clear(registerOptions, {"startSession", "listPasskeys"}, {"verifyPassword", "writePassword"})
          /\ Clear(registerOptions, {"verifyAssertion", "verifyAttestation"}, {"deleteChallenge"})
          /\ Clear(registerOptions, {"writeCred", "startSession"}, {"verifyAssertion"})
          /\ Clear(registerOptions, {"createUser"}, {"readPending"})
      BY DEF registerOptions, requireUser, Clear
    <2>3. QED
      BY <2>1, <2>2, Steps_passkeyOptions DEF registerOptions, requireUser, Facts, Followed,
         NoneAfter, Preceded, NoneOf, Waits
  <1>14. register \in Seq(Step) /\ Facts(register)
    <2>1. /\ Clear(register, UsesUser, UserSources) /\ Clear(register, UsesRow, RowReaders)
          /\ Clear(register, {"verifyAssertion", "writeCred", "deleteCred"}, {"readCred"})
          /\ Clear(register, UserSources, {"checkVersion"})
          /\ Clear(register, {"readPending"}, Waits)
      BY DEF register, requireUser, spendChallenge, Clear, Waits, UserSources, UsesUser,
         RowReaders, UsesRow
    <2>2. /\ Clear(register, {"startSession", "listPasskeys"}, {"verifyPassword", "writePassword"})
          /\ Clear(register, {"verifyAssertion", "verifyAttestation"}, {"deleteChallenge"})
          /\ Clear(register, {"writeCred", "startSession"}, {"verifyAssertion"})
          /\ Clear(register, {"createUser"}, {"readPending"})
      BY DEF register, requireUser, spendChallenge, Clear
    <2>3. QED
      BY <2>1, <2>2, Steps_passkeyEnrol DEF register, requireUser, spendChallenge, Facts, Followed,
         NoneAfter, Preceded, NoneOf, Waits
  <1>15. loginOptions \in Seq(Step) /\ Facts(loginOptions)
    <2>1. /\ Clear(loginOptions, UsesUser, UserSources) /\ Clear(loginOptions, UsesRow, RowReaders)
          /\ Clear(loginOptions, {"verifyAssertion", "writeCred", "deleteCred"}, {"readCred"})
          /\ Clear(loginOptions, UserSources, {"checkVersion"})
          /\ Clear(loginOptions, {"readPending"}, Waits)
      BY DEF loginOptions, Clear, Waits, UserSources, UsesUser, RowReaders, UsesRow
    <2>2. /\ Clear(loginOptions, {"startSession", "listPasskeys"}, {"verifyPassword", "writePassword"})
          /\ Clear(loginOptions, {"verifyAssertion", "verifyAttestation"}, {"deleteChallenge"})
          /\ Clear(loginOptions, {"writeCred", "startSession"}, {"verifyAssertion"})
          /\ Clear(loginOptions, {"createUser"}, {"readPending"})
      BY DEF loginOptions, Clear
    <2>3. QED
      BY <2>1, <2>2, Steps_passkeyChallenge DEF loginOptions, Facts, Followed, NoneAfter, Preceded,
         NoneOf, Waits
  <1>16. passkeyLogin \in Seq(Step) /\ Facts(passkeyLogin)
    <2>1. /\ Clear(passkeyLogin, UsesUser, UserSources) /\ Clear(passkeyLogin, UsesRow, RowReaders)
          /\ Clear(passkeyLogin, {"verifyAssertion", "writeCred", "deleteCred"}, {"readCred"})
          /\ Clear(passkeyLogin, UserSources, {"checkVersion"})
          /\ Clear(passkeyLogin, {"readPending"}, Waits)
      BY DEF passkeyLogin, spendChallenge, Clear, Waits, UserSources, UsesUser, RowReaders, UsesRow
    <2>2. /\ Clear(passkeyLogin, {"startSession", "listPasskeys"}, {"verifyPassword", "writePassword"})
          /\ Clear(passkeyLogin, {"verifyAssertion", "verifyAttestation"}, {"deleteChallenge"})
          /\ Clear(passkeyLogin, {"writeCred", "startSession"}, {"verifyAssertion"})
          /\ Clear(passkeyLogin, {"createUser"}, {"readPending"})
      BY DEF passkeyLogin, spendChallenge, Clear
    <2>3. QED
      BY <2>1, <2>2, Steps_passkeyLogin DEF passkeyLogin, spendChallenge, Facts, Followed,
         NoneAfter, Preceded, NoneOf, Waits
  <1>17. remove \in Seq(Step) /\ Facts(remove)
    <2>1. /\ Clear(remove, UsesUser, UserSources) /\ Clear(remove, UsesRow, RowReaders)
          /\ Clear(remove, {"verifyAssertion", "writeCred", "deleteCred"}, {"readCred"})
          /\ Clear(remove, UserSources, {"checkVersion"})
          /\ Clear(remove, {"readPending"}, Waits)
      BY DEF remove, requireUser, Clear, Waits, UserSources, UsesUser, RowReaders, UsesRow
    <2>2. /\ Clear(remove, {"startSession", "listPasskeys"}, {"verifyPassword", "writePassword"})
          /\ Clear(remove, {"verifyAssertion", "verifyAttestation"}, {"deleteChallenge"})
          /\ Clear(remove, {"writeCred", "startSession"}, {"verifyAssertion"})
          /\ Clear(remove, {"createUser"}, {"readPending"})
      BY DEF remove, requireUser, Clear
    <2>3. QED
      BY <2>1, <2>2, Steps_passkeyRemove DEF remove, requireUser, Facts, Followed, NoneAfter,
         Preceded, NoneOf, Waits
  <1>18. QED
    BY <1>1, <1>2, <1>3, <1>4, <1>5, <1>6, <1>7, <1>8, <1>9, <1>10, <1>11, <1>12, <1>13,
<1>14, <1>15, <1>16, <1>17
       DEF Program, Request

LEMMA ProgramStarts == \A op \in Request : Starts(op, Program[op])
  <1>1. Starts("register", requestRegistration)
    <2>1. requestRegistration # <<>> /\ Head(requestRegistration) = "wait"
      BY DEF requestRegistration
    <2>2. QED
      BY <2>1, Steps_register DEF Starts, NoneOf, UsesRow, RowReaders, UsesUser, UserSources,
         TokenOps, LinkSteps, CredSteps, UserWrites, Changes
  <1>2. Starts("verify", completeSignUp)
    <2>1. completeSignUp # <<>> /\ Head(completeSignUp) = "wait"
      BY DEF completeSignUp
    <2>2. QED
      BY <2>1, Steps_verify DEF Starts, NoneOf, UsesRow, RowReaders, UsesUser, UserSources,
         TokenOps, LinkSteps, CredSteps, UserWrites, Changes
  <1>3. Starts("askConfirmation", requestEmailVerification)
    <2>1. requestEmailVerification # <<>> /\ Head(requestEmailVerification) = "findUser"
      BY DEF requestEmailVerification
    <2>2. QED
      BY <2>1, Steps_askConfirmation DEF Starts, NoneOf, UsesRow, RowReaders, UsesUser, UserSources,
         TokenOps, LinkSteps, CredSteps, UserWrites, Changes
  <1>4. Starts("confirm", confirmAddress)
    <2>1. confirmAddress # <<>> /\ Head(confirmAddress) = "wait"
      BY DEF confirmAddress
    <2>2. QED
      BY <2>1, Steps_confirm DEF Starts, NoneOf, UsesRow, RowReaders, UsesUser, UserSources,
         TokenOps, LinkSteps, CredSteps, UserWrites, Changes
  <1>5. Starts("forgot", requestPasswordReset)
    <2>1. requestPasswordReset # <<>> /\ Head(requestPasswordReset) = "findUser"
      BY DEF requestPasswordReset
    <2>2. QED
      BY <2>1, Steps_forgot DEF Starts, NoneOf, UsesRow, RowReaders, UsesUser, UserSources,
         TokenOps, LinkSteps, CredSteps, UserWrites, Changes
  <1>6. Starts("reset", resetPassword)
    <2>1. resetPassword # <<>> /\ Head(resetPassword) = "wait"
      BY DEF resetPassword
    <2>2. QED
      BY <2>1, Steps_reset DEF Starts, NoneOf, UsesRow, RowReaders, UsesUser, UserSources,
         TokenOps, LinkSteps, CredSteps, UserWrites, Changes
  <1>7. Starts("login", login)
    <2>1. login # <<>> /\ Head(login) = "findUser"
      BY DEF login
    <2>2. QED
      BY <2>1, Steps_login DEF Starts, NoneOf, UsesRow, RowReaders, UsesUser, UserSources,
         TokenOps, LinkSteps, CredSteps, UserWrites, Changes
  <1>8. Starts("change", changePassword)
    <2>1. changePassword # <<>> /\ Head(changePassword) = "wait"
      BY DEF changePassword, requireUser
    <2>2. QED
      BY <2>1, Steps_change DEF Starts, NoneOf, UsesRow, RowReaders, UsesUser, UserSources,
         TokenOps, LinkSteps, CredSteps, UserWrites, Changes
  <1>9. Starts("logoutAll", revokeAllSessions)
    <2>1. revokeAllSessions # <<>> /\ Head(revokeAllSessions) = "wait"
      BY DEF revokeAllSessions, requireUser
    <2>2. QED
      BY <2>1, Steps_logoutAll DEF Starts, NoneOf, UsesRow, RowReaders, UsesUser, UserSources,
         TokenOps, LinkSteps, CredSteps, UserWrites, Changes
  <1>10. Starts("logout", revokeSession)
    <2>1. revokeSession # <<>> /\ Head(revokeSession) = "wait"
      BY DEF revokeSession, requireUser
    <2>2. QED
      BY <2>1, Steps_logout DEF Starts, NoneOf, UsesRow, RowReaders, UsesUser, UserSources,
         TokenOps, LinkSteps, CredSteps, UserWrites, Changes
  <1>11. Starts("refresh", refreshSession)
    <2>1. refreshSession # <<>> /\ Head(refreshSession) = "wait"
      BY DEF refreshSession
    <2>2. QED
      BY <2>1, Steps_refresh DEF Starts, NoneOf, UsesRow, RowReaders, UsesUser, UserSources,
         TokenOps, LinkSteps, CredSteps, UserWrites, Changes
  <1>12. Starts("delete", deleteAccount)
    <2>1. deleteAccount # <<>> /\ Head(deleteAccount) = "wait"
      BY DEF deleteAccount, requireUser, deleteUserCascade
    <2>2. QED
      BY <2>1, Steps_delete DEF Starts, NoneOf, UsesRow, RowReaders, UsesUser, UserSources,
         TokenOps, LinkSteps, CredSteps, UserWrites, Changes
  <1>13. Starts("passkeyOptions", registerOptions)
    <2>1. registerOptions # <<>> /\ Head(registerOptions) = "wait"
      BY DEF registerOptions, requireUser
    <2>2. QED
      BY <2>1, Steps_passkeyOptions DEF Starts, NoneOf, UsesRow, RowReaders, UsesUser, UserSources,
         TokenOps, LinkSteps, CredSteps, UserWrites, Changes
  <1>14. Starts("passkeyEnrol", register)
    <2>1. register # <<>> /\ Head(register) = "wait"
      BY DEF register, requireUser, spendChallenge
    <2>2. QED
      BY <2>1, Steps_passkeyEnrol DEF Starts, NoneOf, UsesRow, RowReaders, UsesUser, UserSources,
         TokenOps, LinkSteps, CredSteps, UserWrites, Changes
  <1>15. Starts("passkeyChallenge", loginOptions)
    <2>1. loginOptions # <<>> /\ Head(loginOptions) = "wait"
      BY DEF loginOptions
    <2>2. QED
      BY <2>1, Steps_passkeyChallenge DEF Starts, NoneOf, UsesRow, RowReaders, UsesUser,
         UserSources,
         TokenOps, LinkSteps, CredSteps, UserWrites, Changes
  <1>16. Starts("passkeyLogin", passkeyLogin)
    <2>1. passkeyLogin # <<>> /\ Head(passkeyLogin) = "wait"
      BY DEF passkeyLogin, spendChallenge
    <2>2. QED
      BY <2>1, Steps_passkeyLogin DEF Starts, NoneOf, UsesRow, RowReaders, UsesUser, UserSources,
         TokenOps, LinkSteps, CredSteps, UserWrites, Changes
  <1>17. Starts("passkeyRemove", remove)
    <2>1. remove # <<>> /\ Head(remove) = "wait"
      BY DEF remove, requireUser
    <2>2. QED
      BY <2>1, Steps_passkeyRemove DEF Starts, NoneOf, UsesRow, RowReaders, UsesUser, UserSources,
         TokenOps, LinkSteps, CredSteps, UserWrites, Changes
  <1>18. QED
    BY <1>1, <1>2, <1>3, <1>4, <1>5, <1>6, <1>7, <1>8, <1>9, <1>10, <1>11, <1>12, <1>13, <1>14,
       <1>15, <1>16, <1>17
       DEF Program, Request

-----------------------------------------------------------------------------
(* The invariant for types. *)

CallRecord ==
    [op : Request, user : User \cup {None}, session : Session \cup {None}, tv : Nat,
     proof : Nat, typed : Nat, new : Nat, target : Session \cup {None},
     link : Link \cup {None}, challenge : Challenge \cup {None},
     cred : Credential \cup {None}, count : Nat, row : UserRow \cup {None},
     challengeRow : ChallengeRow \cup {None}, credRow : CredentialRow \cup {None},
     listed : SUBSET Session]

\* What the steps that are left take for granted of the request's variables.
Needs(s, c) ==
    /\ ~NoneOf(s, UsesRow) /\ NoneOf(s, RowReaders) => c.row \in UserRow
    /\ ~NoneOf(s, UsesUser) /\ NoneOf(s, UserSources) => c.user \in User
    /\ ~NoneOf(s, LinkSteps) => c.link \in Link /\ links[c.link] # None
    /\ ~NoneOf(s, CredSteps) => c.cred \in Credential
    /\ ~NoneOf(s, CredSteps) /\ Lacks(s, "readCred") =>
            creds[c.cred] # None /\ c.credRow \in CredentialRow
    /\ ~NoneOf(s, {"readChallenge", "deleteChallenge"}) => c.challenge \in Challenge
    /\ ~Lacks(s, "deleteChallenge") /\ Lacks(s, "readChallenge") =>
            challenges[c.challenge] # None
    /\ ~NoneOf(s, UserWrites) => c.op \in Changes
    /\ ~NoneOf(s, {"verifyAssertion", "writeCred"}) => c.op = "passkeyLogin"
    /\ ~NoneOf(s, {"eraseCreds", "eraseUser"}) => c.op = "delete"

Local(h) == pc[h] # <<>> => call[h] \in CallRecord /\ Facts(pc[h]) /\ Needs(pc[h], call[h])

TablesOK ==
    /\ users \in [User -> UserRow \cup {None}]
    /\ sessions \in [Session -> {"none", "live", "revoked"}]
    /\ links \in [Link -> LinkRow \cup {None}]
    /\ creds \in [Credential -> CredentialRow \cup {None}]
    /\ challenges \in [Challenge -> ChallengeRow \cup {None}]
    /\ tokens \in [Session -> Token \cup {None}]
    /\ mfa \subseteq Token
    /\ \A s \in Session : sessions[s] # "none" => tokens[s] # None
    /\ \A l \in Link : links[l] # None /\ links[l].kind # "pending" => links[l].user \in User
    /\ erased \subseteq User /\ IsFiniteSet(erased) /\ \A u \in erased : users[u] = None
    /\ passwords \in Nat /\ settled \in [Challenge -> Nat]

Loop == ControlOK(Step) /\ LoopOK

AccountsInv == Loop /\ mix \in Mixes /\ TablesOK /\ \A h \in Handler : Local(h)

-----------------------------------------------------------------------------
(* What a step does. *)

Pending(l) == Live(links, l) /\ links[l].kind = "pending"

\* The variables c2 that a handler goes on with after step x, when c are those
\* it has.
Same(x, c, c2) ==
    /\ c2 \in CallRecord /\ c2.op = c.op /\ c2.tv = c.tv /\ c2.session = c.session
    /\ c2.link = c.link /\ c2.challenge = c.challenge /\ c2.cred = c.cred /\ c2.count = c.count
    /\ x \notin UserSources => c2.user = c.user
    /\ x \notin RowReaders \cup UserWrites => c2.row = c.row
    /\ x # "readCred" => c2.credRow = c.credRow
    /\ x \notin {"createUser", "verifyPassword", "writePassword"} => c2.proof = c.proof

Learns(x, c, c2) ==
    /\ x \in UserSources => c2.user \in User
    /\ x \in RowReaders => c2.row \in UserRow
    /\ x \in RowReaders \ {"createUser"} => c2.user \in User /\ c2.row = users[c2.user]
    /\ x = "checkVersion" => c2.row.tv = c.tv
    /\ x = "verifyPassword" => c2.proof = c.row.password
    /\ x = "createUser" => c2.proof = c2.row.password
    /\ x = "checkSession" => sessions[c.session] = "live"
    /\ x = "readPending" => Pending(c.link)
    /\ x = "readChallenge" => Live(challenges, c.challenge)
    /\ x = "readCred" => /\ Live(creds, c.cred) /\ creds[c.cred].user = c.user
                         /\ c2.credRow = creds[c.cred]
    /\ x = "verifyAssertion" => CounterMoves(c.count, c.credRow.count)
    /\ x = "notTheLast" => Cardinality(Passkeys(c.user)) > 1
    /\ x \in UserWrites =>
          /\ c.row \in UserRow /\ c2.row \in UserRow /\ c2.row.tv >= c.row.tv
          /\ c2.row.tv = c.row.tv => c2.row.password = c.row.password
          /\ IF x = "writePassword" THEN c2.proof = c2.row.password
                                    ELSE c2.row.password = c.row.password

UserEffect(x, c, c2) ==
    \/ x \in UserWrites /\ users' = Update(c.user, c2.row) /\ erased' = erased
    \/ /\ x = "createUser" /\ c2.user \notin erased /\ users[c2.user] = None
       /\ users' = [users EXCEPT ![c2.user] = c2.row] /\ erased' = erased
    \/ /\ x = "eraseUser" /\ users' = [users EXCEPT ![c.user] = None]
       /\ erased' = erased \cup {c.user}
    \/ x = "writeConfirmed" /\ c2.row = c.row /\ UNCHANGED <<users, erased>>
    \/ x \notin UserWrites \cup {"createUser", "eraseUser"} /\ UNCHANGED <<users, erased>>

SessionEffect(x, c) ==
    \/ /\ x = "startSession"
       /\ \E s \in Session : /\ tokens[s] = None /\ tokens' = [tokens EXCEPT ![s] = Minted(c)]
                             /\ sessions' = [sessions EXCEPT ![s] = "live"]
    \/ /\ x # "startSession" /\ tokens' = tokens
       /\ sessions' \in [Session -> {"none", "live", "revoked"}]
       /\ \A s \in Session : /\ sessions'[s] # "none" => sessions[s] # "none"
                             /\ sessions'[s] = "live" => sessions[s] = "live"
                                   \/ (x = "touchSession" /\ s = c.session)
       /\ x = "checkSession" => sessions' = sessions

Kills(table, new, l) == \/ new[l] = table[l]
                        \/ table[l] # None /\ new[l] = [table[l] EXCEPT !.live = FALSE]

LinkEffect(x, c) ==
    \/ /\ x \in {"createPending", "createReset", "createConfirm"}
       /\ \E l \in Link, kind \in {"pending", "reset", "confirm"} :
             /\ links[l] = None /\ links' = [links EXCEPT ![l] = NewLink(kind, c)]
             /\ kind = "pending" \/ x # "createPending"
    \/ /\ x \notin {"createPending", "createReset", "createConfirm"}
       /\ links' = [l \in Link |-> links'[l]] /\ \A l \in Link : Kills(links, links', l)
       /\ x = "burnPending" => \A l \in Link : ~Pending(l)'

CredEffect(x, c) ==
    \/ /\ x = "createCred" /\ creds[c.cred] = None
       /\ creds' = [creds EXCEPT ![c.cred] = [user |-> c.user, count |-> 0, live |-> TRUE]]
    \/ x = "writeCred" /\ creds' = [creds EXCEPT ![c.cred].count = c.count]
    \/ x = "deleteCred" /\ creds' = Dead(creds, {c.cred})
    \/ x = "eraseCreds" /\ creds' = Dead(creds, Passkeys(c.user))
    \/ x \notin {"createCred", "writeCred", "deleteCred", "eraseCreds"} /\ creds' = creds

ChallengeEffect(x, c) ==
    \/ /\ x = "createChallenge"
       /\ \E k \in Challenge, row \in ChallengeRow :
             challenges[k] = None /\ challenges' = [challenges EXCEPT ![k] = row]
    \/ /\ x # "createChallenge"
       /\ challenges' = [k \in Challenge |-> challenges'[k]] /\ \A k \in Challenge : Kills(challenges, challenges', k)
       /\ x = "deleteChallenge" => ~Live(challenges', c.challenge)
       /\ x = "readChallenge" => challenges' = challenges

OtherEffect(x, c, c2) ==
    /\ settled' = IF x \in {"verifyAssertion", "verifyAttestation"}
                  THEN [settled EXCEPT ![c.challenge] = @ + 1] ELSE settled
    /\ bornLate' = IF x = "createUser" /\ links[c.link].epoch < Cardinality(erased)
                   THEN bornLate \cup {c2.user} ELSE bornLate
    /\ UNCHANGED <<mfa, passwords, resting>>

Goes(x, c, c2) ==
    /\ Same(x, c, c2) /\ Learns(x, c, c2) /\ UserEffect(x, c, c2) /\ SessionEffect(x, c)
    /\ LinkEffect(x, c) /\ CredEffect(x, c) /\ ChallengeEffect(x, c) /\ OtherEffect(x, c, c2)

\* h has steps to take and the loop.
Runs(h) == pc[h] # <<>> /\ turn \in {None, h}

Went(h) == \E c2 : Ran(h, Tail(pc[h]), c2) /\ Goes(Head(pc[h]), call[h], c2)

\* The check fails, or a call does.
Stopped(h) ==
    /\ Ran(h, <<>>, NoCall) /\ UNCHANGED <<store, tokens, history>>
    /\ \/ mfa' = mfa
       \/ Head(pc[h]) = "listPasskeys" /\ mfa' = mfa \cup {Minted(call[h])}

\* The session that was revoked is not the last of those listed.
Again(h) ==
    /\ Head(pc[h]) = "revokeSessions"
    /\ \E s \in call[h].listed : Ran(h, pc[h], [call[h] EXCEPT !.listed = @ \ {s}])
    /\ SessionEffect("revokeSessions", call[h])
    /\ UNCHANGED <<users, links, creds, challenges, held, history>>

Did(h) == /\ Runs(h) /\ Loop' /\ UNCHANGED <<sync, mix>>
          /\ Went(h) \/ Stopped(h) \/ Again(h)

-----------------------------------------------------------------------------
(* Every step does what Did says. *)

LEMMA HasCall ==
    ASSUME AccountsInv, NEW h \in Handler, pc[h] # <<>>
    PROVE  /\ call[h] \in CallRecord /\ pc[h] \in Seq(Step)
           /\ Facts(pc[h]) /\ Needs(pc[h], call[h])
  BY DEF AccountsInv, Local, Loop, ControlOK

\* What the step a handler is at may take for granted.
Ready(x, c) ==
    /\ x \in UsesRow => c.row \in UserRow
    /\ x \in UsesUser => c.user \in User
    /\ x \in LinkSteps => c.link \in Link /\ links[c.link] # None
    /\ x \in CredSteps => c.cred \in Credential
    /\ x \in {"verifyAssertion", "writeCred", "deleteCred"} =>
            creds[c.cred] # None /\ c.credRow \in CredentialRow
    /\ x \in {"readChallenge", "deleteChallenge"} => c.challenge \in Challenge
    /\ x = "deleteChallenge" => challenges[c.challenge] # None
    /\ x = "verifyAssertion" => c.op = "passkeyLogin"

LEMMA IsReady ==
    ASSUME AccountsInv, NEW h \in Handler, pc[h] # <<>>
    PROVE  Ready(Head(pc[h]), call[h])
  <1>1. /\ pc[h] \in Seq(Step) /\ Facts(pc[h]) /\ Needs(pc[h], call[h])
    BY HasCall
  <1>2. PICK s, c : s = pc[h] /\ c = call[h]
    OBVIOUS
  <1>3. s \in Seq(Step) /\ s # <<>> /\ Facts(s) /\ Needs(s, c)
    BY <1>1, <1>2
  <1> DEFINE t == Tail(s)
  <1>4. \A x : Lacks(s, x) <=> Head(s) # x /\ Lacks(t, x)
    BY <1>3, LacksTail
  <1>5. /\ Head(s) \in UsesUser => NoneOf(t, UserSources)
        /\ Head(s) \in UsesRow => NoneOf(t, RowReaders)
        /\ Head(s) \in {"verifyAssertion", "writeCred", "deleteCred"} => NoneOf(t, {"readCred"})
        /\ Head(s) = "deleteChallenge" => Lacks(t, "readChallenge")
    BY <1>3, ClearTail, NoneAfterTail DEF Facts
  <1> HIDE DEF t
  <1>6. /\ Head(s) \in UsesRow => c.row \in UserRow
        /\ Head(s) \in UsesUser => c.user \in User
    BY <1>3, <1>4, <1>5 DEF Needs, NoneOf, UsesRow, UsesUser, RowReaders, UserSources
  <1>7. /\ Head(s) \in LinkSteps => c.link \in Link /\ links[c.link] # None
        /\ Head(s) \in CredSteps => c.cred \in Credential
        /\ Head(s) \in {"verifyAssertion", "writeCred", "deleteCred"} =>
                creds[c.cred] # None /\ c.credRow \in CredentialRow
    BY <1>3, <1>4, <1>5 DEF Needs, NoneOf, CredSteps
  <1>8. /\ Head(s) \in {"readChallenge", "deleteChallenge"} => c.challenge \in Challenge
        /\ Head(s) = "deleteChallenge" => challenges[c.challenge] # None
        /\ Head(s) = "verifyAssertion" => c.op = "passkeyLogin"
    BY <1>3, <1>4, <1>5 DEF Needs, NoneOf
  <1>9. QED
    BY <1>2, <1>6, <1>7, <1>8 DEF Ready

\* A handler that goes on, or stops.
LEMMA GoingOn ==
    ASSUME AccountsInv, NEW h \in Handler, NEW x, At(h, x), NEW c, GoOn(h, c)
    PROVE  /\ Runs(h) /\ Head(pc[h]) = x /\ Loop' /\ UNCHANGED <<sync, mix>>
           /\ Ran(h, Tail(pc[h]), c)
  <1>1. Runs(h) /\ Head(pc[h]) = x
    BY DEF At, Runs
  <1>2. pc[h] \in Seq(Step) /\ Loop
    BY <1>1, HasCall DEF Runs, AccountsInv
  <1>3. PICK t \in Seq(Step) : t = Tail(pc[h])
    BY <1>1, <1>2, TailSteps DEF Runs
  <1>4. Run(h, t, c) /\ turn \in {None, h}
    BY <1>1, <1>3 DEF GoOn, Run, Runs
  <1>5. Loop' /\ Ran(h, t, c)
    BY <1>2, <1>4, RunKeeps, RunRan DEF Loop
  <1>6. UNCHANGED <<sync, mix>>
    BY <1>4 DEF Run
  <1>7. QED
    BY <1>1, <1>3, <1>5, <1>6

LEMMA Stopping ==
    ASSUME AccountsInv, NEW h \in Handler, turn \in {None, h}, Run(h, <<>>, NoCall)
    PROVE  Loop' /\ UNCHANGED <<sync, mix>> /\ Ran(h, <<>>, NoCall)
  <1>1. <<>> \in Seq(Step)
    OBVIOUS
  <1>2. QED
    BY <1>1, RunKeeps, RunRan DEF AccountsInv, Loop, Run

LEMMA Checking ==
    ASSUME AccountsInv, NEW h \in Handler, NEW x, At(h, x), NEW ok \in BOOLEAN, NEW c, Check(h, ok, c)
    PROVE  /\ Runs(h) /\ Head(pc[h]) = x /\ Loop' /\ UNCHANGED <<sync, mix>>
           /\ (ok /\ Ran(h, Tail(pc[h]), c)) \/ (~ok /\ Ran(h, <<>>, NoCall))
  <1>1. CASE ok
    BY <1>1, GoingOn DEF Check
  <1>2. CASE ~ok
    BY <1>2, Stopping DEF Check, At, Runs
  <1>3. QED
    BY <1>1, <1>2

\* The steps that only read.
Reading == {"wait", "noUser", "findUser", "readUser", "checkVersion", "checkSession",
            "listSessions", "readTarget", "unconfirmed", "verifyPassword", "readPending",
            "readReset", "readConfirm", "readChallenge", "checkChallenge", "readCred",
            "hasPasskeys", "notTheLast"}

LEMMA ReadDid ==
    ASSUME AccountsInv, NEW h \in Handler, NEW x \in Reading, NEW ok \in BOOLEAN, NEW c,
           Read(h, x, ok, c), ok => Same(x, call[h], c) /\ Learns(x, call[h], c)
    PROVE  Did(h)
  <1>1. At(h, x) /\ Check(h, ok, c) /\ UNCHANGED <<store, held, history>>
    BY DEF Read
  <1>2. /\ Runs(h) /\ Head(pc[h]) = x /\ Loop' /\ UNCHANGED <<sync, mix>>
        /\ (ok /\ Ran(h, Tail(pc[h]), c)) \/ (~ok /\ Ran(h, <<>>, NoCall))
    BY <1>1, Checking
  <1>3. CASE ok
    <2>1. UserEffect(x, call[h], c) /\ CredEffect(x, call[h]) /\ OtherEffect(x, call[h], c)
      BY <1>1 DEF Reading, UserEffect, CredEffect, OtherEffect, UserWrites, store, held, history
    <2>2. SessionEffect(x, call[h])
      BY <1>1 DEF Reading, SessionEffect, store, held, AccountsInv, TablesOK
    <2>3. LinkEffect(x, call[h]) /\ ChallengeEffect(x, call[h])
      BY <1>1 DEF Reading, LinkEffect, ChallengeEffect, Kills, store, AccountsInv, TablesOK
    <2>4. QED
      BY <1>2, <1>3, <2>1, <2>2, <2>3 DEF Did, Went, Goes
  <1>4. CASE ~ok
    BY <1>1, <1>2, <1>4 DEF Did, Stopped, held
  <1>5. QED
    BY <1>3, <1>4

\* A step that reads and leaves the handler's variables alone.
LEMMA PlainDid ==
    ASSUME AccountsInv, NEW h \in Handler, NEW x \in Reading, NEW ok \in BOOLEAN,
           Read(h, x, ok, call[h]), x \notin UserSources \cup RowReaders,
           x \notin {"verifyPassword", "readPending", "readChallenge", "readCred"},
           x = "checkSession" /\ ok => sessions[call[h].session] = "live",
           x = "notTheLast" /\ ok => Cardinality(Passkeys(call[h].user)) > 1
    PROVE  Did(h)
  <1>1. PICK c : c = call[h]
    OBVIOUS
  <1>2. Read(h, x, ok, c) /\ c \in CallRecord
    BY <1>1, HasCall DEF Read, Check, GoOn, Run, At
  <1>3. ok => Same(x, call[h], c) /\ Learns(x, call[h], c)
    BY <1>1, <1>2 DEF Same, Learns, Reading, UserSources, RowReaders, UserWrites
  <1>4. QED
    BY <1>2, <1>3, ReadDid

LEMMA ReadAccountDid ==
    ASSUME AccountsInv, NEW h \in Handler, ReadAccount(h)
    PROVE  Did(h)
  <1>0. /\ pc[h] # <<>> => call[h] \in CallRecord /\ Ready(Head(pc[h]), call[h])
        /\ users \in [User -> UserRow \cup {None}] /\ tokens \in [Session -> Token \cup {None}]
    BY HasCall, IsReady DEF AccountsInv, TablesOK
  <1>1. CASE Read(h, "wait", TRUE, call[h])
    BY <1>1, PlainDid DEF Reading, UserSources, RowReaders
  <1>2. CASE Read(h, "noUser", Accounts = {}, call[h])
    <2>1. PICK ok \in BOOLEAN : ok = (Accounts = {})
      OBVIOUS
    <2>2. Read(h, "noUser", ok, call[h])
      BY <1>2, <2>1
    <2>3. QED
      BY <2>2, PlainDid DEF Reading, UserSources, RowReaders
  <1>3. ASSUME NEW u \in User, Accounts \in {{}, {u}},
               Read(h, "findUser", Accounts # {}, [call[h] EXCEPT !.user = u, !.row = users[u]])
        PROVE  Did(h)
    <2>1. PICK ok \in BOOLEAN : ok = (Accounts # {})
      OBVIOUS
    <2>2. PICK c : c = [call[h] EXCEPT !.user = u, !.row = users[u]]
      OBVIOUS
    <2>3. Read(h, "findUser", ok, c)
      BY <1>3, <2>1, <2>2
    <2>4. call[h] \in CallRecord
      BY <1>0, <2>3 DEF Read, At
    <2>5. ok => users[u] \in UserRow
      BY <1>0, <1>3, <2>1 DEF Accounts
    <2>6. ok => c \in CallRecord
      BY <2>2, <2>4, <2>5 DEF CallRecord
    <2>7. ok => Same("findUser", call[h], c)
      BY <2>2, <2>4, <2>6 DEF Same, CallRecord, UserSources, RowReaders, UserWrites
    <2>8. ok => Learns("findUser", call[h], c)
      BY <2>2, <2>4, <2>5 DEF Learns, CallRecord, UserSources, RowReaders, UserWrites
    <2>9. QED
      BY <2>3, <2>7, <2>8, ReadDid DEF Reading
  <1>4. CASE Read(h, "readUser", users[call[h].user] # None,
                  [call[h] EXCEPT !.row = users[call[h].user]])
    <2>1. PICK ok \in BOOLEAN : ok = (users[call[h].user] # None)
      OBVIOUS
    <2>2. PICK c : c = [call[h] EXCEPT !.row = users[call[h].user]]
      OBVIOUS
    <2>3. Read(h, "readUser", ok, c)
      BY <1>4, <2>1, <2>2
    <2>4. call[h] \in CallRecord /\ call[h].user \in User
      BY <1>0, <2>3 DEF Read, At, Ready, UsesUser
    <2>5. ok => users[call[h].user] \in UserRow
      BY <1>0, <2>1, <2>4
    <2>6. ok => c \in CallRecord
      BY <2>2, <2>4, <2>5 DEF CallRecord
    <2>7. ok => Same("readUser", call[h], c)
      BY <2>2, <2>4, <2>6 DEF Same, CallRecord, UserSources, RowReaders, UserWrites
    <2>8. ok => Learns("readUser", call[h], c)
      BY <2>2, <2>4, <2>5 DEF Learns, CallRecord, UserSources, RowReaders, UserWrites
    <2>9. QED
      BY <2>3, <2>7, <2>8, ReadDid DEF Reading
  <1>5. CASE Read(h, "checkVersion",
                  users[call[h].user] # None /\ users[call[h].user].tv = call[h].tv,
                  [call[h] EXCEPT !.row = users[call[h].user]])
    <2>1. PICK ok \in BOOLEAN :
               ok = (users[call[h].user] # None /\ users[call[h].user].tv = call[h].tv)
      OBVIOUS
    <2>2. PICK c : c = [call[h] EXCEPT !.row = users[call[h].user]]
      OBVIOUS
    <2>3. Read(h, "checkVersion", ok, c)
      BY <1>5, <2>1, <2>2
    <2>4. call[h] \in CallRecord /\ call[h].user \in User
      BY <1>0, <2>3 DEF Read, At, Ready, UsesUser
    <2>5. ok => users[call[h].user] \in UserRow /\ users[call[h].user].tv = call[h].tv
      BY <1>0, <2>1, <2>4
    <2>6. ok => c \in CallRecord
      BY <2>2, <2>4, <2>5 DEF CallRecord
    <2>7. ok => Same("checkVersion", call[h], c)
      BY <2>2, <2>4, <2>6 DEF Same, CallRecord, UserSources, RowReaders, UserWrites
    <2>8. ok => Learns("checkVersion", call[h], c)
      BY <2>2, <2>4, <2>5 DEF Learns, CallRecord, UserSources, RowReaders, UserWrites
    <2>9. QED
      BY <2>3, <2>7, <2>8, ReadDid DEF Reading
  <1>6. CASE Read(h, "checkSession", sessions[call[h].session] = "live", call[h])
    <2>1. PICK ok \in BOOLEAN : ok = (sessions[call[h].session] = "live")
      OBVIOUS
    <2>2. Read(h, "checkSession", ok, call[h])
      BY <1>6, <2>1
    <2>3. QED
      BY <2>1, <2>2, PlainDid DEF Reading, UserSources, RowReaders
  <1>7. CASE Read(h, "listSessions", TRUE, [call[h] EXCEPT !.listed = SessionsOf(call[h].user)])
    <2>1. PICK S \in SUBSET Session : S = SessionsOf(call[h].user)
      BY DEF SessionsOf
    <2>2. PICK c : c = [call[h] EXCEPT !.listed = S]
      OBVIOUS
    <2>3. Read(h, "listSessions", TRUE, c)
      BY <1>7, <2>1, <2>2
    <2>4. call[h] \in CallRecord
      BY <1>0, <2>3 DEF Read, At
    <2>5. c \in CallRecord
      BY <2>2, <2>4 DEF CallRecord
    <2>6. Same("listSessions", call[h], c)
      BY <2>2, <2>4, <2>5 DEF Same, CallRecord
    <2>7. Learns("listSessions", call[h], c)
      BY DEF Learns, UserSources, RowReaders, UserWrites
    <2>8. QED
      BY <2>3, <2>6, <2>7, ReadDid DEF Reading
  <1>8. CASE Read(h, "readTarget",
                  sessions[call[h].target] # "none" /\ tokens[call[h].target].user = call[h].user,
                  call[h])
    <2>1. PICK ok \in BOOLEAN :
               ok = (sessions[call[h].target] # "none" /\ tokens[call[h].target].user = call[h].user)
      OBVIOUS
    <2>2. Read(h, "readTarget", ok, call[h])
      BY <1>8, <2>1
    <2>3. QED
      BY <2>2, PlainDid DEF Reading, UserSources, RowReaders
  <1>9. CASE Read(h, "unconfirmed", ~call[h].row.verified, call[h])
    <2>1. PICK ok \in BOOLEAN : ok = ~call[h].row.verified
      <3>1. call[h].row \in UserRow
        BY <1>0, <1>9 DEF Read, At, Ready, UsesRow
      <3>2. call[h].row.verified \in BOOLEAN
        BY <3>1 DEF UserRow
      <3>3. CASE call[h].row.verified
        BY <3>3
      <3>4. CASE ~call[h].row.verified
        BY <3>4
      <3>5. QED
        BY <3>3, <3>4
    <2>2. Read(h, "unconfirmed", ok, call[h])
      BY <1>9, <2>1
    <2>3. QED
      BY <2>2, PlainDid DEF Reading, UserSources, RowReaders
  <1>10. CASE Read(h, "verifyPassword", call[h].typed = call[h].row.password,
                   [call[h] EXCEPT !.proof = call[h].typed])
    <2>1. PICK ok \in BOOLEAN : ok = (call[h].typed = call[h].row.password)
      OBVIOUS
    <2>2. PICK c : c = [call[h] EXCEPT !.proof = call[h].typed]
      OBVIOUS
    <2>3. Read(h, "verifyPassword", ok, c)
      BY <1>10, <2>1, <2>2
    <2>4. call[h] \in CallRecord
      BY <1>0, <2>3 DEF Read, At
    <2>5. c \in CallRecord
      BY <2>2, <2>4 DEF CallRecord
    <2>6. Same("verifyPassword", call[h], c)
      BY <2>2, <2>4, <2>5 DEF Same, CallRecord
    <2>7. ok => Learns("verifyPassword", call[h], c)
      BY <2>1, <2>2, <2>4 DEF Learns, CallRecord, UserSources, RowReaders, UserWrites
    <2>8. QED
      BY <2>3, <2>6, <2>7, ReadDid DEF Reading
  <1>11. QED
    BY <1>1, <1>2, <1>3, <1>4, <1>5, <1>6, <1>7, <1>8, <1>9, <1>10 DEF ReadAccount

LEMMA ReadLinkDid ==
    ASSUME AccountsInv, NEW h \in Handler, ReadLink(h)
    PROVE  Did(h)
  <1>0. /\ pc[h] # <<>> => call[h] \in CallRecord /\ Ready(Head(pc[h]), call[h])
        /\ links \in [Link -> LinkRow \cup {None}]
        /\ \A l \in Link : links[l] # None /\ links[l].kind # "pending" => links[l].user \in User
    BY HasCall, IsReady DEF AccountsInv, TablesOK
  <1> DEFINE link == links[call[h].link]
  <1>1. CASE Read(h, "readPending", link.live /\ link.kind = "pending",
                  [call[h] EXCEPT !.new = link.password])
    <2>1. /\ call[h] \in CallRecord /\ call[h].link \in Link /\ links[call[h].link] \in LinkRow
          /\ links[call[h].link] # None
      BY <1>0, <1>1 DEF Read, At, Ready, LinkSteps
    <2>2. PICK ok \in BOOLEAN : ok = (link.live /\ link.kind = "pending")
      OBVIOUS
    <2>3. PICK c : c = [call[h] EXCEPT !.new = link.password]
      OBVIOUS
    <2>4. Read(h, "readPending", ok, c)
      BY <1>1, <2>2, <2>3
    <2>5. link.password \in Nat
      BY <2>1 DEF LinkRow
    <2>6. c \in CallRecord
      BY <2>1, <2>3, <2>5 DEF CallRecord
    <2>7. Same("readPending", call[h], c)
      BY <2>1, <2>3, <2>6 DEF Same, CallRecord
    <2>8. ok => Learns("readPending", call[h], c)
      BY <2>1, <2>2 DEF Learns, Pending, Live, UserSources, RowReaders, UserWrites
    <2>9. QED
      BY <2>4, <2>7, <2>8, ReadDid DEF Reading
  <1>2. CASE Read(h, "readReset", link.live /\ link.kind = "reset", [call[h] EXCEPT !.user = link.user])
    <2>1. call[h] \in CallRecord /\ call[h].link \in Link /\ links[call[h].link] # None
      BY <1>0, <1>2 DEF Read, At, Ready, LinkSteps
    <2>2. PICK ok \in BOOLEAN : ok = (link.live /\ link.kind = "reset")
      OBVIOUS
    <2>3. PICK c : c = [call[h] EXCEPT !.user = link.user]
      OBVIOUS
    <2>4. Read(h, "readReset", ok, c)
      BY <1>2, <2>2, <2>3
    <2>5. ok => link.user \in User
      BY <1>0, <2>1, <2>2
    <2>6. ok => c \in CallRecord
      BY <2>1, <2>3, <2>5 DEF CallRecord
    <2>7. ok => Same("readReset", call[h], c)
      BY <2>1, <2>3, <2>6 DEF Same, CallRecord, UserSources
    <2>8. ok => Learns("readReset", call[h], c)
      BY <2>1, <2>3, <2>5 DEF Learns, CallRecord, RowReaders, UserWrites
    <2>9. QED
      BY <2>4, <2>7, <2>8, ReadDid DEF Reading
  <1>3. CASE Read(h, "readConfirm", link.live /\ link.kind = "confirm",
                  [call[h] EXCEPT !.user = link.user])
    <2>1. call[h] \in CallRecord /\ call[h].link \in Link /\ links[call[h].link] # None
      BY <1>0, <1>3 DEF Read, At, Ready, LinkSteps
    <2>2. PICK ok \in BOOLEAN : ok = (link.live /\ link.kind = "confirm")
      OBVIOUS
    <2>3. PICK c : c = [call[h] EXCEPT !.user = link.user]
      OBVIOUS
    <2>4. Read(h, "readConfirm", ok, c)
      BY <1>3, <2>2, <2>3
    <2>5. ok => link.user \in User
      BY <1>0, <2>1, <2>2
    <2>6. ok => c \in CallRecord
      BY <2>1, <2>3, <2>5 DEF CallRecord
    <2>7. ok => Same("readConfirm", call[h], c)
      BY <2>1, <2>3, <2>6 DEF Same, CallRecord, UserSources
    <2>8. ok => Learns("readConfirm", call[h], c)
      BY <2>1, <2>3, <2>5 DEF Learns, CallRecord, RowReaders, UserWrites
    <2>9. QED
      BY <2>4, <2>7, <2>8, ReadDid DEF Reading
  <1>4. QED
    BY <1>1, <1>2, <1>3 DEF ReadLink

LEMMA ReadPasskeyDid ==
    ASSUME AccountsInv, NEW h \in Handler, ReadPasskey(h)
    PROVE  Did(h)
  <1>0. /\ pc[h] # <<>> => call[h] \in CallRecord /\ Ready(Head(pc[h]), call[h])
        /\ creds \in [Credential -> CredentialRow \cup {None}]
        /\ challenges \in [Challenge -> ChallengeRow \cup {None}]
    BY HasCall, IsReady DEF AccountsInv, TablesOK
  <1>1. CASE Read(h, "readChallenge", Live(challenges, call[h].challenge),
                  [call[h] EXCEPT !.challengeRow = challenges[call[h].challenge]])
    <2>1. call[h] \in CallRecord /\ call[h].challenge \in Challenge
      BY <1>0, <1>1 DEF Read, At, Ready
    <2>2. PICK ok \in BOOLEAN : ok = Live(challenges, call[h].challenge)
      BY DEF Live
    <2>3. PICK c : c = [call[h] EXCEPT !.challengeRow = challenges[call[h].challenge]]
      OBVIOUS
    <2>4. Read(h, "readChallenge", ok, c)
      BY <1>1, <2>2, <2>3
    <2>5. c \in CallRecord
      BY <1>0, <2>1, <2>3 DEF CallRecord
    <2>6. Same("readChallenge", call[h], c)
      BY <2>1, <2>3, <2>5 DEF Same, CallRecord
    <2>7. ok => Learns("readChallenge", call[h], c)
      BY <2>2 DEF Learns, UserSources, RowReaders, UserWrites
    <2>8. QED
      BY <2>4, <2>6, <2>7, ReadDid DEF Reading
  <1>2. CASE Read(h, "checkChallenge", /\ call[h].challengeRow.kind = Purpose(call[h].op)
                                       /\ call[h].challengeRow.user = call[h].user, call[h])
    <2>1. PICK ok \in BOOLEAN : ok = (/\ call[h].challengeRow.kind = Purpose(call[h].op)
                                       /\ call[h].challengeRow.user = call[h].user)
      OBVIOUS
    <2>2. Read(h, "checkChallenge", ok, call[h])
      BY <1>2, <2>1
    <2>3. QED
      BY <2>2, PlainDid DEF Reading, UserSources, RowReaders
  <1>3. CASE Read(h, "readCred", Live(creds, call[h].cred) /\ creds[call[h].cred].user = call[h].user,
                  [call[h] EXCEPT !.credRow = creds[call[h].cred]])
    <2>1. call[h] \in CallRecord /\ call[h].cred \in Credential
      BY <1>0, <1>3 DEF Read, At, Ready, CredSteps
    <2>2. PICK ok \in BOOLEAN : ok = (Live(creds, call[h].cred) /\ creds[call[h].cred].user = call[h].user)
      BY DEF Live
    <2>3. PICK c : c = [call[h] EXCEPT !.credRow = creds[call[h].cred]]
      OBVIOUS
    <2>4. Read(h, "readCred", ok, c)
      BY <1>3, <2>2, <2>3
    <2>5. c \in CallRecord
      BY <1>0, <2>1, <2>3 DEF CallRecord
    <2>6. Same("readCred", call[h], c)
      BY <2>1, <2>3, <2>5 DEF Same, CallRecord
    <2>7. ok => Learns("readCred", call[h], c)
      BY <2>1, <2>2, <2>3 DEF Learns, CallRecord, UserSources, RowReaders, UserWrites
    <2>8. QED
      BY <2>4, <2>6, <2>7, ReadDid DEF Reading
  <1>4. CASE Read(h, "hasPasskeys", Passkeys(call[h].user) # {}, call[h])
    <2>1. PICK ok \in BOOLEAN : ok = (Passkeys(call[h].user) # {})
      OBVIOUS
    <2>2. Read(h, "hasPasskeys", ok, call[h])
      BY <1>4, <2>1
    <2>3. QED
      BY <2>2, PlainDid DEF Reading, UserSources, RowReaders
  <1>5. CASE Read(h, "notTheLast", Cardinality(Passkeys(call[h].user)) > 1, call[h])
    <2>1. PICK ok \in BOOLEAN :
               ok = IF Cardinality(Passkeys(call[h].user)) > 1 THEN TRUE ELSE FALSE
      OBVIOUS
    <2>2. Read(h, "notTheLast", ok, call[h])
      BY <1>5, <2>1 DEF Read, Check
    <2>3. QED
      BY <2>1, <2>2, PlainDid DEF Reading, UserSources, RowReaders
  <1>6. QED
    BY <1>1, <1>2, <1>3, <1>4, <1>5 DEF ReadPasskey

\* What a step leaves alone.
LEMMA Quiet ==
    ASSUME AccountsInv, NEW x, NEW c
    PROVE  /\ x \notin UserWrites \cup {"createUser", "eraseUser"} /\ UNCHANGED <<users, erased>>
                  => \A c2 : UserEffect(x, c, c2)
           /\ x # "startSession" /\ UNCHANGED <<sessions, tokens>> => SessionEffect(x, c)
           /\ x \notin {"createPending", "createReset", "createConfirm", "burnPending"}
              /\ UNCHANGED links => LinkEffect(x, c)
           /\ x \notin {"createCred", "writeCred", "deleteCred", "eraseCreds"} /\ UNCHANGED creds
                  => CredEffect(x, c)
           /\ x \notin {"createChallenge", "deleteChallenge"} /\ UNCHANGED challenges
                  => ChallengeEffect(x, c)
           /\ x \notin {"verifyAssertion", "verifyAttestation", "createUser"}
              /\ UNCHANGED <<mfa, passwords, settled, bornLate, resting>> => \A c2 : OtherEffect(x, c, c2)
  <1>1. x \notin UserWrites \cup {"createUser", "eraseUser"} /\ UNCHANGED <<users, erased>>
            => \A c2 : UserEffect(x, c, c2)
    BY DEF UserEffect
  <1>2. x # "startSession" /\ UNCHANGED <<sessions, tokens>> => SessionEffect(x, c)
    BY DEF SessionEffect, AccountsInv, TablesOK
  <1>3. x \notin {"createPending", "createReset", "createConfirm", "burnPending"}
        /\ UNCHANGED links => LinkEffect(x, c)
    BY DEF LinkEffect, Kills, AccountsInv, TablesOK
  <1>4. x \notin {"createCred", "writeCred", "deleteCred", "eraseCreds"} /\ UNCHANGED creds
            => CredEffect(x, c)
    BY DEF CredEffect
  <1>5. x \notin {"createChallenge", "deleteChallenge"} /\ UNCHANGED challenges
            => ChallengeEffect(x, c)
    BY DEF ChallengeEffect, Kills, AccountsInv, TablesOK
  <1>6. x \notin {"verifyAssertion", "verifyAttestation", "createUser"}
        /\ UNCHANGED <<mfa, passwords, settled, bornLate, resting>> => \A c2 : OtherEffect(x, c, c2)
    BY DEF OtherEffect
  <1>7. QED
    BY <1>1, <1>2, <1>3, <1>4, <1>5, <1>6

\* A step that goes on with the variables it has.
LEMMA Onward ==
    ASSUME NEW x, NEW c \in CallRecord,
           x \notin Reading \cup UserWrites \cup {"createUser", "verifyAssertion"}
    PROVE  Same(x, c, c) /\ Learns(x, c, c)
  BY DEF Same, Learns, Reading, UserSources, RowReaders

\* A writing step: what is left to show is what it does to the tables.
LEMMA WriteDid ==
    ASSUME AccountsInv, NEW h \in Handler, NEW x, Write(h, x, call[h]),
           x \notin Reading \cup UserWrites \cup {"createUser", "verifyAssertion"},
           UserEffect(x, call[h], call[h]), SessionEffect(x, call[h]), LinkEffect(x, call[h]),
           CredEffect(x, call[h]), ChallengeEffect(x, call[h]), OtherEffect(x, call[h], call[h])
    PROVE  Did(h)
  <1>1. PICK c : c = call[h]
    OBVIOUS
  <1>2. At(h, x) /\ GoOn(h, c)
    BY <1>1 DEF Write, GoOn, Run
  <1>3. /\ Runs(h) /\ Head(pc[h]) = x /\ Loop' /\ UNCHANGED <<sync, mix>>
        /\ Ran(h, Tail(pc[h]), c)
    BY <1>2, GoingOn
  <1>4. Same(x, call[h], c) /\ Learns(x, call[h], c)
    <2>1. c \in CallRecord
      BY <1>1, <1>3, HasCall DEF Runs
    <2>2. QED
      BY <1>1, <2>1, Onward
  <1>5. Goes(x, call[h], c)
    BY <1>1, <1>4 DEF Goes
  <1>6. QED
    BY <1>3, <1>5 DEF Did, Went

LEMMA StartSessionDid ==
    ASSUME AccountsInv, NEW h \in Handler, startSession(h)
    PROVE  Did(h)
  <1>1. /\ HasFresh(tokens) /\ Write(h, "startSession", call[h])
        /\ sessions' = [sessions EXCEPT ![Fresh(tokens)] = "live"]
        /\ tokens' = [tokens EXCEPT ![Fresh(tokens)] = Minted(call[h])]
        /\ UNCHANGED <<users, links, creds, challenges, history>> /\ mfa' = mfa
    BY DEF startSession, Write
  <1>2. Fresh(tokens) \in Session /\ tokens[Fresh(tokens)] = None
    BY <1>1 DEF HasFresh, Fresh, AccountsInv, TablesOK
  <1>3. SessionEffect("startSession", call[h])
    BY <1>1, <1>2 DEF SessionEffect
  <1>4. QED
    BY <1>1, <1>3, Quiet, WriteDid DEF Reading, UserWrites, history

LEMMA UpdateSessionDid ==
    ASSUME AccountsInv, NEW h \in Handler, UpdateSession(h)
    PROVE  Did(h)
  <1>0. sessions \in [Session -> {"none", "live", "revoked"}]
        /\ \A s \in Session : sessions[s] # "none" => tokens[s] # None
    BY DEF AccountsInv, TablesOK
  <1>1. UNCHANGED <<users, links, creds, challenges, tokens, history>>
    BY DEF UpdateSession
  <1>2. CASE Write(h, "touchSession", call[h]) /\ sessions' = Marked(call[h].session, "live")
    <2>1. SessionEffect("touchSession", call[h])
      BY <1>0, <1>1, <1>2 DEF SessionEffect, Marked
    <2>2. mfa' = mfa
      BY <1>2 DEF Write
    <2>3. QED
      BY <1>1, <1>2, <2>1, <2>2, Quiet, WriteDid DEF Reading, UserWrites, history
  <1>3. CASE Write(h, "revokeTarget", call[h]) /\ sessions' = Marked(call[h].target, "revoked")
    <2>1. SessionEffect("revokeTarget", call[h])
      BY <1>0, <1>1, <1>3 DEF SessionEffect, Marked
    <2>2. mfa' = mfa
      BY <1>3 DEF Write
    <2>3. QED
      BY <1>1, <1>3, <2>1, <2>2, Quiet, WriteDid DEF Reading, UserWrites, history
  <1>4. CASE /\ Write(h, "eraseSessions", call[h])
             /\ sessions' = [s \in Session |-> IF tokens[s] # None /\ tokens[s].user = call[h].user
                                               THEN "none" ELSE sessions[s]]
    <2>1. SessionEffect("eraseSessions", call[h])
      BY <1>0, <1>1, <1>4 DEF SessionEffect
    <2>2. mfa' = mfa
      BY <1>4 DEF Write
    <2>3. QED
      BY <1>1, <1>4, <2>1, <2>2, Quiet, WriteDid DEF Reading, UserWrites, history
  <1>5. QED
    BY <1>2, <1>3, <1>4 DEF UpdateSession

LEMMA RevokeListedDid ==
    ASSUME AccountsInv, NEW h \in Handler, revokeListed(h)
    PROVE  Did(h)
  <1>1. /\ At(h, "revokeSessions") /\ UNCHANGED <<users, links, creds, challenges, held, history>>
    BY DEF revokeListed
  <1>2. CASE GoOn(h, call[h]) /\ UNCHANGED sessions
    <2>1. Write(h, "revokeSessions", call[h]) /\ UNCHANGED <<tokens, mfa>>
      BY <1>1, <1>2 DEF Write, held
    <2>2. SessionEffect("revokeSessions", call[h])
      BY <1>2, <2>1, Quiet
    <2>3. QED
      BY <1>1, <2>1, <2>2, Quiet, WriteDid DEF Reading, UserWrites, history
  <1>3. ASSUME NEW s \in call[h].listed, Run(h, pc[h], [call[h] EXCEPT !.listed = @ \ {s}]),
               sessions' = Marked(s, "revoked")
        PROVE  Did(h)
    <2>1. Runs(h) /\ Head(pc[h]) = "revokeSessions" /\ turn \in {None, h}
      BY <1>1 DEF At, Runs
    <2>2. PICK t \in Seq(Step) : t = pc[h]
      BY <2>1, HasCall DEF Runs
    <2>3. PICK c : c = [call[h] EXCEPT !.listed = @ \ {s}]
      OBVIOUS
    <2>4. Run(h, t, c)
      BY <1>3, <2>2, <2>3
    <2>5. Loop' /\ Ran(h, t, c) /\ UNCHANGED <<sync, mix>>
      BY <2>1, <2>4, RunKeeps, RunRan DEF AccountsInv, Loop, Run
    <2>6. SessionEffect("revokeSessions", call[h])
      BY <1>1, <1>3 DEF SessionEffect, Marked, held, AccountsInv, TablesOK
    <2>7. Again(h)
      BY <1>1, <2>1, <2>2, <2>3, <2>5, <2>6 DEF Again
    <2>8. QED
      BY <2>1, <2>5, <2>7 DEF Did
  <1>4. QED
    BY <1>2, <1>3 DEF revokeListed

LEMMA DeadKills ==
    ASSUME NEW table, NEW S, DOMAIN table = S, NEW ids, \A l \in S : l \in ids => table[l] # None,
           NEW new, new = Dead(table, ids)
    PROVE  new = [l \in S |-> new[l]] /\ \A l \in S : Kills(table, new, l)
  BY DEF Kills, Dead

LEMMA UpdateLinksDid ==
    ASSUME AccountsInv, NEW h \in Handler, UpdateLinks(h)
    PROVE  Did(h)
  <1>0. /\ UNCHANGED <<users, sessions, creds, challenges, tokens, history>>
        /\ links \in [Link -> LinkRow \cup {None}]
        /\ pc[h] # <<>> => Ready(Head(pc[h]), call[h])
    BY IsReady DEF UpdateLinks, AccountsInv, TablesOK
  <1>1. ASSUME NEW step \in {"createPending", "createReset", "createConfirm"},
               NEW kind \in {"pending", "reset", "confirm"},
               kind = "pending" \/ step # "createPending", HasFresh(links),
               Write(h, step, call[h]),
               links' = [links EXCEPT ![Fresh(links)] = NewLink(kind, call[h])]
        PROVE  Did(h)
    <2>1. Fresh(links) \in Link /\ links[Fresh(links)] = None
      BY <1>0, <1>1 DEF HasFresh, Fresh
    <2>2. LinkEffect(step, call[h])
      BY <1>1, <2>1 DEF LinkEffect
    <2>3. mfa' = mfa
      BY <1>1 DEF Write
    <2>4. QED
      BY <1>0, <1>1, <2>2, <2>3, Quiet, WriteDid DEF Reading, UserWrites, history
  <1>2. ASSUME NEW step \in {"burnPending", "burnResets", "burnConfirm"},
               NEW kind \in {"pending", "reset", "confirm"}, step = "burnPending" => kind = "pending",
               Write(h, step, call[h]), links' = Dead(links, LinksOf(kind, call[h].user))
        PROVE  Did(h)
    <2>0. DOMAIN links = Link /\ \A l \in Link : l \in LinksOf(kind, call[h].user) => links[l] # None
      BY <1>0 DEF LinksOf
    <2>1. links' = [l \in Link |-> links'[l]] /\ \A l \in Link : Kills(links, links', l)
      BY <1>2, <2>0, DeadKills
    <2>2. ASSUME step = "burnPending", NEW l \in Link PROVE ~Pending(l)'
      <3>1. links' = [k \in Link |-> IF k \in LinksOf("pending", call[h].user)
                                     THEN [links[k] EXCEPT !.live = FALSE] ELSE links[k]]
        BY <1>0, <1>2, <2>2 DEF Dead
      <3>2. CASE links[l] # None /\ links[l].kind = "pending"
        <4>1. links[l] \in LinkRow /\ l \in LinksOf("pending", call[h].user)
          BY <1>0, <3>2 DEF LinksOf
        <4>2. links'[l].live = FALSE
          BY <3>1, <4>1 DEF LinkRow
        <4>3. QED
          BY <4>2 DEF Pending, Live
      <3>3. CASE ~(links[l] # None /\ links[l].kind = "pending")
        <4>1. l \notin LinksOf("pending", call[h].user) /\ links'[l] = links[l]
          BY <3>1, <3>3 DEF LinksOf
        <4>2. QED
          BY <3>3, <4>1 DEF Pending, Live
      <3>4. QED
        BY <3>2, <3>3
    <2>3. LinkEffect(step, call[h])
      BY <2>1, <2>2 DEF LinkEffect
    <2>4. mfa' = mfa
      BY <1>2 DEF Write
    <2>5. QED
      BY <1>0, <1>2, <2>3, <2>4, Quiet, WriteDid DEF Reading, UserWrites, history
  <1>3. CASE Write(h, "useLink", call[h]) /\ links' = Dead(links, {call[h].link})
    <2>1. links[call[h].link] # None
      BY <1>0, <1>3 DEF Write, At, Ready, LinkSteps
    <2>2. links' = [l \in Link |-> links'[l]] /\ \A l \in Link : Kills(links, links', l)
      <3>1. DOMAIN links = Link /\ \A l \in Link : l \in {call[h].link} => links[l] # None
        BY <1>0, <2>1
      <3>2. QED
        BY <1>3, <3>1, DeadKills
    <2>3. LinkEffect("useLink", call[h])
      BY <2>2 DEF LinkEffect
    <2>4. mfa' = mfa
      BY <1>3 DEF Write
    <2>5. QED
      BY <1>0, <1>3, <2>3, <2>4, Quiet, WriteDid DEF Reading, UserWrites, history
  <1>4. QED
    BY <1>1, <1>2, <1>3 DEF UpdateLinks

LEMMA EraseUserDid ==
    ASSUME AccountsInv, NEW h \in Handler, eraseUser(h)
    PROVE  Did(h)
  <1>1. /\ Write(h, "eraseUser", call[h]) /\ mfa' = mfa
        /\ users' = [users EXCEPT ![call[h].user] = None] /\ erased' = erased \cup {call[h].user}
        /\ UNCHANGED <<sessions, links, creds, challenges, tokens>>
        /\ UNCHANGED <<passwords, settled, bornLate, resting>>
    BY DEF eraseUser, Write
  <1>2. UserEffect("eraseUser", call[h], call[h])
    BY <1>1 DEF UserEffect
  <1>3. SessionEffect("eraseUser", call[h])
    BY <1>1, Quiet
  <1>4. LinkEffect("eraseUser", call[h])
    BY <1>1, Quiet
  <1>5. CredEffect("eraseUser", call[h])
    BY <1>1, Quiet
  <1>6. ChallengeEffect("eraseUser", call[h])
    BY <1>1, Quiet
  <1>7. OtherEffect("eraseUser", call[h], call[h])
    BY <1>1, Quiet
  <1>8. QED
    BY <1>1, <1>2, <1>3, <1>4, <1>5, <1>6, <1>7, WriteDid DEF Reading, UserWrites

LEMMA UpdateChallengesDid ==
    ASSUME AccountsInv, NEW h \in Handler, UpdateChallenges(h)
    PROVE  Did(h)
  <1>0. /\ UNCHANGED <<users, sessions, links, creds, tokens, history>>
        /\ challenges \in [Challenge -> ChallengeRow \cup {None}]
        /\ pc[h] # <<>> => Ready(Head(pc[h]), call[h])
    BY IsReady DEF UpdateChallenges, AccountsInv, TablesOK
  <1>1. CASE /\ HasFresh(challenges) /\ Write(h, "createChallenge", call[h])
             /\ challenges' = [challenges EXCEPT ![Fresh(challenges)] =
                    [user |-> call[h].user, kind |-> Purpose(call[h].op), live |-> TRUE]]
    <2>1. Fresh(challenges) \in Challenge /\ challenges[Fresh(challenges)] = None
      BY <1>0, <1>1 DEF HasFresh, Fresh
    <2>2. call[h].user \in User
      BY <1>0, <1>1 DEF Write, At, Ready, UsesUser
    <2>3. [user |-> call[h].user, kind |-> Purpose(call[h].op), live |-> TRUE] \in ChallengeRow
      BY <2>2 DEF ChallengeRow, Purpose
    <2>4. ChallengeEffect("createChallenge", call[h])
      BY <1>1, <2>1, <2>3 DEF ChallengeEffect
    <2>5. mfa' = mfa
      BY <1>1 DEF Write
    <2>6. UserEffect("createChallenge", call[h], call[h])
      BY <1>0, <2>5, Quiet DEF UserWrites, history
    <2>7. SessionEffect("createChallenge", call[h])
      BY <1>0, <2>5, Quiet
    <2>8. LinkEffect("createChallenge", call[h])
      BY <1>0, <2>5, Quiet
    <2>9. CredEffect("createChallenge", call[h])
      BY <1>0, <2>5, Quiet
    <2>10. OtherEffect("createChallenge", call[h], call[h])
      BY <1>0, <2>5, Quiet DEF UserWrites, history
    <2>11. QED
      BY <1>1, <2>4, <2>6, <2>7, <2>8, <2>9, <2>10, WriteDid DEF Reading, UserWrites
  <1>2. CASE Write(h, "deleteChallenge", call[h]) /\ challenges' = Dead(challenges, {call[h].challenge})
    <2>1. call[h].challenge \in Challenge /\ challenges[call[h].challenge] # None
      BY <1>0, <1>2 DEF Write, At, Ready
    <2>2. /\ challenges' = [k \in Challenge |-> challenges'[k]]
          /\ \A k \in Challenge : Kills(challenges, challenges', k)
      <3>1. PICK ids : ids = {call[h].challenge}
        OBVIOUS
      <3>2. DOMAIN challenges = Challenge /\ \A k \in Challenge : k \in ids => challenges[k] # None
        BY <1>0, <2>1, <3>1
      <3>3. challenges' = Dead(challenges, ids)
        BY <1>2, <3>1
      <3>4. QED
        BY <3>2, <3>3, DeadKills
    <2>3. ASSUME NEW k \in Challenge, k = call[h].challenge PROVE challenges'[k].live = FALSE
      BY <1>0, <1>2, <2>1, <2>3 DEF Dead, ChallengeRow
    <2>4. ChallengeEffect("deleteChallenge", call[h])
      BY <2>1, <2>2, <2>3 DEF ChallengeEffect, Live
    <2>5. mfa' = mfa
      BY <1>2 DEF Write
    <2>6. UserEffect("deleteChallenge", call[h], call[h])
      BY <1>0, <2>5, Quiet DEF UserWrites, history
    <2>7. SessionEffect("deleteChallenge", call[h])
      BY <1>0, <2>5, Quiet
    <2>8. LinkEffect("deleteChallenge", call[h])
      BY <1>0, <2>5, Quiet
    <2>9. CredEffect("deleteChallenge", call[h])
      BY <1>0, <2>5, Quiet
    <2>10. OtherEffect("deleteChallenge", call[h], call[h])
      BY <1>0, <2>5, Quiet DEF UserWrites, history
    <2>11. QED
      BY <1>2, <2>4, <2>6, <2>7, <2>8, <2>9, <2>10, WriteDid DEF Reading, UserWrites
  <1>3. CASE /\ Write(h, "eraseChallenges", call[h])
             /\ challenges' = Dead(challenges, {k \in Challenge :
                    Live(challenges, k) /\ challenges[k].user = call[h].user})
    <2> DEFINE ids == {k \in Challenge : Live(challenges, k) /\ challenges[k].user = call[h].user}
    <2>0. DOMAIN challenges = Challenge /\ \A k \in Challenge : k \in ids => challenges[k] # None
      BY <1>0 DEF Live
    <2>1. /\ challenges' = [k \in Challenge |-> challenges'[k]]
          /\ \A k \in Challenge : Kills(challenges, challenges', k)
      BY <1>3, <2>0, DeadKills
    <2>2. ChallengeEffect("eraseChallenges", call[h])
      BY <2>1 DEF ChallengeEffect
    <2>3. mfa' = mfa
      BY <1>3 DEF Write
    <2>4. UserEffect("eraseChallenges", call[h], call[h])
      BY <1>0, <2>3, Quiet DEF UserWrites, history
    <2>5. SessionEffect("eraseChallenges", call[h])
      BY <1>0, <2>3, Quiet
    <2>6. LinkEffect("eraseChallenges", call[h])
      BY <1>0, <2>3, Quiet
    <2>7. CredEffect("eraseChallenges", call[h])
      BY <1>0, <2>3, Quiet
    <2>8. OtherEffect("eraseChallenges", call[h], call[h])
      BY <1>0, <2>3, Quiet DEF UserWrites, history
    <2>9. QED
      BY <1>3, <2>2, <2>4, <2>5, <2>6, <2>7, <2>8, WriteDid DEF Reading, UserWrites
  <1>4. QED
    BY <1>1, <1>2, <1>3 DEF UpdateChallenges

LEMMA UpdateCredsDid ==
    ASSUME AccountsInv, NEW h \in Handler, UpdateCreds(h)
    PROVE  Did(h)
  <1>0. UNCHANGED <<users, sessions, links, challenges, tokens, history>>
    BY DEF UpdateCreds
  <1>1. ASSUME NEW step \in {"createCred", "writeCred", "deleteCred", "eraseCreds"},
               Write(h, step, call[h]), CredEffect(step, call[h])
        PROVE  Did(h)
    <2>1. mfa' = mfa
      BY <1>1 DEF Write
    <2>2. QED
      BY <1>0, <1>1, <2>1, Quiet, WriteDid DEF Reading, UserWrites, history
  <1>2. QED
    BY <1>1 DEF UpdateCreds, CredEffect

LEMMA GoesDid ==
    ASSUME AccountsInv, NEW h \in Handler, NEW x, At(h, x), NEW c, GoOn(h, c), Goes(x, call[h], c)
    PROVE  Did(h)
  BY GoingOn DEF Did, Went

LEMMA StopDid ==
    ASSUME AccountsInv, NEW h \in Handler, NEW x, At(h, x), Run(h, <<>>, NoCall),
           UNCHANGED <<store, tokens, history>>,
           mfa' = mfa \/ (x = "listPasskeys" /\ mfa' = mfa \cup {Minted(call[h])})
    PROVE  Did(h)
  <1>1. Runs(h) /\ Head(pc[h]) = x /\ turn \in {None, h}
    BY DEF At, Runs
  <1>2. QED
    BY <1>1, Stopping DEF Did, Stopped

LEMMA UpdateUserDid ==
    ASSUME AccountsInv, NEW h \in Handler, UpdateUser(h)
    PROVE  Did(h)
  <1>0. /\ UNCHANGED <<sessions, links, creds, challenges, tokens, history>>
        /\ pc[h] # <<>> => call[h] \in CallRecord /\ Ready(Head(pc[h]), call[h])
    BY HasCall, IsReady DEF UpdateUser
  <1>1. ASSUME NEW step \in UserWrites, NEW row \in UserRow, NEW c, Write(h, step, c),
               \/ users' = Update(call[h].user, row)
               \/ step = "writeConfirmed" /\ row = call[h].row /\ users' = users,
               call[h].row \in UserRow,
               Same(step, call[h], c), c.row = row, row.tv >= call[h].row.tv,
               row.tv = call[h].row.tv => row.password = call[h].row.password,
               IF step = "writePassword" THEN c.proof = row.password
                                         ELSE row.password = call[h].row.password
        PROVE  Did(h)
    <2>1. At(h, step) /\ GoOn(h, c) /\ mfa' = mfa
      BY <1>1 DEF Write
    <2>5. Learns(step, call[h], c)
      BY <1>1 DEF Learns, UserWrites, UserSources, RowReaders
    <2>6. UserEffect(step, call[h], c)
      BY <1>0, <1>1 DEF UserEffect, history
    <2>7. SessionEffect(step, call[h])
      BY <1>0, Quiet DEF UserWrites
    <2>8. LinkEffect(step, call[h])
      BY <1>0, Quiet DEF UserWrites
    <2>9. CredEffect(step, call[h])
      BY <1>0, Quiet DEF UserWrites
    <2>10. ChallengeEffect(step, call[h])
      BY <1>0, Quiet DEF UserWrites
    <2>11. OtherEffect(step, call[h], c)
      BY <1>0, <2>1 DEF OtherEffect, UserWrites, history
    <2>12. Goes(step, call[h], c)
      BY <1>1, <2>5, <2>6, <2>7, <2>8, <2>9, <2>10, <2>11 DEF Goes
    <2>13. QED
      BY <2>1, <2>12, GoesDid
  <1>2. ASSUME NEW step \in UserWrites, NEW c, Write(h, step, c)
        PROVE  call[h] \in CallRecord /\ call[h].row \in UserRow
    BY <1>0, <1>2 DEF Write, At, Ready, UsesRow, UserWrites
  <1>3. CASE /\ Write(h, "writePassword", [[call[h] EXCEPT !.proof = call[h].new]
                                               EXCEPT !.row = WithPassword(call[h].row, call[h].new)])
             /\ users' = Update(call[h].user, WithPassword(call[h].row, call[h].new))
    <2>1. PICK row : row = WithPassword(call[h].row, call[h].new)
      OBVIOUS
    <2>2. PICK c : c = [[call[h] EXCEPT !.proof = call[h].new] EXCEPT !.row = row]
      OBVIOUS
    <2>3. Write(h, "writePassword", c) /\ users' = Update(call[h].user, row)
      BY <1>3, <2>1, <2>2
    <2>4. call[h] \in CallRecord /\ call[h].row \in UserRow /\ call[h].new \in Nat
      BY <1>2, <2>3 DEF UserWrites, CallRecord
    <2>5. row \in UserRow /\ row.tv = call[h].row.tv + 1 /\ row.password = call[h].new
      <3>1. PICK old \in UserRow, n \in Nat : old = call[h].row /\ n = call[h].new
        BY <2>4
      <3>2. row = [old EXCEPT !.password = n, !.tv = @ + 1]
        BY <2>1, <3>1 DEF WithPassword
      <3>3. PICK next \in UserRow : next = [old EXCEPT !.password = n]
        BY DEF UserRow
      <3>4. next.tv = old.tv /\ next.password = n
        BY <3>3 DEF UserRow
      <3>5. row = [next EXCEPT !.tv = @ + 1]
        BY <3>2, <3>3
      <3>6. row \in UserRow /\ row.tv = old.tv + 1 /\ row.password = n
        BY <3>4, <3>5 DEF UserRow
      <3>7. QED
        BY <3>1, <3>6
    <2>6. c.row = row /\ c.proof = call[h].new /\ Same("writePassword", call[h], c)
      BY <2>2, <2>4, <2>5 DEF CallRecord, Same, UserWrites
    <2>7. call[h].row.tv \in Nat
      BY <2>4 DEF UserRow
    <2>8. QED
      BY <1>1, <2>3, <2>4, <2>5, <2>6, <2>7 DEF UserWrites
  <1>4. CASE /\ Write(h, "writeVersion",
                      [call[h] EXCEPT !.row = [call[h].row EXCEPT !.tv = @ + 1]])
             /\ users' = Update(call[h].user, [call[h].row EXCEPT !.tv = @ + 1])
    <2>1. PICK row : row = [call[h].row EXCEPT !.tv = @ + 1]
      OBVIOUS
    <2>2. PICK c : c = [call[h] EXCEPT !.row = row]
      OBVIOUS
    <2>3. Write(h, "writeVersion", c) /\ users' = Update(call[h].user, row)
      BY <1>4, <2>1, <2>2
    <2>4. call[h] \in CallRecord /\ call[h].row \in UserRow
      BY <1>2, <2>3 DEF UserWrites
    <2>5. row \in UserRow /\ row.tv = call[h].row.tv + 1 /\ row.password = call[h].row.password
      BY <2>1, <2>4 DEF UserRow
    <2>6. c.row = row /\ Same("writeVersion", call[h], c)
      BY <2>2, <2>4, <2>5 DEF CallRecord, Same, UserWrites
    <2>7. call[h].row.tv \in Nat
      BY <2>4 DEF UserRow
    <2>8. QED
      BY <1>1, <2>3, <2>4, <2>5, <2>6, <2>7 DEF UserWrites
  <1>5. CASE /\ Write(h, "writeConfirmed", [call[h] EXCEPT !.row.verified = TRUE])
             /\ users' = Confirm(call[h])
    <2>1. PICK row : row = [call[h].row EXCEPT !.verified = TRUE]
      OBVIOUS
    <2>2. PICK c : c = [call[h] EXCEPT !.row = row]
      OBVIOUS
    <2>3. Write(h, "writeConfirmed", c)
      BY <1>5, <2>1, <2>2
    <2>4. call[h] \in CallRecord /\ call[h].row \in UserRow
      BY <1>2, <2>3 DEF UserWrites
    <2>a. \/ users' = Update(call[h].user, row)
          \/ row = call[h].row /\ users' = users
      BY <1>5, <2>1, <2>4 DEF Confirm, UserRow
    <2>5. row \in UserRow /\ row.tv = call[h].row.tv /\ row.password = call[h].row.password
      BY <2>1, <2>4 DEF UserRow
    <2>6. c.row = row /\ Same("writeConfirmed", call[h], c)
      BY <2>2, <2>4, <2>5 DEF CallRecord, Same, UserWrites
    <2>7. call[h].row.tv \in Nat
      BY <2>4 DEF UserRow
    <2>8. QED
      BY <1>1, <2>3, <2>4, <2>a, <2>5, <2>6, <2>7 DEF UserWrites
  <1>6. QED
    BY <1>3, <1>4, <1>5 DEF UpdateUser

LEMMA CreateUserDid ==
    ASSUME AccountsInv, NEW h \in Handler, createUser(h)
    PROVE  Did(h)
  <1>1. PICK u : u = CHOOSE x \in User \ erased : users[x] = None
    OBVIOUS
  <1>2. PICK row : row = [tv |-> 0, password |-> call[h].new, verified |-> TRUE]
    OBVIOUS
  <1>3. PICK c : c = [call[h] EXCEPT !.user = u, !.row = row, !.proof = call[h].new]
    OBVIOUS
  <1>4. PICK ok \in BOOLEAN : ok = (Accounts = {})
    OBVIOUS
  <1>5. /\ \E x \in User \ erased : users[x] = None
        /\ At(h, "createUser") /\ Check(h, ok, c)
        /\ users' = IF ok THEN [users EXCEPT ![u] = row] ELSE users
        /\ bornLate' = IF ok /\ links[call[h].link].epoch < Cardinality(erased)
                       THEN bornLate \cup {u} ELSE bornLate
        /\ UNCHANGED <<sessions, links, creds, challenges, held>>
        /\ UNCHANGED <<passwords, erased, settled, resting>>
    BY <1>1, <1>2, <1>3, <1>4 DEF createUser
  <1>6. u \in User \ erased /\ users[u] = None
    BY <1>1, <1>5
  <1>7. call[h] \in CallRecord
    BY <1>5, HasCall DEF At
  <1>8. row \in UserRow /\ row.password = call[h].new
    BY <1>2, <1>7 DEF UserRow, CallRecord
  <1>9. CASE ok
    <2>1. c \in CallRecord /\ c.user = u /\ c.row = row /\ c.proof = row.password
      <3>1. PICK n \in Nat : n = call[h].new
        BY <1>7 DEF CallRecord
      <3>2. c = [call[h] EXCEPT !.user = u, !.row = row, !.proof = n]
        BY <1>3, <3>1
      <3>a. u \in User /\ row \in UserRow
        BY <1>6, <1>8
      <3>3. PICK next : next = [call[h] EXCEPT !.user = u, !.row = row]
        OBVIOUS
      <3>4. next \in CallRecord /\ next.user = u /\ next.row = row
        BY <1>7, <3>a, <3>3 DEF CallRecord
      <3>5. c = [next EXCEPT !.proof = n]
        BY <3>2, <3>3
      <3>6. c \in CallRecord /\ c.user = u /\ c.row = row /\ c.proof = n
        BY <3>4, <3>5 DEF CallRecord
      <3>7. QED
        BY <1>8, <3>1, <3>6
    <2>2. Same("createUser", call[h], c)
      BY <1>3, <1>7, <2>1 DEF Same, CallRecord, UserSources, RowReaders
    <2>3. Learns("createUser", call[h], c)
      BY <1>6, <1>8, <2>1 DEF Learns, UserWrites
    <2>4. UserEffect("createUser", call[h], c)
      BY <1>5, <1>6, <1>9, <2>1 DEF UserEffect
    <2>5. OtherEffect("createUser", call[h], c)
      BY <1>5, <1>9, <2>1 DEF OtherEffect, held
    <2>6. SessionEffect("createUser", call[h])
      BY <1>5, Quiet DEF held
    <2>7. LinkEffect("createUser", call[h])
      BY <1>5, Quiet
    <2>8. CredEffect("createUser", call[h])
      BY <1>5, Quiet
    <2>9. ChallengeEffect("createUser", call[h])
      BY <1>5, Quiet
    <2>10. Goes("createUser", call[h], c)
      BY <2>2, <2>3, <2>4, <2>5, <2>6, <2>7, <2>8, <2>9 DEF Goes
    <2>11. QED
      BY <1>5, <1>9, <2>10, GoesDid DEF Check
  <1>10. CASE ~ok
    BY <1>5, <1>10, StopDid DEF Check, store, held, history
  <1>11. QED
    BY <1>9, <1>10

LEMMA ListPasskeysDid ==
    ASSUME AccountsInv, NEW h \in Handler, listPasskeys(h)
    PROVE  Did(h)
  <1>1. PICK ok \in BOOLEAN : ok = (Passkeys(call[h].user) = {})
    OBVIOUS
  <1>2. /\ At(h, "listPasskeys") /\ Check(h, ok, call[h])
        /\ mfa' = IF ok THEN mfa ELSE mfa \cup {Minted(call[h])}
        /\ UNCHANGED <<store, tokens, history>>
    BY <1>1 DEF listPasskeys
  <1>3. CASE ok
    <2>1. Write(h, "listPasskeys", call[h])
      BY <1>2, <1>3 DEF Write, Check
    <2>2. /\ UNCHANGED <<users, erased>> /\ UNCHANGED <<sessions, tokens>> /\ UNCHANGED links
          /\ UNCHANGED creds /\ UNCHANGED challenges
          /\ UNCHANGED <<mfa, passwords, settled, bornLate, resting>>
      BY <1>2, <1>3 DEF store, history
    <2>3. UserEffect("listPasskeys", call[h], call[h])
      BY <2>2, Quiet DEF UserWrites
    <2>4. SessionEffect("listPasskeys", call[h])
      BY <2>2, Quiet
    <2>5. LinkEffect("listPasskeys", call[h])
      BY <2>2, Quiet
    <2>6. CredEffect("listPasskeys", call[h])
      BY <2>2, Quiet
    <2>7. ChallengeEffect("listPasskeys", call[h])
      BY <2>2, Quiet
    <2>8. OtherEffect("listPasskeys", call[h], call[h])
      BY <2>2, Quiet
    <2>9. QED
      BY <2>1, <2>3, <2>4, <2>5, <2>6, <2>7, <2>8, WriteDid DEF Reading, UserWrites
  <1>4. CASE ~ok
    BY <1>2, <1>4, StopDid DEF Check
  <1>5. QED
    BY <1>3, <1>4

LEMMA SettleDid ==
    ASSUME AccountsInv, NEW h \in Handler, Settle(h)
    PROVE  Did(h)
  <1>1. PICK ok \in BOOLEAN :
            ok = (call[h].op = "passkeyLogin" => CounterMoves(call[h].count, call[h].credRow.count))
    BY DEF CounterMoves
  <1>2. PICK x \in {"verifyAssertion", "verifyAttestation"} : At(h, x)
    BY DEF Settle
  <1>3. PICK c : c = call[h]
    OBVIOUS
  <1>4. /\ Check(h, ok, c) /\ UNCHANGED <<store, held, passwords, erased, bornLate, resting>>
        /\ settled' = IF ok THEN [settled EXCEPT ![c.challenge] = @ + 1] ELSE settled
    BY <1>1, <1>3 DEF Settle
  <1>5. c \in CallRecord /\ Ready(x, c)
    BY <1>2, <1>3, HasCall, IsReady DEF At
  <1>6. CASE ok
    <2>1. Same(x, call[h], c)
      BY <1>3, <1>5 DEF Same
    <2>2. x = "verifyAssertion" => CounterMoves(c.count, c.credRow.count)
      BY <1>1, <1>3, <1>5, <1>6 DEF Ready
    <2>3. Learns(x, call[h], c)
      BY <1>3, <2>2 DEF Learns, UserSources, RowReaders, UserWrites
    <2>4. /\ UNCHANGED <<users, erased>> /\ UNCHANGED <<sessions, tokens>> /\ UNCHANGED links
          /\ UNCHANGED creds /\ UNCHANGED challenges /\ UNCHANGED <<mfa, passwords, bornLate, resting>>
      BY <1>4 DEF store, held
    <2>5. UserEffect(x, call[h], c)
      BY <2>4 DEF UserEffect, UserWrites
    <2>6. SessionEffect(x, call[h])
      BY <2>4, Quiet
    <2>7. LinkEffect(x, call[h])
      BY <2>4, Quiet
    <2>8. CredEffect(x, call[h])
      BY <2>4, Quiet
    <2>9. ChallengeEffect(x, call[h])
      BY <2>4, Quiet
    <2>10. OtherEffect(x, call[h], c)
      BY <1>3, <1>4, <1>6, <2>4 DEF OtherEffect
    <2>11. Goes(x, call[h], c)
      BY <2>1, <2>3, <2>5, <2>6, <2>7, <2>8, <2>9, <2>10 DEF Goes
    <2>12. QED
      BY <1>2, <1>4, <1>6, <2>11, GoesDid DEF Check
  <1>7. CASE ~ok
    BY <1>2, <1>4, <1>7, StopDid DEF Check, store, held, history
  <1>8. QED
    BY <1>6, <1>7

LEMMA FailDid ==
    ASSUME AccountsInv, NEW h \in Handler, Fail(h)
    PROVE  Did(h)
  <1>1. Break(h) /\ UNCHANGED <<store, held, history>> /\ Runs(h) /\ UNCHANGED <<sync, mix>>
    BY DEF Fail, Break, Runs
  <1>2. Loop' /\ Ran(h, <<>>, NoCall)
    BY <1>1, BreakRan DEF AccountsInv, Loop
  <1>3. QED
    BY <1>1, <1>2 DEF Did, Stopped, held

\* A step of a request under way.
Under(h) ==
    \/ ReadAccount(h) \/ ReadLink(h) \/ ReadPasskey(h)
    \/ UpdateUser(h) \/ createUser(h) \/ startSession(h) \/ listPasskeys(h)
    \/ UpdateSession(h) \/ revokeListed(h) \/ UpdateLinks(h) \/ eraseUser(h)
    \/ Settle(h) \/ UpdateChallenges(h) \/ UpdateCreds(h) \/ Fail(h)

LEMMA StepDid ==
    ASSUME AccountsInv, NEW h \in Handler, Under(h)
    PROVE  Did(h)
  BY ReadAccountDid, ReadLinkDid, ReadPasskeyDid, UpdateUserDid, CreateUserDid, StartSessionDid,
     ListPasskeysDid, UpdateSessionDid, RevokeListedDid, UpdateLinksDid, EraseUserDid, SettleDid,
     UpdateChallengesDid, UpdateCredsDid, FailDid DEF Under

-----------------------------------------------------------------------------
(* A request comes in. *)

\* A request before it is named.
Draft == [op : {"none"}, user : User \cup {None}, session : Session \cup {None}, tv : Nat,
          proof : Nat, typed : Nat, new : Nat, target : Session \cup {None},
          link : Link \cup {None}, challenge : Challenge \cup {None},
          cred : Credential \cup {None}, count : Nat, row : UserRow \cup {None},
          challengeRow : ChallengeRow \cup {None}, credRow : CredentialRow \cup {None},
          listed : SUBSET Session]

\* What clients hold.
HeldTokens == mfa \cup {tokens[s] : s \in {x \in Session : tokens[x] # None}}

\* What comes with a request.
Given(op, c) ==
    /\ op \in TokenOps => \E t \in HeldTokens :
            /\ t \in Token /\ c.user = t.user /\ c.tv = t.tv /\ c.proof = t.proof
    /\ op \in {"verify", "confirm", "reset"} => c.link \in Link /\ links[c.link] # None
    /\ op \in {"passkeyLogin", "passkeyRemove"} => c.cred \in Credential
    /\ op \in {"passkeyEnrol", "passkeyLogin"} => c.challenge \in Challenge

Began(h, op, c) ==
    /\ turn = None /\ pc[h] = <<>> /\ Ran(h, Program[op], c) /\ Loop' /\ UNCHANGED <<sync, mix>>
    /\ c \in CallRecord /\ c.op = op /\ Given(op, c)
    /\ Overlap \/ op \notin Changes \/ \A g \in Handler : call[g].op \notin Changes
    /\ UNCHANGED <<store, tokens, mfa, erased, settled, bornLate>> /\ passwords' \in Nat
    /\ resting' = IF op = "passkeyLogin" /\ AtRest(c.cred) /\ creds[c.cred] # None
                  THEN [resting EXCEPT ![c.cred] = creds[c.cred].count] ELSE resting

Asks(h) == Anonymous(h) \/ SignedIn(h) \/ SecondFactor(h)

LEMMA BlankType == Blank \in Draft
  BY DEF Blank, Draft

LEMMA BearerType ==
    ASSUME NEW t \in Token
    PROVE  /\ Bearer(t) \in Draft /\ Bearer(t).user = t.user /\ Bearer(t).tv = t.tv
           /\ Bearer(t).proof = t.proof
  <1>1. PICK u \in User, tv \in Nat, proof \in Nat : u = t.user /\ tv = t.tv /\ proof = t.proof
    BY DEF Token
  <1>2. PICK a : a = [Blank EXCEPT !.user = u]
    OBVIOUS
  <1>3. a \in Draft /\ a.user = u
    BY <1>2, BlankType DEF Draft
  <1>4. PICK b : b = [a EXCEPT !.tv = tv]
    OBVIOUS
  <1>5. b \in Draft /\ b.user = u /\ b.tv = tv
    BY <1>3, <1>4 DEF Draft
  <1>6. PICK c : c = [b EXCEPT !.proof = proof]
    OBVIOUS
  <1>7. c \in Draft /\ c.user = u /\ c.tv = tv /\ c.proof = proof
    BY <1>5, <1>6 DEF Draft
  <1>8. Bearer(t) = c
    BY <1>1, <1>2, <1>4, <1>6 DEF Bearer
  <1>9. QED
    BY <1>1, <1>7, <1>8

LEMMA AcceptBegan ==
    ASSUME AccountsInv, NEW h \in Handler, NEW op \in Request, NEW d \in Draft, Accept(h, op, d),
           passwords' \in Nat, Given(op, d)
    PROVE  \E c \in CallRecord : Began(h, op, c)
  <1>1. PICK c : c = [d EXCEPT !.op = op]
    OBVIOUS
  <1>2. c \in CallRecord /\ c.op = op
    BY <1>1 DEF CallRecord, Draft
  <1>3. /\ c.user = d.user /\ c.tv = d.tv /\ c.proof = d.proof /\ c.link = d.link
        /\ c.cred = d.cred /\ c.challenge = d.challenge
    BY <1>1 DEF Draft
  <1>4. Given(op, c)
    BY <1>3 DEF Given
  <1>5. PICK s \in Seq(Step) : s = Program[op]
    BY ProgramFacts
  <1>6. turn = None /\ pc[h] = <<>> /\ Run(h, s, c)
    BY <1>1, <1>5 DEF Accept, Start
  <1>7. Loop' /\ Ran(h, s, c) /\ UNCHANGED <<sync, mix>>
    BY <1>6, RunKeeps, RunRan DEF AccountsInv, Loop, Run
  <1>8. /\ Overlap \/ op \notin Changes \/ \A g \in Handler : call[g].op \notin Changes
        /\ UNCHANGED <<store, tokens, mfa, erased, settled, bornLate>>
        /\ resting' = IF op = "passkeyLogin" /\ AtRest(d.cred) /\ creds[d.cred] # None
                      THEN [resting EXCEPT ![d.cred] = creds[d.cred].count] ELSE resting
    BY DEF Accept
  <1>9. QED
    BY <1>2, <1>3, <1>4, <1>5, <1>6, <1>7, <1>8 DEF Began

LEMMA AnonymousBegan ==
    ASSUME AccountsInv, NEW h \in Handler, Anonymous(h)
    PROVE  \E op \in Request : \E c \in CallRecord : Began(h, op, c)
  <1>0. passwords \in Nat
    BY DEF AccountsInv, TablesOK
  <1>1. passwords' \in Nat
    <2>1. passwords' = passwords + 1 \/ passwords' = passwords
      BY DEF Anonymous, NewPassword
    <2>2. QED
      BY <1>0, <2>1
  <1>2. CASE Accept(h, "register", [Blank EXCEPT !.new = passwords'])
    <2>1. PICK n \in Nat : n = passwords'
      BY <1>1
    <2>2. PICK d : d = [Blank EXCEPT !.new = n]
      OBVIOUS
    <2>3. d \in Draft
      BY <2>2, BlankType DEF Draft
    <2>4. Accept(h, "register", d)
      BY <1>2, <2>1, <2>2
    <2>5. Given("register", d)
      BY DEF Given, TokenOps
    <2>6. QED
      BY <1>1, <2>3, <2>4, <2>5, AcceptBegan DEF Request
  <1>3. ASSUME NEW l \in Link, links[l] # None,
               Accept(h, "reset", [Blank EXCEPT !.link = l, !.new = passwords'])
        PROVE  \E op \in Request : \E c \in CallRecord : Began(h, op, c)
    <2>1. PICK n \in Nat : n = passwords'
      BY <1>1
    <2>2. PICK d : d = [Blank EXCEPT !.link = l, !.new = n]
      OBVIOUS
    <2>3. d \in Draft /\ d.link = l
      BY <2>2, BlankType DEF Draft
    <2>4. Accept(h, "reset", d)
      BY <1>3, <2>1, <2>2
    <2>5. Given("reset", d)
      BY <1>3, <2>3 DEF Given, TokenOps
    <2>6. QED
      BY <1>1, <2>3, <2>4, <2>5, AcceptBegan DEF Request
  <1>4. ASSUME NEW op \in {"forgot", "askConfirmation"}, Accept(h, op, Blank)
        PROVE  \E x \in Request : \E c \in CallRecord : Began(h, x, c)
    <2>1. Given(op, Blank)
      BY DEF Given, TokenOps
    <2>2. QED
      BY <1>1, <1>4, <2>1, BlankType, AcceptBegan DEF Request
  <1>5. ASSUME NEW op \in {"verify", "confirm"}, NEW l \in Link, links[l] # None,
               Accept(h, op, [Blank EXCEPT !.link = l])
        PROVE  \E x \in Request : \E c \in CallRecord : Began(h, x, c)
    <2>1. PICK d : d = [Blank EXCEPT !.link = l]
      OBVIOUS
    <2>2. d \in Draft /\ d.link = l
      BY <2>1, BlankType DEF Draft
    <2>3. Accept(h, op, d)
      BY <1>5, <2>1
    <2>4. Given(op, d)
      BY <1>5, <2>2 DEF Given, TokenOps
    <2>5. QED
      BY <1>1, <2>2, <2>3, <2>4, AcceptBegan DEF Request
  <1>6. ASSUME NEW n \in 1 .. passwords, Accept(h, "login", [Blank EXCEPT !.typed = n])
        PROVE  \E op \in Request : \E c \in CallRecord : Began(h, op, c)
    <2>1. n \in Nat
      BY <1>0
    <2>2. PICK d : d = [Blank EXCEPT !.typed = n]
      OBVIOUS
    <2>3. d \in Draft
      BY <2>1, <2>2, BlankType DEF Draft
    <2>4. Accept(h, "login", d)
      BY <1>6, <2>2
    <2>5. Given("login", d)
      BY DEF Given, TokenOps
    <2>6. QED
      BY <1>1, <2>3, <2>4, <2>5, AcceptBegan DEF Request
  <1>7. QED
    BY <1>2, <1>3, <1>4, <1>5, <1>6 DEF Anonymous

LEMMA SignedInBegan ==
    ASSUME AccountsInv, NEW h \in Handler, SignedIn(h)
    PROVE  \E op \in Request : \E c \in CallRecord : Began(h, op, c)
  <1>0. passwords \in Nat /\ tokens \in [Session -> Token \cup {None}]
    BY DEF AccountsInv, TablesOK
  <1>1. passwords' \in Nat
    <2>1. passwords' = passwords + 1 \/ passwords' = passwords
      BY DEF SignedIn, NewPassword
    <2>2. QED
      BY <1>0, <2>1
  <1>2. PICK s \in {x \in Session : tokens[x] # None} :
            LET c == [Bearer(tokens[s]) EXCEPT !.session = s] IN
            \/ /\ NewPassword
               /\ \E n \in 1 .. passwords :
                    Accept(h, "change", [c EXCEPT !.typed = n, !.new = passwords'])
            \/ /\ UNCHANGED passwords
               /\ \/ \E op \in {"logoutAll", "refresh", "passkeyOptions"} : Accept(h, op, c)
                  \/ \E n \in 1 .. passwords : Accept(h, "delete", [c EXCEPT !.typed = n])
                  \/ \E x \in Session : Accept(h, "logout", [c EXCEPT !.target = x])
                  \/ \E k \in Challenge, d \in Credential : creds[d] = None /\
                        Accept(h, "passkeyEnrol", [c EXCEPT !.challenge = k, !.cred = d])
                  \/ \E d \in Credential : Accept(h, "passkeyRemove", [c EXCEPT !.cred = d])
    BY DEF SignedIn
  <1>3. PICK t \in Token : t = tokens[s] /\ t \in HeldTokens
    BY <1>0 DEF HeldTokens
  <1>4. PICK b \in Draft : b = Bearer(t) /\ b.user = t.user /\ b.tv = t.tv /\ b.proof = t.proof
    BY BearerType
  <1>5. PICK c : c = [b EXCEPT !.session = s]
    OBVIOUS
  <1>6. c \in Draft /\ c.user = t.user /\ c.tv = t.tv /\ c.proof = t.proof
    BY <1>4, <1>5 DEF Draft
  <1>7. \/ \E n \in 1 .. passwords : Accept(h, "change", [c EXCEPT !.typed = n, !.new = passwords'])
        \/ \E op \in {"logoutAll", "refresh", "passkeyOptions"} : Accept(h, op, c)
        \/ \E n \in 1 .. passwords : Accept(h, "delete", [c EXCEPT !.typed = n])
        \/ \E x \in Session : Accept(h, "logout", [c EXCEPT !.target = x])
        \/ \E k \in Challenge, d \in Credential :
              Accept(h, "passkeyEnrol", [c EXCEPT !.challenge = k, !.cred = d])
        \/ \E d \in Credential : Accept(h, "passkeyRemove", [c EXCEPT !.cred = d])
    BY <1>2, <1>3, <1>4, <1>5
  \* A draft that keeps the token c carries.
  <1> DEFINE Kept(d) == d \in Draft /\ d.user = c.user /\ d.tv = c.tv /\ d.proof = c.proof
  <1>8. ASSUME NEW op \in Request, NEW d, Kept(d), Accept(h, op, d),
               op \notin {"verify", "confirm", "reset"},
               op \in {"passkeyLogin", "passkeyRemove"} => d.cred \in Credential,
               op \in {"passkeyEnrol", "passkeyLogin"} => d.challenge \in Challenge
        PROVE  \E x \in Request : \E e \in CallRecord : Began(h, x, e)
    <2>1. Given(op, d)
      BY <1>3, <1>6, <1>8 DEF Given
    <2>2. QED
      BY <1>1, <1>8, <2>1, AcceptBegan
  <1>9. ASSUME NEW n \in 1 .. passwords,
               Accept(h, "change", [c EXCEPT !.typed = n, !.new = passwords'])
        PROVE  \E op \in Request : \E e \in CallRecord : Began(h, op, e)
    <2>1. PICK m \in Nat : m = passwords' /\ n \in Nat
      BY <1>0, <1>1
    <2>2. PICK d : d = [c EXCEPT !.typed = n, !.new = m]
      OBVIOUS
    <2>3. Kept(d)
      <3>1. PICK first : first = [c EXCEPT !.typed = n]
        OBVIOUS
      <3>2. Kept(first)
        BY <1>6, <2>1, <3>1 DEF Draft
      <3>3. d = [first EXCEPT !.new = m]
        BY <2>2, <3>1
      <3>4. QED
        BY <2>1, <3>2, <3>3 DEF Draft
    <2>4. Accept(h, "change", d)
      BY <1>9, <2>1, <2>2
    <2>5. QED
      BY <1>8, <2>3, <2>4 DEF Request
  <1>10. ASSUME NEW op \in {"logoutAll", "refresh", "passkeyOptions"}, Accept(h, op, c)
         PROVE  \E x \in Request : \E e \in CallRecord : Began(h, x, e)
    BY <1>6, <1>8, <1>10 DEF Request
  <1>11. ASSUME NEW n \in 1 .. passwords, Accept(h, "delete", [c EXCEPT !.typed = n])
         PROVE  \E op \in Request : \E e \in CallRecord : Began(h, op, e)
    <2>1. n \in Nat
      BY <1>0
    <2>2. PICK d : d = [c EXCEPT !.typed = n]
      OBVIOUS
    <2>3. Kept(d)
      BY <1>6, <2>1, <2>2 DEF Draft
    <2>4. Accept(h, "delete", d)
      BY <1>11, <2>2
    <2>5. QED
      BY <1>8, <2>3, <2>4 DEF Request
  <1>12. ASSUME NEW x \in Session, Accept(h, "logout", [c EXCEPT !.target = x])
         PROVE  \E op \in Request : \E e \in CallRecord : Began(h, op, e)
    <2>1. PICK d : d = [c EXCEPT !.target = x]
      OBVIOUS
    <2>2. Kept(d)
      BY <1>6, <2>1 DEF Draft
    <2>3. Accept(h, "logout", d)
      BY <1>12, <2>1
    <2>4. QED
      BY <1>8, <2>2, <2>3 DEF Request
  <1>13. ASSUME NEW k \in Challenge, NEW x \in Credential,
                Accept(h, "passkeyEnrol", [c EXCEPT !.challenge = k, !.cred = x])
         PROVE  \E op \in Request : \E e \in CallRecord : Began(h, op, e)
    <2>1. PICK d : d = [c EXCEPT !.challenge = k, !.cred = x]
      OBVIOUS
    <2>2. Kept(d) /\ d.challenge = k
      BY <1>6, <2>1 DEF Draft
    <2>3. Accept(h, "passkeyEnrol", d)
      BY <1>13, <2>1
    <2>4. QED
      BY <1>8, <2>2, <2>3 DEF Request
  <1>14. ASSUME NEW x \in Credential, Accept(h, "passkeyRemove", [c EXCEPT !.cred = x])
         PROVE  \E op \in Request : \E e \in CallRecord : Began(h, op, e)
    <2>1. PICK d : d = [c EXCEPT !.cred = x]
      OBVIOUS
    <2>2. Kept(d) /\ d.cred = x
      BY <1>6, <2>1 DEF Draft
    <2>3. Accept(h, "passkeyRemove", d)
      BY <1>14, <2>1
    <2>4. QED
      BY <1>8, <2>2, <2>3 DEF Request
  <1>15. QED
    BY <1>7, <1>9, <1>10, <1>11, <1>12, <1>13, <1>14

LEMMA SecondFactorBegan ==
    ASSUME AccountsInv, NEW h \in Handler, SecondFactor(h)
    PROVE  \E op \in Request : \E c \in CallRecord : Began(h, op, c)
  <1>0. passwords \in Nat /\ mfa \subseteq Token
    BY DEF AccountsInv, TablesOK
  <1>1. passwords' \in Nat
    BY <1>0 DEF SecondFactor
  <1>2. PICK t \in mfa :
            \/ Accept(h, "passkeyChallenge", Bearer(t))
            \/ \E k \in Challenge, d \in Credential, n \in mix.counts :
                  Accept(h, "passkeyLogin",
                         [Bearer(t) EXCEPT !.challenge = k, !.cred = d, !.count = n])
    BY DEF SecondFactor
  <1>3. t \in Token /\ t \in HeldTokens
    BY <1>0 DEF HeldTokens
  <1>4. PICK c \in Draft : c = Bearer(t) /\ c.user = t.user /\ c.tv = t.tv /\ c.proof = t.proof
    BY <1>3, BearerType
  <1>5. CASE Accept(h, "passkeyChallenge", Bearer(t))
    <2>1. Given("passkeyChallenge", c) /\ Accept(h, "passkeyChallenge", c)
      BY <1>3, <1>4, <1>5 DEF Given
    <2>2. QED
      BY <1>1, <2>1, AcceptBegan DEF Request
  <1>6. ASSUME NEW k \in Challenge, NEW d \in Credential, NEW n \in mix.counts,
               Accept(h, "passkeyLogin", [Bearer(t) EXCEPT !.challenge = k, !.cred = d, !.count = n])
        PROVE  \E op \in Request : \E e \in CallRecord : Began(h, op, e)
    <2>1. n \in Nat
      BY AccountsAssumption DEF AccountsInv
    <2>2. PICK e : e = [c EXCEPT !.challenge = k]
      OBVIOUS
    <2>3. /\ e \in Draft /\ e.user = t.user /\ e.tv = t.tv /\ e.proof = t.proof
          /\ e.challenge = k
      BY <1>4, <2>2 DEF Draft
    <2>4. PICK f : f = [e EXCEPT !.cred = d]
      OBVIOUS
    <2>5. /\ f \in Draft /\ f.user = t.user /\ f.tv = t.tv /\ f.proof = t.proof
          /\ f.challenge = k /\ f.cred = d
      BY <2>3, <2>4 DEF Draft
    <2>6. PICK g : g = [f EXCEPT !.count = n]
      OBVIOUS
    <2>7. /\ g \in Draft /\ g.user = t.user /\ g.tv = t.tv /\ g.proof = t.proof
          /\ g.challenge = k /\ g.cred = d
      BY <2>1, <2>5, <2>6 DEF Draft
    <2>8. Given("passkeyLogin", g)
      BY <1>3, <2>7 DEF Given
    <2>9. Accept(h, "passkeyLogin", g)
      BY <1>4, <1>6, <2>2, <2>4, <2>6
    <2>10. QED
      BY <1>1, <2>7, <2>8, <2>9, AcceptBegan DEF Request
  <1>7. QED
    BY <1>2, <1>5, <1>6

LEMMA AskBegan ==
    ASSUME AccountsInv, NEW h \in Handler, Asks(h)
    PROVE  \E op \in Request : \E c \in CallRecord : Began(h, op, c)
  BY AnonymousBegan, SignedInBegan, SecondFactorBegan DEF Asks

-----------------------------------------------------------------------------
(* Types. *)

LEMMA UsersOK ==
    ASSUME TablesOK, NEW x, NEW c, NEW c2, Ready(x, c), Learns(x, c, c2), UserEffect(x, c, c2)
    PROVE  /\ users' \in [User -> UserRow \cup {None}]
           /\ erased' \subseteq User /\ IsFiniteSet(erased') /\ \A u \in erased' : users'[u] = None
  <1>0. /\ users \in [User -> UserRow \cup {None}]
        /\ erased \subseteq User /\ IsFiniteSet(erased) /\ \A u \in erased : users[u] = None
    BY DEF TablesOK
  <1>1. CASE x \in UserWrites /\ users' = Update(c.user, c2.row) /\ erased' = erased
    <2>1. c2.row \in UserRow
      BY <1>1 DEF Learns
    <2>2. QED
      BY <1>0, <1>1, <2>1 DEF Update
  <1>2. CASE /\ x = "createUser" /\ c2.user \notin erased /\ users[c2.user] = None
             /\ users' = [users EXCEPT ![c2.user] = c2.row] /\ erased' = erased
    <2>1. c2.row \in UserRow
      BY <1>2 DEF Learns, RowReaders
    <2>2. QED
      BY <1>0, <1>2, <2>1
  <1>3. CASE /\ x = "eraseUser" /\ users' = [users EXCEPT ![c.user] = None]
             /\ erased' = erased \cup {c.user}
    <2>1. c.user \in User
      BY <1>3 DEF Ready, UsesUser
    <2>2. IsFiniteSet(erased \cup {c.user})
      BY <1>0, FS_AddElement
    <2>3. QED
      BY <1>0, <1>3, <2>1, <2>2
  <1>4. CASE UNCHANGED <<users, erased>>
    BY <1>0, <1>4
  <1>5. QED
    BY <1>1, <1>2, <1>3, <1>4 DEF UserEffect

LEMMA MintedType ==
    ASSUME NEW c \in CallRecord, c.user \in User, c.row \in UserRow
    PROVE  Minted(c) \in Token
  BY DEF Minted, Token, CallRecord, UserRow

LEMMA SessionsOK ==
    ASSUME TablesOK, NEW x, NEW c \in CallRecord, Ready(x, c), SessionEffect(x, c)
    PROVE  /\ sessions' \in [Session -> {"none", "live", "revoked"}]
           /\ tokens' \in [Session -> Token \cup {None}]
           /\ \A s \in Session : sessions'[s] # "none" => tokens'[s] # None
  <1>0. /\ sessions \in [Session -> {"none", "live", "revoked"}]
        /\ tokens \in [Session -> Token \cup {None}]
        /\ \A s \in Session : sessions[s] # "none" => tokens[s] # None
    BY DEF TablesOK
  <1>1. ASSUME x = "startSession", NEW s \in Session, tokens' = [tokens EXCEPT ![s] = Minted(c)],
               sessions' = [sessions EXCEPT ![s] = "live"]
        PROVE  /\ sessions' \in [Session -> {"none", "live", "revoked"}]
               /\ tokens' \in [Session -> Token \cup {None}]
               /\ \A r \in Session : sessions'[r] # "none" => tokens'[r] # None
    <2>1. PICK t \in Token : t = Minted(c)
      BY <1>1, MintedType DEF Ready, UsesUser, UsesRow
    <2>2. t # None
      BY AccountsAssumption
    <2>3. QED
      BY <1>0, <1>1, <2>1, <2>2
  <1>2. QED
    BY <1>0, <1>1 DEF SessionEffect

LEMMA KillsKeep ==
    ASSUME NEW S, NEW table, NEW new, new = [l \in S |-> new[l]], \A l \in S : Kills(table, new, l),
           NEW Row, table \in [S -> Row \cup {None}], None \notin Row,
           \A r \in Row : [r EXCEPT !.live = FALSE] \in Row
    PROVE  new \in [S -> Row \cup {None}] /\ \A l \in S : new[l] = None <=> table[l] = None
  <1>1. PICK f \in [S -> Row \cup {None}] : f = table
    OBVIOUS
  <1>2. ASSUME NEW l \in S
        PROVE  new[l] \in Row \cup {None} /\ (new[l] = None <=> table[l] = None)
    BY <1>1 DEF Kills
  <1>3. QED
    BY <1>2

LEMMA LinksOK ==
    ASSUME TablesOK, NEW x, NEW c \in CallRecord, Ready(x, c), LinkEffect(x, c)
    PROVE  /\ links' \in [Link -> LinkRow \cup {None}]
           /\ \A l \in Link : links'[l] # None /\ links'[l].kind # "pending" => links'[l].user \in User
           /\ \A l \in Link : links[l] # None => links'[l] # None
  <1>0. /\ links \in [Link -> LinkRow \cup {None}] /\ IsFiniteSet(erased)
        /\ \A l \in Link : links[l] # None /\ links[l].kind # "pending" => links[l].user \in User
    BY DEF TablesOK
  <1>n. None \notin LinkRow
    BY AccountsAssumption
  <1>1. ASSUME NEW l \in Link, NEW kind \in {"pending", "reset", "confirm"},
               x \in {"createPending", "createReset", "createConfirm"},
               links[l] = None, links' = [links EXCEPT ![l] = NewLink(kind, c)],
               kind = "pending" \/ x # "createPending"
        PROVE  /\ links' \in [Link -> LinkRow \cup {None}]
               /\ \A k \in Link : links'[k] # None /\ links'[k].kind # "pending" => links'[k].user \in User
               /\ \A k \in Link : links[k] # None => links'[k] # None
    <2>1. Cardinality(erased) \in Nat
      BY <1>0, FS_CardinalityType
    <2>2. PICK row : row = NewLink(kind, c)
      OBVIOUS
    <2>3. row \in LinkRow /\ row.kind = kind /\ row.user = c.user
      BY <1>1, <2>1, <2>2 DEF NewLink, LinkRow, CallRecord
    <2>4. kind # "pending" => c.user \in User
      BY <1>1 DEF Ready, UsesUser
    <2>5. links' = [links EXCEPT ![l] = row]
      BY <1>1, <2>2
    <2>6. QED
      BY <1>0, <1>n, <2>3, <2>4, <2>5
  <1>2. CASE links' = [l \in Link |-> links'[l]] /\ \A l \in Link : Kills(links, links', l)
    <2>1. \A r \in LinkRow : [r EXCEPT !.live = FALSE] \in LinkRow
      BY DEF LinkRow
    <2>2. /\ links' \in [Link -> LinkRow \cup {None}]
          /\ \A l \in Link : links'[l] = None <=> links[l] = None
      <3>1. PICK new : new = links'
        OBVIOUS
      <3>2. new = [l \in Link |-> new[l]] /\ \A l \in Link : Kills(links, new, l)
        BY <1>2, <3>1
      <3>3. /\ new \in [Link -> LinkRow \cup {None}]
            /\ \A l \in Link : new[l] = None <=> links[l] = None
        <4>1. links \in [Link -> LinkRow \cup {None}]
          BY <1>0
        <4>2. QED
          BY <1>n, <2>1, <3>2, <4>1, KillsKeep
      <3>4. QED
        BY <3>1, <3>3
    <2>3. ASSUME NEW l \in Link, links[l] # None
          PROVE  links'[l].kind = links[l].kind /\ links'[l].user = links[l].user
      <3>1. PICK r \in LinkRow : r = links[l]
        BY <1>0, <2>3
      <3>2. links'[l] = r \/ links'[l] = [r EXCEPT !.live = FALSE]
        BY <1>2, <3>1 DEF Kills
      <3>3. QED
        BY <3>1, <3>2 DEF LinkRow
    <2>4. QED
      BY <1>0, <2>2, <2>3
  <1>3. QED
    BY <1>1, <1>2 DEF LinkEffect

LEMMA CredsOK ==
    ASSUME TablesOK, NEW x, NEW c \in CallRecord, Ready(x, c), CredEffect(x, c)
    PROVE  /\ creds' \in [Credential -> CredentialRow \cup {None}]
           /\ \A d \in Credential : creds[d] # None => creds'[d] # None
  <1>0. creds \in [Credential -> CredentialRow \cup {None}]
    BY DEF TablesOK
  <1>n. None \notin CredentialRow
    BY AccountsAssumption
  <1>1. CASE creds' = [creds EXCEPT ![c.cred] = [user |-> c.user, count |-> 0, live |-> TRUE]]
             /\ x = "createCred"
    <2>1. PICK row \in CredentialRow : row = [user |-> c.user, count |-> 0, live |-> TRUE]
      BY <1>1 DEF Ready, UsesUser, CredentialRow
    <2>2. QED
      BY <1>0, <1>1, <1>n, <2>1
  <1>2. CASE x = "writeCred" /\ creds' = [creds EXCEPT ![c.cred].count = c.count]
    <2>1. PICK row \in CredentialRow : row = creds[c.cred]
      BY <1>0, <1>2 DEF Ready, CredSteps
    <2>2. PICK new \in CredentialRow : new = [row EXCEPT !.count = c.count]
      BY DEF CredentialRow, CallRecord
    <2>3. creds' = [creds EXCEPT ![c.cred] = new]
      BY <1>2, <2>1, <2>2
    <2>4. QED
      BY <1>0, <1>n, <2>3
  <1>3. ASSUME NEW S, \A d \in Credential : d \in S => creds[d] # None, creds' = Dead(creds, S)
        PROVE  /\ creds' \in [Credential -> CredentialRow \cup {None}]
               /\ \A d \in Credential : creds[d] # None => creds'[d] # None
    <2>1. creds' = [d \in Credential |-> creds'[d]] /\ \A d \in Credential : Kills(creds, creds', d)
      BY <1>0, <1>3, DeadKills
    <2>2. \A r \in CredentialRow : [r EXCEPT !.live = FALSE] \in CredentialRow
      BY DEF CredentialRow
    <2>3. /\ creds' \in [Credential -> CredentialRow \cup {None}]
          /\ \A d \in Credential : creds'[d] = None <=> creds[d] = None
      BY <1>0, <1>n, <2>1, <2>2, KillsKeep
    <2>4. QED
      BY <2>3
  <1>4. CASE x = "deleteCred" /\ creds' = Dead(creds, {c.cred})
    <2>1. \A d \in Credential : d \in {c.cred} => creds[d] # None
      BY <1>4 DEF Ready
    <2>2. QED
      BY <1>3, <1>4, <2>1
  <1>5. CASE x = "eraseCreds" /\ creds' = Dead(creds, Passkeys(c.user))
    <2>1. \A d \in Credential : d \in Passkeys(c.user) => creds[d] # None
      BY DEF Passkeys, Live
    <2>2. QED
      BY <1>3, <1>5, <2>1
  <1>6. CASE creds' = creds
    BY <1>0, <1>6
  <1>7. QED
    BY <1>1, <1>2, <1>4, <1>5, <1>6 DEF CredEffect

LEMMA ChallengeTableOK ==
    ASSUME TablesOK, NEW x, NEW c, ChallengeEffect(x, c)
    PROVE  /\ challenges' \in [Challenge -> ChallengeRow \cup {None}]
           /\ \A k \in Challenge : challenges[k] # None => challenges'[k] # None
  <1>0. challenges \in [Challenge -> ChallengeRow \cup {None}]
    BY DEF TablesOK
  <1>n. None \notin ChallengeRow
    BY AccountsAssumption
  <1>1. CASE \E k \in Challenge, row \in ChallengeRow :
                challenges[k] = None /\ challenges' = [challenges EXCEPT ![k] = row]
    BY <1>0, <1>1, <1>n
  <1>2. CASE challenges' = [k \in Challenge |-> challenges'[k]]
             /\ \A k \in Challenge : Kills(challenges, challenges', k)
    <2>1. \A r \in ChallengeRow : [r EXCEPT !.live = FALSE] \in ChallengeRow
      BY DEF ChallengeRow
    <2>2. /\ challenges' \in [Challenge -> ChallengeRow \cup {None}]
          /\ \A k \in Challenge : challenges'[k] = None <=> challenges[k] = None
      BY <1>0, <1>2, <1>n, <2>1, KillsKeep
    <2>3. QED
      BY <2>2
  <1>3. QED
    BY <1>1, <1>2 DEF ChallengeEffect

\* What is stored once is never missing again: it dies where it stands.
Steady == /\ \A l \in Link : links[l] # None => links'[l] # None
          /\ \A d \in Credential : creds[d] # None => creds'[d] # None
          /\ \A k \in Challenge : challenges[k] # None => challenges'[k] # None

LEMMA GoesTables ==
    ASSUME TablesOK, NEW x, NEW c \in CallRecord, NEW c2, Ready(x, c), Goes(x, c, c2)
    PROVE  TablesOK' /\ Steady
  <1>0. /\ Learns(x, c, c2) /\ UserEffect(x, c, c2) /\ SessionEffect(x, c) /\ LinkEffect(x, c)
        /\ CredEffect(x, c) /\ ChallengeEffect(x, c) /\ OtherEffect(x, c, c2)
    BY DEF Goes
  <1>1. /\ users' \in [User -> UserRow \cup {None}]
        /\ erased' \subseteq User /\ IsFiniteSet(erased') /\ \A u \in erased' : users'[u] = None
    BY <1>0, UsersOK
  <1>2. /\ sessions' \in [Session -> {"none", "live", "revoked"}]
        /\ tokens' \in [Session -> Token \cup {None}]
        /\ \A s \in Session : sessions'[s] # "none" => tokens'[s] # None
    BY <1>0, SessionsOK
  <1>3. /\ links' \in [Link -> LinkRow \cup {None}]
        /\ \A l \in Link : links'[l] # None /\ links'[l].kind # "pending" => links'[l].user \in User
        /\ \A l \in Link : links[l] # None => links'[l] # None
    BY <1>0, LinksOK
  <1>4. /\ creds' \in [Credential -> CredentialRow \cup {None}]
        /\ \A d \in Credential : creds[d] # None => creds'[d] # None
    BY <1>0, CredsOK
  <1>5. /\ challenges' \in [Challenge -> ChallengeRow \cup {None}]
        /\ \A k \in Challenge : challenges[k] # None => challenges'[k] # None
    BY <1>0, ChallengeTableOK
  <1>6. mfa' \subseteq Token /\ passwords' \in Nat /\ settled' \in [Challenge -> Nat]
    <2>1. mfa' = mfa /\ passwords' = passwords /\ mfa \subseteq Token /\ passwords \in Nat
      BY <1>0 DEF OtherEffect, TablesOK
    <2>2. settled \in [Challenge -> Nat]
      BY DEF TablesOK
    <2>3. settled' = settled \/ settled' = [settled EXCEPT ![c.challenge] = @ + 1]
      BY <1>0 DEF OtherEffect
    <2>4. settled' \in [Challenge -> Nat]
      BY <2>2, <2>3
    <2>5. QED
      BY <2>1, <2>4
  <1>7. QED
    BY <1>1, <1>2, <1>3, <1>4, <1>5, <1>6 DEF TablesOK, Steady

LEMMA DidTables ==
    ASSUME AccountsInv, NEW h \in Handler, Did(h)
    PROVE  TablesOK' /\ Steady
  <1>1. TablesOK /\ call[h] \in CallRecord /\ Ready(Head(pc[h]), call[h])
    BY HasCall, IsReady DEF AccountsInv, Did, Runs
  <1>2. CASE Went(h)
    BY <1>1, <1>2, GoesTables DEF Went
  <1>3. CASE Stopped(h)
    <2>1. UNCHANGED <<users, sessions, links, creds, challenges, tokens, passwords, erased, settled>>
      BY <1>3 DEF Stopped, store, history
    <2>2. mfa' \subseteq Token
      <3>1. CASE mfa' = mfa
        BY <1>1, <3>1 DEF TablesOK
      <3>2. CASE Head(pc[h]) = "listPasskeys" /\ mfa' = mfa \cup {Minted(call[h])}
        <4>1. Minted(call[h]) \in Token
          BY <1>1, <3>2, MintedType DEF Ready, UsesUser, UsesRow
        <4>2. QED
          BY <1>1, <3>2, <4>1 DEF TablesOK
      <3>3. QED
        BY <1>3, <3>1, <3>2 DEF Stopped
    <2>3. QED
      BY <1>1, <2>1, <2>2 DEF TablesOK, Steady
  <1>4. CASE Again(h)
    <2>1. UNCHANGED <<users, links, creds, challenges, tokens, mfa, passwords, erased, settled>>
      BY <1>4 DEF Again, held, history
    <2>2. /\ sessions' \in [Session -> {"none", "live", "revoked"}]
          /\ \A s \in Session : sessions'[s] # "none" => tokens'[s] # None
      BY <1>1, <1>4, SessionsOK DEF Again
    <2>3. QED
      BY <1>1, <2>1, <2>2 DEF TablesOK, Steady
  <1>5. QED
    BY <1>2, <1>3, <1>4 DEF Did

LEMMA NeedsGo ==
    ASSUME TablesOK, Steady, NEW s \in Seq(Step), s # <<>>, Facts(s), NEW c, NEW c2, Needs(s, c),
           Same(Head(s), c, c2), Learns(Head(s), c, c2)
    PROVE  Needs(Tail(s), c2)'
  <1> DEFINE t == Tail(s)
  <1>1. \A x : Lacks(s, x) <=> Head(s) # x /\ Lacks(t, x)
    BY LacksTail
  <1> HIDE DEF t
  <1>2. PICK x : x = Head(s)
    OBVIOUS
  <1>3. \A y : Lacks(t, y) => Lacks(s, y) \/ y = x
    BY <1>1, <1>2
  <1>4. \A y : Lacks(s, y) => Lacks(t, y)
    BY <1>1
  <1>5. \A S : ~NoneOf(t, S) => ~NoneOf(s, S)
    BY <1>4 DEF NoneOf
  <1>6. \A S : NoneOf(t, S) => NoneOf(s, S) \/ x \in S
    BY <1>3 DEF NoneOf
  <1>7. Same(x, c, c2) /\ Learns(x, c, c2)
    BY <1>2
  <1>8. ~NoneOf(t, UsesRow) /\ NoneOf(t, RowReaders) => c2.row \in UserRow
    <2>1. CASE x \in RowReaders \cup UserWrites
      BY <1>7, <2>1 DEF Learns
    <2>2. CASE x \notin RowReaders \cup UserWrites
      <3>1. c2.row = c.row
        BY <1>7, <2>2 DEF Same
      <3>2. QED
        BY <1>5, <1>6, <2>2, <3>1 DEF Needs
    <2>3. QED
      BY <2>1, <2>2
  <1>9. ~NoneOf(t, UsesUser) /\ NoneOf(t, UserSources) => c2.user \in User
    <2>1. CASE x \in UserSources
      BY <1>7, <2>1 DEF Learns
    <2>2. CASE x \notin UserSources
      <3>1. c2.user = c.user
        BY <1>7, <2>2 DEF Same
      <3>2. QED
        BY <1>5, <1>6, <2>2, <3>1 DEF Needs
    <2>3. QED
      BY <2>1, <2>2
  <1>10. /\ c2.link = c.link /\ c2.cred = c.cred /\ c2.challenge = c.challenge /\ c2.op = c.op
    BY <1>7 DEF Same
  <1>11. ~NoneOf(t, LinkSteps) => c2.link \in Link /\ links'[c2.link] # None
    BY <1>5, <1>10 DEF Needs, Steady
  <1>12. ~NoneOf(t, CredSteps) => c2.cred \in Credential
    BY <1>5, <1>10 DEF Needs
  <1>13. ~NoneOf(t, CredSteps) /\ Lacks(t, "readCred") =>
            creds'[c2.cred] # None /\ c2.credRow \in CredentialRow
    <2>1. SUFFICES ASSUME ~NoneOf(t, CredSteps), Lacks(t, "readCred")
                   PROVE  creds'[c2.cred] # None /\ c2.credRow \in CredentialRow
      OBVIOUS
    <2>2. c.cred \in Credential /\ c2.cred = c.cred
      BY <1>10, <1>12, <2>1
    <2>3. CASE x = "readCred"
      <3>1. creds[c.cred] # None /\ c2.credRow = creds[c.cred]
        BY <1>7, <2>3 DEF Learns, Live
      <3>2. c2.credRow \in CredentialRow
        BY <2>2, <3>1 DEF TablesOK
      <3>3. QED
        BY <2>2, <3>1, <3>2 DEF Steady
    <2>4. CASE x # "readCred"
      <3>1. c2.credRow = c.credRow
        BY <1>7, <2>4 DEF Same
      <3>2. ~NoneOf(s, CredSteps) /\ Lacks(s, "readCred")
        BY <1>3, <1>5, <2>1, <2>4
      <3>3. creds[c.cred] # None /\ c.credRow \in CredentialRow
        BY <3>2 DEF Needs
      <3>4. QED
        BY <2>2, <3>1, <3>3 DEF Steady
    <2>5. QED
      BY <2>3, <2>4
  <1>14. ~NoneOf(t, {"readChallenge", "deleteChallenge"}) => c2.challenge \in Challenge
    BY <1>5, <1>10 DEF Needs
  <1>15. ~Lacks(t, "deleteChallenge") /\ Lacks(t, "readChallenge") => challenges'[c2.challenge] # None
    <2>1. SUFFICES ASSUME ~Lacks(t, "deleteChallenge"), Lacks(t, "readChallenge")
                   PROVE  challenges'[c2.challenge] # None
      OBVIOUS
    <2>2. c.challenge \in Challenge /\ c2.challenge = c.challenge
      BY <1>10, <1>14, <2>1 DEF NoneOf
    <2>3. challenges[c.challenge] # None
      BY <1>3, <1>4, <1>7, <2>1 DEF Needs, Learns, Live
    <2>4. QED
      BY <2>2, <2>3 DEF Steady
  <1>16. /\ ~NoneOf(t, UserWrites) => c2.op \in Changes
         /\ ~NoneOf(t, {"verifyAssertion", "writeCred"}) => c2.op = "passkeyLogin"
         /\ ~NoneOf(t, {"eraseCreds", "eraseUser"}) => c2.op = "delete"
    BY <1>5, <1>10 DEF Needs
  <1>17. Needs(t, c2)'
    BY <1>8, <1>9, <1>11, <1>12, <1>13, <1>14, <1>15, <1>16 DEF Needs
  <1>18. QED
    BY <1>17 DEF t

LEMMA NeedsStay ==
    ASSUME Steady, NEW s, NEW c, Needs(s, c)
    PROVE  Needs(s, c)'
  <1>1. ~NoneOf(s, LinkSteps) => c.link \in Link /\ links'[c.link] # None
    BY DEF Needs, Steady
  <1>2. ~NoneOf(s, CredSteps) /\ Lacks(s, "readCred") =>
            creds'[c.cred] # None /\ c.credRow \in CredentialRow
    BY DEF Needs, Steady
  <1>3. ~Lacks(s, "deleteChallenge") /\ Lacks(s, "readChallenge") => challenges'[c.challenge] # None
    <2>1. ~Lacks(s, "deleteChallenge") => ~NoneOf(s, {"readChallenge", "deleteChallenge"})
      BY DEF NoneOf
    <2>2. QED
      BY <2>1 DEF Needs, Steady
  <1>4. QED
    BY <1>1, <1>2, <1>3 DEF Needs

LEMMA NeedsBegin ==
    ASSUME NEW op \in Request, NEW c \in CallRecord, c.op = op, Given(op, c)
    PROVE  Needs(Program[op], c)
  <1>1. PICK s : s = Program[op]
    OBVIOUS
  <1>2. Starts(op, s)
    BY <1>1, ProgramStarts
  <1>3. op \in TokenOps => c.user \in User
    BY DEF Given, Token
  <1>4. /\ ~NoneOf(s, UsesRow) /\ NoneOf(s, RowReaders) => c.row \in UserRow
        /\ ~NoneOf(s, UsesUser) /\ NoneOf(s, UserSources) => c.user \in User
    BY <1>2, <1>3 DEF Starts
  <1>5. ~NoneOf(s, LinkSteps) => c.link \in Link /\ links[c.link] # None
    BY <1>2 DEF Starts, Given
  <1>6. /\ ~NoneOf(s, CredSteps) => c.cred \in Credential
        /\ ~NoneOf(s, CredSteps) => ~Lacks(s, "readCred")
    BY <1>2 DEF Starts, Given
  <1>7. /\ ~NoneOf(s, {"readChallenge", "deleteChallenge"}) => c.challenge \in Challenge
        /\ ~NoneOf(s, {"readChallenge", "deleteChallenge"}) => ~Lacks(s, "readChallenge")
    BY <1>2 DEF Starts, Given
  <1>8. ~Lacks(s, "deleteChallenge") => ~Lacks(s, "readChallenge")
    BY <1>7 DEF NoneOf
  <1>9. /\ ~NoneOf(s, UserWrites) => op \in Changes
        /\ ~NoneOf(s, {"verifyAssertion", "writeCred"}) => op = "passkeyLogin"
        /\ ~NoneOf(s, {"eraseCreds", "eraseUser"}) => op = "delete"
    BY <1>2 DEF Starts
  <1>10. Needs(s, c)
    BY <1>4, <1>5, <1>6, <1>7, <1>8, <1>9 DEF Needs
  <1>11. QED
    BY <1>1, <1>10

\* The other handlers keep what they have.
LEMMA OthersStay ==
    ASSUME AccountsInv, Steady, NEW h \in Handler, NEW rest, NEW c, Ran(h, rest, c),
           NEW g \in Handler \ {h}
    PROVE  Local(g)'
  <1>1. pc'[g] = pc[g] /\ call'[g] = call[g] /\ Local(g)
    BY DEF Ran, AccountsInv
  <1>2. CASE pc[g] = <<>>
    BY <1>1, <1>2 DEF Local
  <1>3. CASE pc[g] # <<>>
    <2>1. PICK s, d : s = pc[g] /\ d = call[g]
      OBVIOUS
    <2>2. d \in CallRecord /\ Facts(s) /\ Needs(s, d)'
      BY <1>1, <1>3, <2>1, NeedsStay DEF Local
    <2>3. QED
      BY <1>1, <2>1, <2>2 DEF Local
  <1>4. QED
    BY <1>2, <1>3

LEMMA DidKeeps ==
    ASSUME AccountsInv, NEW h \in Handler, Did(h)
    PROVE  AccountsInv'
  <1>1. TablesOK' /\ Steady /\ Loop' /\ pc[h] # <<>> /\ mix' \in Mixes
    BY DidTables DEF Did, Runs, AccountsInv
  <1>2. /\ call[h] \in CallRecord /\ pc[h] \in Seq(Step) /\ Facts(pc[h]) /\ Needs(pc[h], call[h])
        /\ TablesOK
    BY <1>1, HasCall DEF AccountsInv
  <1>3. CASE Went(h)
    <2>1. PICK c2 : Ran(h, Tail(pc[h]), c2) /\ Goes(Head(pc[h]), call[h], c2)
      BY <1>3 DEF Went
    <2>2. PICK s, c : s = pc[h] /\ c = call[h]
      OBVIOUS
    <2>3. Needs(Tail(s), c2)' /\ Facts(Tail(s)) /\ c2 \in CallRecord
      BY <1>1, <1>2, <2>1, <2>2, NeedsGo, FactsTail DEF Goes, Same
    <2>4. Local(h)'
      <3>1. PICK t : t = Tail(s)
        OBVIOUS
      <3>2. pc'[h] = t /\ (t # <<>> => call'[h] = c2)
        BY <2>1, <2>2, <3>1 DEF Ran
      <3>3. Needs(t, c2)' /\ Facts(t)
        BY <2>3, <3>1
      <3>4. QED
        BY <2>3, <3>2, <3>3 DEF Local
    <2>5. \A g \in Handler \ {h} : Local(g)'
      BY <1>1, <2>1, OthersStay
    <2>6. QED
      BY <1>1, <2>4, <2>5 DEF AccountsInv
  <1>4. CASE Stopped(h)
    <2>1. Local(h)'
      BY <1>4 DEF Stopped, Ran, Local
    <2>2. \A g \in Handler \ {h} : Local(g)'
      BY <1>1, <1>4, OthersStay DEF Stopped
    <2>3. QED
      BY <1>1, <2>1, <2>2 DEF AccountsInv
  <1>5. CASE Again(h)
    <2>1. PICK r \in call[h].listed : Ran(h, pc[h], [call[h] EXCEPT !.listed = @ \ {r}])
      BY <1>5 DEF Again
    <2>2. PICK s, c : s = pc[h] /\ c = call[h]
      OBVIOUS
    <2>3. PICK c2 : c2 = [c EXCEPT !.listed = @ \ {r}]
      OBVIOUS
    <2>4. /\ c2 \in CallRecord /\ c2.row = c.row /\ c2.user = c.user /\ c2.link = c.link
          /\ c2.cred = c.cred /\ c2.credRow = c.credRow /\ c2.challenge = c.challenge
          /\ c2.op = c.op
      BY <1>2, <2>2, <2>3 DEF CallRecord
    <2>5. Needs(s, c2)
      BY <1>2, <2>2, <2>4 DEF Needs
    <2>6. Ran(h, s, c2)
      BY <2>1, <2>2, <2>3
    <2>7. Local(h)'
      <3>1. pc'[h] = s /\ (s # <<>> => call'[h] = c2)
        BY <2>6 DEF Ran
      <3>2. Needs(s, c2)' /\ Facts(s)
        BY <1>1, <1>2, <2>2, <2>5, NeedsStay
      <3>3. QED
        BY <2>4, <3>1, <3>2 DEF Local
    <2>8. \A g \in Handler \ {h} : Local(g)'
      BY <1>1, <2>6, OthersStay
    <2>9. QED
      BY <1>1, <2>7, <2>8 DEF AccountsInv
  <1>6. QED
    BY <1>3, <1>4, <1>5 DEF Did

LEMMA BeganKeeps ==
    ASSUME AccountsInv, NEW h \in Handler, NEW op \in Request, NEW c \in CallRecord, Began(h, op, c)
    PROVE  AccountsInv' /\ Steady
  <1>1. UNCHANGED <<users, sessions, links, creds, challenges, tokens, mfa, erased, settled>>
    BY DEF Began, store
  <1>2. TablesOK' /\ Steady
    BY <1>1 DEF AccountsInv, TablesOK, Began, Steady
  <1>3. PICK s : s = Program[op]
    OBVIOUS
  <1>4. Needs(s, c) /\ Facts(s) /\ Ran(h, s, c) /\ s # <<>>
    BY <1>3, NeedsBegin, ProgramFacts, ProgramStarts DEF Began, Starts
  <1>5. Local(h)'
    <2>1. Needs(s, c)'
      BY <1>2, <1>4, NeedsStay
    <2>2. QED
      BY <1>4, <2>1 DEF Local, Ran
  <1>6. \A g \in Handler \ {h} : Local(g)'
    BY <1>2, <1>4, OthersStay
  <1>7. QED
    BY <1>2, <1>5, <1>6 DEF AccountsInv, Began

LEMMA ExpireTables ==
    ASSUME AccountsInv, NEW l \in Link, Expire(l)
    PROVE  /\ TablesOK' /\ Steady /\ \A k \in Link : Kills(links, links', k)
           /\ UNCHANGED <<users, sessions, creds, challenges, held, history, control>>
  <1>1. /\ links[l] # None /\ links' = Dead(links, {l})
        /\ UNCHANGED <<users, sessions, creds, challenges, held, history, control>>
    BY DEF Expire, Live
  <1>2. /\ links' = [k \in Link |-> links'[k]] /\ \A k \in Link : Kills(links, links', k)
    <2>1. DOMAIN links = Link /\ \A k \in Link : k \in {l} => links[k] # None
      BY <1>1 DEF AccountsInv, TablesOK
    <2>2. QED
      BY <1>1, <2>1, DeadKills
  <1>3. LinkEffect("wait", Blank)
    BY <1>2 DEF LinkEffect
  <1>4. PICK c \in CallRecord : TRUE
    <2>1. PICK d : d = [Blank EXCEPT !.op = "register"]
      OBVIOUS
    <2>2. d \in CallRecord
      BY <2>1, BlankType DEF Draft, CallRecord, Request
    <2>3. QED
      BY <2>2
  <1>5. LinkEffect("wait", c)
    BY <1>3 DEF LinkEffect
  <1>6. Ready("wait", c)
    BY DEF Ready, UsesRow, UsesUser, LinkSteps, CredSteps
  <1>7. /\ links' \in [Link -> LinkRow \cup {None}]
        /\ \A k \in Link : links'[k] # None /\ links'[k].kind # "pending" => links'[k].user \in User
        /\ \A k \in Link : links[k] # None => links'[k] # None
    BY <1>5, <1>6, LinksOK DEF AccountsInv
  <1>8. QED
    BY <1>1, <1>2, <1>7 DEF AccountsInv, TablesOK, Steady, held, history

LEMMA ExpireKeeps ==
    ASSUME AccountsInv, NEW l \in Link, Expire(l)
    PROVE  AccountsInv'
  <1>1. TablesOK' /\ Steady /\ UNCHANGED control
    BY ExpireTables
  <1>2. UNCHANGED <<pc, call, turn, sync, mix, failures>>
    BY <1>1 DEF control
  <1>3. Loop' /\ mix' \in Mixes
    BY <1>2 DEF AccountsInv, Loop, ControlOK, LoopOK, TurnOK
  <1>4. ASSUME NEW h \in Handler PROVE Local(h)'
    <2>1. PICK s, c : s = pc[h] /\ c = call[h]
      OBVIOUS
    <2>2. s # <<>> => c \in CallRecord /\ Facts(s) /\ Needs(s, c)'
      BY <1>1, <2>1, NeedsStay DEF AccountsInv, Local
    <2>3. QED
      BY <1>2, <2>1, <2>2 DEF Local
  <1>5. QED
    BY <1>1, <1>3, <1>4 DEF AccountsInv

LEMMA AccountsInit == Init => AccountsInv
  <1> SUFFICES ASSUME Init PROVE AccountsInv
    OBVIOUS
  <1>1. Loop /\ \A h \in Handler : pc[h] = <<>>
    BY LoopInit DEF Init, Loop, HandlersInit
  <1>2. mix.account \in BOOLEAN /\ mix.counted \in Nat /\ mix \in Mixes
    BY AccountsAssumption DEF Init, HandlersInit
  <1>3. PICK u \in User : u = CHOOSE x \in User : TRUE
    BY AccountsAssumption
  <1>4. PICK s : s = CHOOSE x \in Session : TRUE
    OBVIOUS
  <1>5. PICK there \in BOOLEAN : there = mix.account
    BY <1>2
  <1>6. /\ users = [x \in User |-> IF there /\ x = u
               THEN [tv |-> 0, password |-> 1, verified |-> FALSE] ELSE None]
        /\ sessions = [x \in Session |-> IF there /\ x = s THEN "live" ELSE "none"]
        /\ tokens = [x \in Session |-> IF there /\ x = s
               THEN [user |-> u, tv |-> 0, proof |-> 1] ELSE None]
        /\ creds = [d \in Credential |-> IF there /\ d \in mix.passkeys
               THEN [user |-> u, count |-> mix.counted, live |-> TRUE] ELSE None]
        /\ passwords = IF there THEN 1 ELSE 0
    BY <1>3, <1>4, <1>5 DEF Init
  <1>7. users \in [User -> UserRow \cup {None}] /\ creds \in [Credential -> CredentialRow \cup {None}]
    BY <1>2, <1>6 DEF UserRow, CredentialRow
  <1>8. PICK t \in Token : t = [user |-> u, tv |-> 0, proof |-> 1]
    BY DEF Token
  <1>9. /\ sessions \in [Session -> {"none", "live", "revoked"}]
        /\ tokens \in [Session -> Token \cup {None}]
        /\ \A x \in Session : sessions[x] # "none" => tokens[x] # None
    BY <1>6, <1>8, AccountsAssumption
  <1>10. /\ links = [l \in Link |-> None] /\ challenges = [k \in Challenge |-> None]
         /\ mfa = {} /\ erased = {} /\ settled = [k \in Challenge |-> 0]
    BY DEF Init
  <1>11. IsFiniteSet(erased) /\ passwords \in Nat
    BY <1>6, <1>10, FS_EmptySet
  <1>12. TablesOK
    BY <1>7, <1>9, <1>10, <1>11 DEF TablesOK
  <1>13. QED
    BY <1>1, <1>2, <1>12 DEF AccountsInv, Local

LEMMA NextSteps ==
    ASSUME Next
    PROVE  \/ \E h \in Handler : Asks(h) \/ Under(h)
           \/ \E l \in Link : Expire(l)
  BY DEF Next, Asks, Under

LEMMA AccountsNext == AccountsInv /\ [Next]_vars => AccountsInv'
  <1> SUFFICES ASSUME AccountsInv, [Next]_vars PROVE AccountsInv'
    OBVIOUS
  <1>1. ASSUME NEW h \in Handler, Asks(h) PROVE AccountsInv'
    BY <1>1, AskBegan, BeganKeeps
  <1>2. ASSUME NEW h \in Handler, Under(h) PROVE AccountsInv'
    BY <1>2, StepDid, DidKeeps
  <1>3. CASE UNCHANGED vars
    BY <1>3 DEF vars, store, held, history, control, AccountsInv, TablesOK, Loop, ControlOK, LoopOK,
                TurnOK, Local, Needs
  <1>4. QED
    BY <1>1, <1>2, <1>3, NextSteps, ExpireKeeps

LEMMA AccountsInvariance == Spec => []AccountsInv
  BY AccountsInit, AccountsNext, PTL DEF Spec

\* What clients, handlers and tables hold has its type, on any build.
THEOREM AccountsTypes == Spec => []TypeOK
  <1>1. AccountsInv => TypeOK
    BY DEF AccountsInv, TablesOK, TypeOK, Loop, LoopOK
  <1>2. QED
    BY <1>1, AccountsInvariance, PTL

\* No request under way brings an account back that was deleted, however the
\* requests interleave (deleteUserCascade; an UPDATE finds no row).
THEOREM DeletedStaysDeleted == Spec => []ErasedStaysErased
  <1>1. AccountsInv => ErasedStaysErased
    BY DEF AccountsInv, TablesOK, ErasedStaysErased
  <1>2. QED
    BY <1>1, AccountsInvariance, PTL

-----------------------------------------------------------------------------
(* The counters of the passkeys, however sign-ins overlap. *)

\* A sign-in under way has read a counter not below the one at rest, and once its
\* assertion is verified it has reported one beyond it.
CounterLocal(s, c) ==
    c.op = "passkeyLogin" =>
        /\ c.cred \in Credential
        /\ ~NoneOf(s, CredSteps) /\ Lacks(s, "readCred") => c.credRow.count >= resting[c.cred]
        /\ Lacks(s, "verifyAssertion") => CounterMoves(c.count, resting[c.cred])

Counters ==
    /\ resting \in [Credential -> Nat]
    /\ \A d \in Credential : IF creds[d] = None THEN resting[d] = 0
                             ELSE creds[d].count >= resting[d]

CounterInv == Counters /\ \A h \in Handler : pc[h] # <<>> => CounterLocal(pc[h], call[h])

CountsStand == \A d \in Credential : creds[d] # None => creds'[d].count = creds[d].count

LEMMA CounterPasses ==
    ASSUME NEW n \in Nat, NEW read \in Nat, NEW rest \in Nat, CounterMoves(n, read), read >= rest
    PROVE  CounterMoves(n, rest) /\ n >= rest
  BY DEF CounterMoves

\* Only a sign-in writes a counter.
LEMMA GoesCounts ==
    ASSUME TablesOK, NEW x, NEW c, Ready(x, c), CredEffect(x, c), x # "writeCred"
    PROVE  CountsStand
  <1>0. creds \in [Credential -> CredentialRow \cup {None}] /\ None \notin CredentialRow
    BY AccountsAssumption DEF TablesOK
  <1>1. ASSUME NEW S, creds' = Dead(creds, S) PROVE CountsStand
    <2>1. ASSUME NEW d \in Credential, creds[d] # None PROVE creds'[d].count = creds[d].count
      <3>1. PICK r \in CredentialRow : r = creds[d]
        BY <1>0, <2>1
      <3>2. creds'[d] = r \/ creds'[d] = [r EXCEPT !.live = FALSE]
        BY <1>0, <1>1, <3>1 DEF Dead
      <3>3. QED
        BY <3>1, <3>2 DEF CredentialRow
    <2>2. QED
      BY <2>1 DEF CountsStand
  <1>2. CASE /\ x = "createCred" /\ creds[c.cred] = None
             /\ creds' = [creds EXCEPT ![c.cred] = [user |-> c.user, count |-> 0, live |-> TRUE]]
    BY <1>0, <1>2 DEF CountsStand
  <1>3. CASE creds' = creds
    BY <1>3 DEF CountsStand
  <1>4. QED
    BY <1>1, <1>2, <1>3 DEF CredEffect

\* What one step does to the counters: a sign-in writes the one it verified.
LEMMA CountersGo ==
    ASSUME TablesOK, TablesOK', Steady, Counters, NEW x, NEW c \in CallRecord, Ready(x, c),
           CredEffect(x, c), resting' = resting,
           x = "writeCred" => c.count >= resting[c.cred]
    PROVE  Counters'
  <1>0. /\ creds \in [Credential -> CredentialRow \cup {None}]
        /\ creds' \in [Credential -> CredentialRow \cup {None}] /\ None \notin CredentialRow
    BY AccountsAssumption DEF TablesOK
  <1>1. ASSUME NEW d \in Credential, creds[d] = None, creds'[d] # None PROVE creds'[d].count >= resting[d]
    <2>1. resting[d] = 0
      BY <1>1 DEF Counters
    <2>2. creds'[d].count \in Nat
      BY <1>0, <1>1 DEF CredentialRow
    <2>3. QED
      BY <2>1, <2>2
  <1>2. ASSUME NEW d \in Credential, creds[d] # None PROVE creds'[d].count >= resting[d]
    <2>1. creds[d].count >= resting[d]
      BY <1>2 DEF Counters
    <2>2. CASE x = "writeCred"
      <3>1. creds' = [creds EXCEPT ![c.cred].count = c.count]
        BY <2>2 DEF CredEffect
      <3>2. CASE d = c.cred
        <4>1. PICK r \in CredentialRow : r = creds[d]
          BY <1>0, <1>2
        <4>2. creds'[d] = [r EXCEPT !.count = c.count]
          BY <1>0, <3>1, <3>2, <4>1
        <4>3. creds'[d].count = c.count
          BY <4>2 DEF CredentialRow
        <4>4. QED
          BY <2>2, <3>2, <4>3
      <3>3. CASE d # c.cred
        BY <1>0, <2>1, <3>1, <3>3
      <3>4. QED
        BY <3>2, <3>3
    <2>3. CASE x # "writeCred"
      BY <1>2, <2>1, <2>3, GoesCounts DEF CountsStand
    <2>4. QED
      BY <2>2, <2>3
  <1>3. ASSUME NEW d \in Credential, creds'[d] = None PROVE resting[d] = 0
    BY <1>3 DEF Steady, Counters
  <1>4. QED
    BY <1>1, <1>2, <1>3 DEF Counters

LEMMA CounterStep ==
    ASSUME TablesOK, Counters, NEW s \in Seq(Step), s # <<>>, Facts(s), NEW c \in CallRecord,
           NEW c2, Needs(s, c), Ready(Head(s), c), CounterLocal(s, c), resting' = resting,
           Same(Head(s), c, c2), Learns(Head(s), c, c2)
    PROVE  CounterLocal(Tail(s), c2)'
  <1> DEFINE t == Tail(s)
  <1>1. \A y : Lacks(s, y) <=> Head(s) # y /\ Lacks(t, y)
    BY LacksTail
  <1>2. PICK x : x = Head(s)
    OBVIOUS
  <1>3. x \in {"verifyAssertion", "writeCred", "deleteCred"} => NoneOf(t, {"readCred"})
    BY <1>2, ClearTail DEF Facts
  <1> HIDE DEF t
  <1>4. /\ c2.op = c.op /\ c2.cred = c.cred /\ c2.count = c.count
        /\ x # "readCred" => c2.credRow = c.credRow
    BY <1>2 DEF Same
  <1>5. SUFFICES ASSUME c.op = "passkeyLogin"
                 PROVE  /\ ~NoneOf(t, CredSteps) /\ Lacks(t, "readCred") =>
                                c2.credRow.count >= resting[c.cred]
                        /\ Lacks(t, "verifyAssertion") => CounterMoves(c.count, resting[c.cred])
    BY <1>4 DEF CounterLocal, t
  <1>6. c.cred \in Credential
    BY <1>5 DEF CounterLocal
  <1>7. ~NoneOf(t, CredSteps) /\ Lacks(t, "readCred") => c2.credRow.count >= resting[c.cred]
    <2>1. SUFFICES ASSUME ~NoneOf(t, CredSteps), Lacks(t, "readCred")
                   PROVE  c2.credRow.count >= resting[c.cred]
      OBVIOUS
    <2>2. CASE x = "readCred"
      BY <1>2, <1>6, <2>2 DEF Learns, Live, Counters
    <2>3. CASE x # "readCred"
      <3>1. ~NoneOf(s, CredSteps) /\ Lacks(s, "readCred")
        BY <1>1, <1>2, <2>1, <2>3 DEF NoneOf
      <3>2. QED
        BY <1>4, <1>5, <2>3, <3>1 DEF CounterLocal
    <2>4. QED
      BY <2>2, <2>3
  <1>8. Lacks(t, "verifyAssertion") => CounterMoves(c.count, resting[c.cred])
    <2>1. SUFFICES ASSUME Lacks(t, "verifyAssertion") PROVE CounterMoves(c.count, resting[c.cred])
      OBVIOUS
    <2>2. CASE x = "verifyAssertion"
      <3>1. Lacks(s, "readCred") /\ ~NoneOf(s, CredSteps)
        BY <1>1, <1>2, <1>3, <2>2 DEF NoneOf, CredSteps
      <3>2. c.credRow.count >= resting[c.cred] /\ c.credRow \in CredentialRow
        BY <1>5, <3>1 DEF CounterLocal, Needs
      <3>3. c.count \in Nat /\ c.credRow.count \in Nat /\ resting[c.cred] \in Nat
        BY <1>6, <3>2 DEF CallRecord, CredentialRow, Counters
      <3>4. CounterMoves(c.count, c.credRow.count)
        BY <1>2, <2>2 DEF Learns
      <3>5. QED
        BY <3>2, <3>3, <3>4, CounterPasses
    <2>3. CASE x # "verifyAssertion"
      BY <1>1, <1>2, <1>5, <2>1, <2>3 DEF CounterLocal
    <2>4. QED
      BY <2>2, <2>3
  <1>9. QED
    BY <1>7, <1>8

\* A handler about to write a counter, or to start a session, has verified.
LEMMA VerifiedMoves ==
    ASSUME NEW s \in Seq(Step), s # <<>>, Facts(s), NEW c, CounterLocal(s, c),
           Head(s) \in {"writeCred", "startSession"}, c.op = "passkeyLogin"
    PROVE  c.cred \in Credential /\ CounterMoves(c.count, resting[c.cred])
  <1>1. NoneOf(Tail(s), {"verifyAssertion"})
    BY ClearTail DEF Facts
  <1>2. Lacks(s, "verifyAssertion")
    BY <1>1, LacksTail DEF NoneOf
  <1>3. QED
    BY <1>2 DEF CounterLocal

LEMMA CounterDid ==
    ASSUME AccountsInv, CounterInv, NEW h \in Handler, Did(h)
    PROVE  CounterInv'
  <1>1. /\ TablesOK /\ TablesOK' /\ Steady /\ pc[h] # <<>> /\ pc[h] \in Seq(Step) /\ Facts(pc[h])
        /\ call[h] \in CallRecord /\ Needs(pc[h], call[h]) /\ Ready(Head(pc[h]), call[h])
        /\ Counters /\ CounterLocal(pc[h], call[h])
    BY DidTables, HasCall, IsReady DEF AccountsInv, Did, Runs, CounterInv
  <1>2. PICK s, c : s = pc[h] /\ c = call[h]
    OBVIOUS
  <1>3. ASSUME NEW rest, NEW d, Ran(h, rest, d), resting' = resting,
               rest # <<>> => CounterLocal(rest, d), Counters'
        PROVE  CounterInv'
    <2>1. ASSUME NEW g \in Handler, pc'[g] # <<>> PROVE CounterLocal(pc[g], call[g])'
      <3>1. CASE g = h
        <4>1. pc'[g] = rest /\ call'[g] = d /\ CounterLocal(rest, d)
          BY <1>3, <2>1, <3>1 DEF Ran
        <4>2. QED
          BY <1>3, <4>1 DEF CounterLocal
      <3>2. CASE g # h
        <4>1. pc'[g] = pc[g] /\ call'[g] = call[g]
          BY <1>3, <3>2 DEF Ran
        <4>2. CounterLocal(pc[g], call[g])
          BY <2>1, <4>1 DEF CounterInv
        <4>3. QED
          BY <1>3, <4>1, <4>2 DEF CounterLocal
      <3>3. QED
        BY <3>1, <3>2
    <2>2. QED
      BY <1>3, <2>1 DEF CounterInv
  <1>4. CASE Went(h)
    <2>1. PICK c2 : Ran(h, Tail(pc[h]), c2) /\ Goes(Head(pc[h]), call[h], c2)
      BY <1>4 DEF Went
    <2>2. PICK t, x : t = Tail(s) /\ x = Head(s)
      OBVIOUS
    <2>3. /\ Ran(h, t, c2) /\ resting' = resting /\ CredEffect(x, c)
          /\ Same(x, c, c2) /\ Learns(x, c, c2)
      BY <1>2, <2>1, <2>2 DEF Goes, OtherEffect
    <2>4. CounterLocal(Tail(s), c2)'
      BY <1>1, <1>2, <2>2, <2>3, CounterStep
    <2>5. CounterLocal(t, c2)
      BY <2>2, <2>3, <2>4 DEF CounterLocal
    <2>6. x = "writeCred" => c.count >= resting[c.cred]
      <3>1. SUFFICES ASSUME x = "writeCred" PROVE c.count >= resting[c.cred]
        OBVIOUS
      <3>2. ~Lacks(s, "writeCred")
        BY <1>1, <1>2, <2>2, <3>1, LacksTail
      <3>3. c.op = "passkeyLogin"
        BY <1>1, <1>2, <3>2 DEF Needs, NoneOf
      <3>4. c.cred \in Credential /\ CounterMoves(c.count, resting[c.cred])
        BY <1>1, <1>2, <2>2, <3>1, <3>3, VerifiedMoves
      <3>5. c.count \in Nat /\ resting[c.cred] \in Nat
        BY <1>1, <1>2, <3>4 DEF CallRecord, Counters
      <3>6. QED
        BY <3>4, <3>5, CounterPasses
    <2>7. Counters'
      BY <1>1, <1>2, <2>2, <2>3, <2>6, CountersGo
    <2>8. QED
      BY <1>3, <2>3, <2>5, <2>7
  <1>5. CASE Stopped(h)
    <2>1. Ran(h, <<>>, NoCall) /\ UNCHANGED <<creds, resting>>
      BY <1>5 DEF Stopped, store, history
    <2>2. Counters'
      BY <1>1, <2>1 DEF Counters
    <2>3. QED
      BY <1>3, <2>1, <2>2
  <1>6. CASE Again(h)
    <2>1. PICK r \in call[h].listed : Ran(h, pc[h], [call[h] EXCEPT !.listed = @ \ {r}])
      BY <1>6 DEF Again
    <2>2. PICK c2 : c2 = [c EXCEPT !.listed = @ \ {r}]
      OBVIOUS
    <2>3. c2.op = c.op /\ c2.cred = c.cred /\ c2.credRow = c.credRow /\ c2.count = c.count
      BY <1>1, <1>2, <2>2 DEF CallRecord
    <2>4. Ran(h, s, c2) /\ UNCHANGED <<creds, resting>>
      BY <1>2, <1>6, <2>1, <2>2 DEF Again, history
    <2>5. CounterLocal(s, c2)
      BY <1>1, <1>2, <2>3 DEF CounterLocal
    <2>6. Counters'
      BY <1>1, <2>4 DEF Counters
    <2>7. QED
      BY <1>3, <2>4, <2>5, <2>6
  <1>7. QED
    BY <1>4, <1>5, <1>6 DEF Did

\* The counter at rest is raised only while no sign-in with the passkey is under way.
LEMMA CounterBegan ==
    ASSUME AccountsInv, CounterInv, NEW h \in Handler, NEW op \in Request,
           NEW c \in CallRecord, Began(h, op, c)
    PROVE  CounterInv'
  <1>1. /\ Ran(h, Program[op], c) /\ c.op = op /\ creds' = creds
        /\ op = "passkeyLogin" => c.cred \in Credential
        /\ resting' = IF op = "passkeyLogin" /\ AtRest(c.cred) /\ creds[c.cred] # None
                      THEN [resting EXCEPT ![c.cred] = creds[c.cred].count] ELSE resting
    BY DEF Began, store, Given
  <1>2. /\ creds \in [Credential -> CredentialRow \cup {None}] /\ resting \in [Credential -> Nat]
        /\ Counters
    BY DEF AccountsInv, TablesOK, CounterInv, Counters
  <1>3. \A d \in Credential : creds[d] # None => creds[d].count \in Nat
    BY <1>2 DEF CredentialRow
  <1>4. Counters'
    BY <1>1, <1>2, <1>3 DEF Counters
  <1>5. ASSUME NEW g \in Handler, pc'[g] # <<>> PROVE CounterLocal(pc[g], call[g])'
    <2>1. CASE g = h
      <3>1. pc'[g] = Program[op] /\ call'[g] = c
        BY <1>1, <1>5, <2>1 DEF Ran
      <3>2. op = "passkeyLogin" => Program[op] = passkeyLogin
        BY DEF Program
      <3>3. ~Lacks(passkeyLogin, "readCred") /\ ~Lacks(passkeyLogin, "verifyAssertion")
        BY Steps_passkeyLogin
      <3>4. QED
        BY <1>1, <3>1, <3>2, <3>3 DEF CounterLocal
    <2>2. CASE g # h
      <3>1. pc'[g] = pc[g] /\ call'[g] = call[g] /\ CounterLocal(pc[g], call[g])
        BY <1>1, <1>5, <2>2 DEF Ran, CounterInv
      <3>2. call[g].op = "passkeyLogin" =>
                call[g].cred \in Credential /\ resting'[call[g].cred] = resting[call[g].cred]
        BY <1>1, <1>2, <3>1 DEF CounterLocal, AtRest
      <3>3. QED
        BY <3>1, <3>2 DEF CounterLocal
    <2>3. QED
      BY <2>1, <2>2
  <1>6. QED
    BY <1>4, <1>5 DEF CounterInv

LEMMA CounterStutter ==
    ASSUME CounterInv, UNCHANGED <<creds, resting, pc, call>>
    PROVE  CounterInv'
  <1>1. Counters'
    BY DEF CounterInv, Counters
  <1>2. ASSUME NEW h \in Handler, pc'[h] # <<>> PROVE CounterLocal(pc[h], call[h])'
    BY <1>2 DEF CounterInv, CounterLocal
  <1>3. QED
    BY <1>1, <1>2 DEF CounterInv

LEMMA CounterInit == Init => CounterInv
  <1> SUFFICES ASSUME Init PROVE CounterInv
    OBVIOUS
  <1>1. resting = [d \in Credential |-> 0] /\ \A h \in Handler : pc[h] = <<>>
    BY DEF Init, HandlersInit
  <1>2. AccountsInv
    BY AccountsInit
  <1>3. \A d \in Credential : creds[d] # None => creds[d].count \in Nat
    BY <1>2 DEF AccountsInv, TablesOK, CredentialRow
  <1>4. QED
    BY <1>1, <1>3 DEF CounterInv, Counters

LEMMA CounterNext == AccountsInv /\ CounterInv /\ [Next]_vars => CounterInv'
  <1> SUFFICES ASSUME AccountsInv, CounterInv, [Next]_vars PROVE CounterInv'
    OBVIOUS
  <1>1. ASSUME NEW h \in Handler, Asks(h) PROVE CounterInv'
    BY <1>1, AskBegan, CounterBegan
  <1>2. ASSUME NEW h \in Handler, Under(h) PROVE CounterInv'
    BY <1>2, StepDid, CounterDid
  <1>3. ASSUME NEW l \in Link, Expire(l) PROVE CounterInv'
    <2>1. UNCHANGED <<creds, resting, pc, call>>
      BY <1>3 DEF Expire, history, control
    <2>2. QED
      BY <2>1, CounterStutter
  <1>4. CASE UNCHANGED vars
    <2>1. UNCHANGED <<creds, resting, pc, call>>
      BY <1>4 DEF vars, store, history, control
    <2>2. QED
      BY <2>1, CounterStutter
  <1>5. QED
    BY <1>1, <1>2, <1>3, <1>4, NextSteps

\* On any build, however many sign-ins with one passkey overlap and whichever of
\* them writes last, its counter is never below what it was before the first of
\* them, and none gets through with that counter or a lower one, zero apart
\* (PasskeyService.login writes back the row it read before verifying).
THEOREM ACounterHoldsItsGround == Spec => []CounterHoldsItsGround
  <1>1. AccountsInv /\ CounterInv => CounterHoldsItsGround
    <2> SUFFICES ASSUME AccountsInv, CounterInv PROVE CounterHoldsItsGround
      OBVIOUS
    <2>1. \A d \in Credential : creds[d] # None => creds[d].count >= resting[d]
      BY DEF CounterInv, Counters
    <2>2. ASSUME NEW h \in Handler, Verified(h), call[h].op = "passkeyLogin"
          PROVE  CounterMoves(call[h].count, resting[call[h].cred])
      <3>1. /\ pc[h] \in Seq(Step) /\ pc[h] # <<>> /\ Facts(pc[h])
            /\ CounterLocal(pc[h], call[h]) /\ Head(pc[h]) \in {"writeCred", "startSession"}
        BY <2>2, HasCall DEF Verified, CounterInv
      <3>2. QED
        BY <2>2, <3>1, VerifiedMoves
    <2>3. QED
      BY <2>1, <2>2 DEF CounterHoldsItsGround, CounterMoves
  <1>2. AccountsInv /\ CounterInv /\ [Next]_vars => (AccountsInv /\ CounterInv)'
    BY AccountsNext, CounterNext
  <1>3. QED
    BY <1>1, <1>2, AccountsInit, CounterInit, PTL DEF Spec

-----------------------------------------------------------------------------
(* The invariant for changes that do not overlap. *)

\* A token or a row of account u that was read is not newer than the account's
\* row, and if it is as new it knows the password.
Fits(u, tv, password) ==
    \/ u \in erased
    \/ /\ u \in User /\ users[u] # None /\ tv <= users[u].tv
       /\ tv = users[u].tv => password = users[u].password

RowLocal(s, c) ==
    /\ ~Lacks(s, "checkVersion") => Fits(c.user, c.tv, c.proof)
    /\ ~NoneOf(s, UsesRow) /\ NoneOf(s, RowReaders) => Fits(c.user, c.row.tv, c.row.password)
    /\ ~NoneOf(s, {"startSession", "listPasskeys"})
       /\ NoneOf(s, RowReaders \cup {"verifyPassword", "writePassword"}) =>
            c.proof = c.row.password
    /\ ~NoneOf(s, UserWrites) /\ NoneOf(s, RowReaders) =>
            users[c.user] \in {None, c.row}

\* One request at most writes back what it read before a wait.
Alone == \A g, h \in Handler : call[g].op \in Changes /\ call[h].op \in Changes => g = h

HeldFits == /\ \A s \in Session : tokens[s] # None =>
                    Fits(tokens[s].user, tokens[s].tv, tokens[s].proof)
            /\ \A t \in mfa : Fits(t.user, t.tv, t.proof)

Rows == /\ Alone /\ HeldFits
        /\ \A h \in Handler : pc[h] # <<>> => RowLocal(pc[h], call[h])

RowInv == ~Overlap => Rows

\* A row goes forward, or its account is erased.
RowsGrow ==
    /\ erased \subseteq erased'
    /\ \A u \in User : users[u] # None =>
          \/ u \in erased'
          \/ /\ users'[u] # None /\ users'[u].tv >= users[u].tv
             /\ users'[u].tv = users[u].tv => users'[u].password = users[u].password

\* The accounts there were are as they were, or gone.
RowsStand ==
    \A u \in User : u \in erased \/ users[u] # None => users'[u] \in {None, users[u]}

\* What RowLocal says of the next step.
HeadFits(x, c) ==
    /\ x \in UsesRow => Fits(c.user, c.row.tv, c.row.password)
    /\ x \in UserWrites => users[c.user] \in {None, c.row}
    /\ x \in {"startSession", "listPasskeys"} => c.proof = c.row.password
    /\ x = "checkVersion" => Fits(c.user, c.tv, c.proof)

LEMMA HeadIsFit ==
    ASSUME NEW s \in Seq(Step), s # <<>>, Facts(s), NEW c, RowLocal(s, c)
    PROVE  HeadFits(Head(s), c)
  <1> DEFINE t == Tail(s)
  <1>1. \A x : Lacks(s, x) <=> Head(s) # x /\ Lacks(t, x)
    BY LacksTail
  <1>2. /\ Head(s) \in UsesRow => NoneOf(t, RowReaders)
        /\ Head(s) \in {"startSession", "listPasskeys"} => NoneOf(t, {"verifyPassword", "writePassword"})
    BY ClearTail DEF Facts
  <1> HIDE DEF t
  <1>3. PICK x : x = Head(s)
    OBVIOUS
  <1>4. \A S : ~NoneOf(s, S) <=> x \in S \/ ~NoneOf(t, S)
    BY <1>1, <1>3 DEF NoneOf
  <1>5. x \in UsesRow => ~NoneOf(s, UsesRow) /\ NoneOf(s, RowReaders)
    BY <1>2, <1>3, <1>4 DEF UsesRow, RowReaders
  <1>6. x \in UserWrites => ~NoneOf(s, UserWrites) /\ x \in UsesRow
    BY <1>4 DEF UserWrites, UsesRow
  <1>7. x \in {"startSession", "listPasskeys"} =>
            /\ ~NoneOf(s, {"startSession", "listPasskeys"})
            /\ NoneOf(s, RowReaders \cup {"verifyPassword", "writePassword"})
    <2>1. x \in {"startSession", "listPasskeys"} =>
            NoneOf(s, RowReaders) /\ NoneOf(s, {"verifyPassword", "writePassword"})
      BY <1>2, <1>3, <1>4, <1>5 DEF UsesRow
    <2>2. QED
      BY <1>4, <2>1 DEF NoneOf
  <1>8. x = "checkVersion" => ~Lacks(s, "checkVersion")
    BY <1>1, <1>3
  <1>9. HeadFits(x, c)
    BY <1>5, <1>6, <1>7, <1>8 DEF RowLocal, HeadFits
  <1>10. QED
    BY <1>3, <1>9

LEMMA FitsStays ==
    ASSUME TablesOK, RowsGrow, TablesOK', NEW u, NEW tv \in Nat, NEW p, Fits(u, tv, p)
    PROVE  Fits(u, tv, p)'
  <1>1. CASE u \in erased
    BY <1>1 DEF Fits, RowsGrow
  <1>2. CASE /\ u \in User /\ users[u] # None /\ tv <= users[u].tv
             /\ tv = users[u].tv => p = users[u].password
    <2>1. CASE u \in erased'
      BY <2>1 DEF Fits
    <2>2. CASE /\ users'[u] # None /\ users'[u].tv >= users[u].tv
               /\ users'[u].tv = users[u].tv => users'[u].password = users[u].password
      <3>1. users[u].tv \in Nat /\ users'[u].tv \in Nat
        BY <1>2, <2>2 DEF TablesOK, UserRow
      <3>2. tv <= users'[u].tv
        BY <1>2, <2>2, <3>1
      <3>3. tv = users'[u].tv => tv = users[u].tv /\ users'[u].tv = users[u].tv
        BY <1>2, <2>2, <3>1
      <3>4. QED
        BY <1>2, <2>2, <3>2, <3>3 DEF Fits
    <2>3. QED
      BY <1>2, <2>1, <2>2 DEF RowsGrow
  <1>3. QED
    BY <1>1, <1>2 DEF Fits

LEMMA GoesRows ==
    ASSUME TablesOK, NEW x, NEW c, NEW c2, Ready(x, c), Learns(x, c, c2), UserEffect(x, c, c2),
           HeadFits(x, c)
    PROVE  RowsGrow
  <1>0. users \in [User -> UserRow \cup {None}] /\ erased \subseteq User
    BY DEF TablesOK
  <1>1. CASE x \in UserWrites /\ users' = Update(c.user, c2.row) /\ erased' = erased
    <2>1. /\ users[c.user] \in {None, c.row} /\ c2.row \in UserRow /\ c.row \in UserRow
          /\ c2.row.tv >= c.row.tv /\ (c2.row.tv = c.row.tv => c2.row.password = c.row.password)
      BY <1>1 DEF HeadFits, Learns
    <2>2. c2.row # None
      BY <2>1, AccountsAssumption
    <2>3. ASSUME NEW u \in User, users[u] # None
          PROVE  /\ users'[u] # None /\ users'[u].tv >= users[u].tv
                 /\ users'[u].tv = users[u].tv => users'[u].password = users[u].password
      <3>1. CASE u = c.user
        <4>1. users[u] = c.row /\ users'[u] = c2.row
          BY <1>0, <1>1, <2>1, <2>3, <3>1 DEF Update
        <4>2. QED
          BY <2>1, <2>2, <4>1
      <3>2. CASE u # c.user
        <4>1. users'[u] = users[u] /\ users[u].tv \in Nat
          BY <1>0, <1>1, <2>3, <3>2 DEF Update, UserRow
        <4>2. QED
          BY <2>3, <4>1
      <3>3. QED
        BY <3>1, <3>2
    <2>4. QED
      BY <1>1, <2>3 DEF RowsGrow
  <1>2. CASE /\ x = "createUser" /\ c2.user \notin erased /\ users[c2.user] = None
             /\ users' = [users EXCEPT ![c2.user] = c2.row] /\ erased' = erased
    <2>1. ASSUME NEW u \in User, users[u] # None PROVE users'[u] = users[u] /\ users[u].tv \in Nat
      BY <1>0, <1>2, <2>1 DEF UserRow
    <2>2. QED
      BY <1>2, <2>1 DEF RowsGrow
  <1>3. CASE /\ x = "eraseUser" /\ users' = [users EXCEPT ![c.user] = None]
             /\ erased' = erased \cup {c.user}
    <2>1. ASSUME NEW u \in User, users[u] # None
          PROVE  u \in erased' \/ (users'[u] = users[u] /\ users[u].tv \in Nat)
      BY <1>0, <1>3, <2>1 DEF UserRow
    <2>2. QED
      BY <1>3, <2>1 DEF RowsGrow
  <1>4. CASE UNCHANGED <<users, erased>>
    <2>1. ASSUME NEW u \in User, users[u] # None PROVE users'[u] = users[u] /\ users[u].tv \in Nat
      BY <1>0, <1>4, <2>1 DEF UserRow
    <2>2. QED
      BY <1>4, <2>1 DEF RowsGrow
  <1>5. QED
    BY <1>1, <1>2, <1>3, <1>4 DEF UserEffect

\* A step of a request that writes nothing back leaves the rows alone.
LEMMA GoesStand ==
    ASSUME TablesOK, NEW x, NEW c, NEW c2, UserEffect(x, c, c2), x \notin UserWrites
    PROVE  RowsStand
  BY DEF UserEffect, TablesOK, RowsStand

LEMMA RowOthers ==
    ASSUME TablesOK, TablesOK', RowsGrow, NEW s, NEW d \in CallRecord, Needs(s, d), RowLocal(s, d),
           d.op \in Changes => RowsStand
    PROVE  RowLocal(s, d)'
  <1>1. ~Lacks(s, "checkVersion") => Fits(d.user, d.tv, d.proof)'
    <2>1. d.tv \in Nat
      BY DEF CallRecord
    <2>2. QED
      BY <2>1, FitsStays DEF RowLocal
  <1>2. ~NoneOf(s, UsesRow) /\ NoneOf(s, RowReaders) => Fits(d.user, d.row.tv, d.row.password)'
    <2>1. ~NoneOf(s, UsesRow) /\ NoneOf(s, RowReaders) => d.row.tv \in Nat
      BY DEF Needs, UserRow
    <2>2. QED
      BY <2>1, FitsStays DEF RowLocal
  <1>3. ~NoneOf(s, UserWrites) /\ NoneOf(s, RowReaders) => users'[d.user] \in {None, d.row}
    <2>1. SUFFICES ASSUME ~NoneOf(s, UserWrites), NoneOf(s, RowReaders)
                   PROVE  users'[d.user] \in {None, d.row}
      OBVIOUS
    <2>2. users[d.user] \in {None, d.row}
      BY <2>1 DEF RowLocal
    <2>3. RowsStand
      BY <2>1 DEF Needs
    <2>4. ~NoneOf(s, UsesRow)
      BY <2>1 DEF NoneOf, UserWrites, UsesRow
    <2>5. Fits(d.user, d.row.tv, d.row.password)
      BY <2>1, <2>4 DEF RowLocal
    <2>6. d.user \in User /\ (d.user \in erased \/ users[d.user] # None)
      BY <2>5 DEF Fits, TablesOK
    <2>7. QED
      BY <2>2, <2>3, <2>6 DEF RowsStand
  <1>6. ~NoneOf(s, {"startSession", "listPasskeys"})
        /\ NoneOf(s, RowReaders \cup {"verifyPassword", "writePassword"}) => d.proof = d.row.password
    BY DEF RowLocal
  <1>7. QED
    BY <1>1, <1>2, <1>3, <1>6 DEF RowLocal

\* The handler's own step.
LEMMA RowGo ==
    ASSUME TablesOK, TablesOK', RowsGrow, NEW s \in Seq(Step), s # <<>>, Facts(s),
           NEW c \in CallRecord, NEW c2, Needs(s, c), Ready(Head(s), c), RowLocal(s, c),
           Goes(Head(s), c, c2)
    PROVE  RowLocal(Tail(s), c2)'
  <1> DEFINE t == Tail(s)
  <1>1. \A y : Lacks(s, y) <=> Head(s) # y /\ Lacks(t, y)
    BY LacksTail
  <1>2. PICK x : x = Head(s)
    OBVIOUS
  <1>3. /\ x \in UsesRow => NoneOf(t, RowReaders)
        /\ x \in UserSources => NoneOf(t, {"checkVersion"})
    BY <1>2, ClearTail DEF Facts
  <1>4. x \in {"readReset", "readConfirm"} => ~NoneOf(t, RowReaders)
    <2>1. x \in {"readReset", "readConfirm"} => t # <<>> /\ Head(t) = "readUser"
      BY <1>2, FollowedTail DEF Facts
    <2>2. t \in Seq(Step)
      BY TailSteps
    <2>3. t # <<>> /\ Head(t) = "readUser" => ~Lacks(t, "readUser")
      BY <2>2, LacksTail
    <2>4. QED
      BY <2>1, <2>3 DEF NoneOf, RowReaders
  <1> HIDE DEF t
  <1>5. \A y : Lacks(t, y) <=> (Lacks(s, y) \/ (y = x /\ Lacks(t, y)))
    BY <1>1, <1>2
  <1>6. \A S : ~NoneOf(t, S) => ~NoneOf(s, S)
    BY <1>1 DEF NoneOf
  <1>7. \A S : NoneOf(t, S) => NoneOf(s, S) \/ x \in S
    BY <1>1, <1>2 DEF NoneOf
  <1>8. Same(x, c, c2) /\ Learns(x, c, c2) /\ UserEffect(x, c, c2)
    BY <1>2 DEF Goes
  <1>9. HeadFits(x, c) /\ Ready(x, c)
    BY <1>2, HeadIsFit
  <1>10. ~Lacks(t, "checkVersion") => Fits(c2.user, c2.tv, c2.proof)'
    <2>1. SUFFICES ASSUME ~Lacks(t, "checkVersion") PROVE Fits(c2.user, c2.tv, c2.proof)'
      OBVIOUS
    <2>2. ~Lacks(s, "checkVersion") /\ x \notin UserSources /\ x \notin UsesRow
      BY <1>1, <1>3, <2>1 DEF NoneOf, RowReaders
    <2>3. c2.user = c.user /\ c2.tv = c.tv /\ c2.proof = c.proof
      BY <1>8, <2>2 DEF Same, UserSources, UsesRow
    <2>4. Fits(c.user, c.tv, c.proof) /\ c.tv \in Nat
      BY <2>2 DEF RowLocal, CallRecord
    <2>5. Fits(c.user, c.tv, c.proof)'
      BY <2>4, FitsStays
    <2>6. QED
      BY <2>3, <2>5
  <1>11. ~NoneOf(t, UsesRow) /\ NoneOf(t, RowReaders) => Fits(c2.user, c2.row.tv, c2.row.password)'
    <2>1. SUFFICES ASSUME ~NoneOf(t, UsesRow), NoneOf(t, RowReaders)
                   PROVE  Fits(c2.user, c2.row.tv, c2.row.password)'
      OBVIOUS
    <2>0. users \in [User -> UserRow \cup {None}] /\ erased \subseteq User /\ None \notin UserRow
      BY AccountsAssumption DEF TablesOK
    <2>2. CASE x \in RowReaders \ {"createUser"}
      <3>1. c2.user \in User /\ c2.row = users[c2.user] /\ c2.row \in UserRow
        BY <1>8, <2>2 DEF Learns
      <3>2. c2.row.tv \in Nat /\ c2.row # None
        BY <2>0, <3>1 DEF UserRow
      <3>3. Fits(c2.user, c2.row.tv, c2.row.password)
        BY <3>1, <3>2 DEF Fits
      <3>4. QED
        BY <3>2, <3>3, FitsStays
    <2>3. CASE x = "createUser"
      <3>1. c2.user \in User /\ c2.row \in UserRow
        BY <1>8, <2>3 DEF Learns, UserSources, RowReaders
      <3>2. users' = [users EXCEPT ![c2.user] = c2.row]
        BY <1>8, <2>3 DEF UserEffect, UserWrites
      <3>3. users'[c2.user] = c2.row /\ c2.row # None /\ c2.row.tv \in Nat
        BY <2>0, <3>1, <3>2 DEF UserRow
      <3>4. QED
        BY <3>1, <3>3 DEF Fits
    <2>4. CASE x \in UserWrites
      <3>1. Fits(c.user, c.row.tv, c.row.password)
        BY <1>9, <2>4 DEF HeadFits, UserWrites, UsesRow
      <3>2. c2.user = c.user /\ c2.row \in UserRow
        BY <1>8, <2>4 DEF Same, Learns, UserWrites, UserSources
      <3>3. users' = Update(c.user, c2.row) /\ erased' = erased
        BY <1>8, <1>9, <2>0, <2>4 DEF HeadFits, Update, UserEffect, UserWrites
      <3>4. CASE c.user \in erased
        BY <3>2, <3>3, <3>4 DEF Fits
      <3>5. CASE c.user \in User /\ users[c.user] # None
        <4>1. users'[c.user] = c2.row /\ c2.row # None /\ c2.row.tv \in Nat
          BY <2>0, <3>2, <3>3, <3>5 DEF Update, UserRow
        <4>2. QED
          BY <3>2, <3>5, <4>1 DEF Fits
      <3>6. QED
        BY <3>1, <3>4, <3>5 DEF Fits
    <2>5. CASE x \notin RowReaders \cup UserWrites
      <3>1. x \notin UserSources
        BY <1>4, <2>1, <2>5 DEF UserSources, RowReaders
      <3>2. c2.user = c.user /\ c2.row = c.row
        BY <1>8, <2>5, <3>1 DEF Same
      <3>3. ~NoneOf(s, UsesRow) /\ NoneOf(s, RowReaders)
        BY <1>6, <1>7, <2>1, <2>5
      <3>4. Fits(c.user, c.row.tv, c.row.password) /\ c.row.tv \in Nat
        BY <3>3 DEF RowLocal, Needs, UserRow
      <3>5. Fits(c.user, c.row.tv, c.row.password)'
        BY <3>4, FitsStays
      <3>6. QED
        BY <3>2, <3>5
    <2>6. QED
      BY <2>2, <2>3, <2>4, <2>5
  <1>12. ~NoneOf(t, {"startSession", "listPasskeys"})
         /\ NoneOf(t, RowReaders \cup {"verifyPassword", "writePassword"}) => c2.proof = c2.row.password
    <2>1. SUFFICES ASSUME ~NoneOf(t, {"startSession", "listPasskeys"}),
                          NoneOf(t, RowReaders), NoneOf(t, {"verifyPassword", "writePassword"})
                   PROVE  c2.proof = c2.row.password
      BY DEF NoneOf
    <2>2. CASE x = "verifyPassword"
      BY <1>8, <2>2 DEF Same, Learns, RowReaders, UserWrites
    <2>3. CASE x = "createUser" \/ x = "writePassword"
      BY <1>8, <2>3 DEF Learns, UserWrites
    <2>4. CASE x \in {"findUser", "readUser"}
      <3>1. ~NoneOf(s, {"findUser", "readUser"}) /\ ~NoneOf(s, {"startSession", "listPasskeys"})
        BY <1>1, <1>2, <1>6, <2>1, <2>4 DEF NoneOf
      <3>2. ~NoneOf(s, {"verifyPassword", "writePassword"})
        BY <3>1 DEF Facts
      <3>3. QED
        BY <1>7, <2>1, <2>4, <3>2
    <2>5. CASE x = "checkVersion"
      <3>1. c2.user = c.user /\ c2.proof = c.proof
        BY <1>8, <2>5 DEF Same, UserSources
      <3>2. c2.row = users[c2.user] /\ c2.row \in UserRow /\ c2.row.tv = c.tv
        BY <1>8, <2>5 DEF Learns, RowReaders
      <3>3. Fits(c.user, c.tv, c.proof)
        BY <1>9, <2>5 DEF HeadFits
      <3>4. c.user \notin erased
        BY <3>1, <3>2, AccountsAssumption DEF TablesOK
      <3>5. QED
        BY <3>1, <3>2, <3>3, <3>4 DEF Fits
    <2>6. CASE x \in {"writeVersion", "writeConfirmed"}
      <3>1. c2.proof = c.proof /\ c2.row.password = c.row.password
        BY <1>8, <2>6 DEF Same, Learns, UserWrites
      <3>2. ~NoneOf(s, {"startSession", "listPasskeys"}) /\ NoneOf(s, RowReaders)
            /\ NoneOf(s, {"verifyPassword", "writePassword"})
        BY <1>6, <1>7, <2>1, <2>6 DEF RowReaders
      <3>3. NoneOf(s, RowReaders \cup {"verifyPassword", "writePassword"})
        BY <3>2 DEF NoneOf
      <3>4. c.proof = c.row.password
        BY <3>2, <3>3 DEF RowLocal
      <3>5. QED
        BY <3>1, <3>4
    <2>7. CASE x \notin RowReaders \cup UserWrites \cup {"verifyPassword"}
      <3>1. c2.proof = c.proof /\ c2.row = c.row
        BY <1>8, <2>7 DEF Same, RowReaders, UserWrites
      <3>2. ~NoneOf(s, {"startSession", "listPasskeys"}) /\ NoneOf(s, RowReaders)
            /\ NoneOf(s, {"verifyPassword", "writePassword"})
        BY <1>6, <1>7, <2>1, <2>7 DEF RowReaders, UserWrites
      <3>3. NoneOf(s, RowReaders \cup {"verifyPassword", "writePassword"})
        BY <3>2 DEF NoneOf
      <3>4. c.proof = c.row.password
        BY <3>2, <3>3 DEF RowLocal
      <3>5. QED
        BY <3>1, <3>4
    <2>8. QED
      BY <2>2, <2>3, <2>4, <2>5, <2>6, <2>7 DEF RowReaders, UserWrites
  <1>13. ~NoneOf(t, UserWrites) /\ NoneOf(t, RowReaders) => users'[c2.user] \in {None, c2.row}
    <2>1. SUFFICES ASSUME ~NoneOf(t, UserWrites), NoneOf(t, RowReaders)
                   PROVE  users'[c2.user] \in {None, c2.row}
      OBVIOUS
    <2>0. users \in [User -> UserRow \cup {None}] /\ erased \subseteq User
      BY DEF TablesOK
    <2>2. CASE x \in RowReaders \ {"createUser"}
      BY <1>8, <2>2 DEF Learns, UserEffect, RowReaders, UserWrites
    <2>3. CASE x = "createUser"
      <3>1. c2.user \in User
        BY <1>8, <2>3 DEF Learns, UserSources
      <3>2. users' = [users EXCEPT ![c2.user] = c2.row]
        BY <1>8, <2>3 DEF UserEffect, UserWrites
      <3>3. QED
        BY <2>0, <3>1, <3>2
    <2>4. CASE x \in UserWrites
      <3>1. Fits(c.user, c.row.tv, c.row.password) /\ c2.user = c.user
        BY <1>8, <1>9, <2>4 DEF HeadFits, UserWrites, UsesRow, Same, UserSources
      <3>2. c.user \in User
        BY <2>0, <3>1 DEF Fits
      <3>3. users' = Update(c.user, c2.row)
        BY <1>8, <1>9, <2>0, <2>4 DEF HeadFits, Update, UserEffect, UserWrites
      <3>4. QED
        BY <2>0, <3>1, <3>2, <3>3 DEF Update
    <2>5. CASE x \notin RowReaders \cup UserWrites
      <3>1. x \notin UserSources
        BY <1>4, <2>1, <2>5 DEF UserSources, RowReaders
      <3>2. c2.user = c.user /\ c2.row = c.row
        BY <1>8, <2>5, <3>1 DEF Same
      <3>3. users[c.user] \in {None, c.row}
        BY <1>6, <1>7, <2>1, <2>5 DEF RowLocal
      <3>4. users' = users \/ (c.user \in User /\ users' = [users EXCEPT ![c.user] = None])
        BY <1>8, <1>9, <2>5 DEF UserEffect, Ready, UsesUser, RowReaders
      <3>5. QED
        BY <2>0, <3>2, <3>3, <3>4
    <2>6. QED
      BY <2>2, <2>3, <2>4, <2>5
  <1>18. RowLocal(t, c2)'
    BY <1>10, <1>11, <1>12, <1>13 DEF RowLocal
  <1>19. QED
    BY <1>18 DEF t

LEMMA QuietRows ==
    ASSUME TablesOK, UNCHANGED <<users, erased>>
    PROVE  RowsGrow /\ RowsStand
  <1>1. \A u \in User : users[u] # None => users[u].tv \in Nat
    BY DEF TablesOK, UserRow
  <1>2. QED
    BY <1>1 DEF RowsGrow, RowsStand

LEMMA HasFit ==
    ASSUME AccountsInv, Rows, NEW h \in Handler, pc[h] # <<>>
    PROVE  RowLocal(pc[h], call[h]) /\ HeadFits(Head(pc[h]), call[h])
  <1>1. RowLocal(pc[h], call[h]) /\ pc[h] \in Seq(Step) /\ Facts(pc[h])
    BY HasCall DEF Rows
  <1>2. QED
    BY <1>1, HeadIsFit

LEMMA DidRows ==
    ASSUME AccountsInv, Rows, NEW h \in Handler, Did(h)
    PROVE  RowsGrow /\ (call[h].op \notin Changes => RowsStand)
  <1>1. TablesOK /\ pc[h] # <<>>
    BY DEF AccountsInv, Did, Runs
  <1>2. CASE Went(h)
    <2>1. PICK c2 : Goes(Head(pc[h]), call[h], c2)
      BY <1>2 DEF Went
    <2>2. PICK s, c, x : s = pc[h] /\ c = call[h] /\ x = Head(pc[h])
      OBVIOUS
    <2>3. Goes(x, c, c2) /\ Ready(x, c) /\ HeadFits(x, c) /\ Needs(s, c) /\ x = Head(s)
          /\ s \in Seq(Step) /\ s # <<>>
      BY <1>1, <2>1, <2>2, IsReady, HasFit, HasCall
    <2>4. Learns(x, c, c2) /\ UserEffect(x, c, c2)
      BY <2>3 DEF Goes
    <2>5. RowsGrow
      BY <1>1, <2>3, <2>4, GoesRows
    <2>6. c.op \notin Changes => x \notin UserWrites
      <3>1. ~Lacks(s, x)
        BY <2>3, LacksTail
      <3>2. x \in UserWrites => ~NoneOf(s, UserWrites)
        BY <3>1 DEF NoneOf
      <3>3. QED
        BY <2>3, <3>2 DEF Needs
    <2>7. c.op \notin Changes => RowsStand
      BY <1>1, <2>3, <2>4, <2>6, GoesStand
    <2>8. QED
      BY <2>2, <2>5, <2>7
  <1>3. CASE Stopped(h)
    BY <1>1, <1>3, QuietRows DEF Stopped, store, history
  <1>4. CASE Again(h)
    BY <1>1, <1>4, QuietRows DEF Again, history
  <1>5. QED
    BY <1>2, <1>3, <1>4 DEF Did

\* Tokens minted for the row a handler holds fit.
LEMMA MintedFits ==
    ASSUME TablesOK, TablesOK', RowsGrow, NEW x \in {"startSession", "listPasskeys"},
           NEW c \in CallRecord, Ready(x, c), HeadFits(x, c)
    PROVE  LET t == Minted(c) IN Fits(t.user, t.tv, t.proof)'
  <1>1. Fits(c.user, c.row.tv, c.row.password) /\ c.proof = c.row.password /\ c.row.tv \in Nat
    BY DEF HeadFits, UsesRow, Ready, UserRow
  <1>2. PICK u, tv, p : u = c.user /\ tv = c.row.tv /\ p = c.proof
    OBVIOUS
  <1>3. tv \in Nat /\ Fits(u, tv, p)
    BY <1>1, <1>2
  <1>4. Fits(u, tv, p)'
    BY <1>3, FitsStays
  <1>5. PICK t : t = Minted(c)
    OBVIOUS
  <1>6. t.user = u /\ t.tv = tv /\ t.proof = p
    BY <1>2, <1>5 DEF Minted
  <1>7. Fits(t.user, t.tv, t.proof)'
    BY <1>4, <1>6
  <1>8. QED
    BY <1>5, <1>7

LEMMA TokenStays ==
    ASSUME TablesOK, RowsGrow, TablesOK', NEW t \in Token, Fits(t.user, t.tv, t.proof)
    PROVE  Fits(t.user, t.tv, t.proof)'
  BY FitsStays DEF Token

LEMMA DidHeld ==
    ASSUME AccountsInv, Rows, NEW h \in Handler, Did(h)
    PROVE  HeldFits'
  <1>1. /\ TablesOK /\ TablesOK' /\ RowsGrow /\ pc[h] # <<>> /\ HeldFits
        /\ call[h] \in CallRecord /\ Ready(Head(pc[h]), call[h]) /\ HeadFits(Head(pc[h]), call[h])
    BY DidTables, DidRows, HasCall, IsReady, HasFit DEF AccountsInv, Did, Runs, Rows
  <1>2. PICK c, x : c = call[h] /\ x = Head(pc[h])
    OBVIOUS
  <1>3. c \in CallRecord /\ Ready(x, c) /\ HeadFits(x, c)
    BY <1>1, <1>2
  <1>4. ASSUME NEW s \in Session, tokens[s] # None, tokens'[s] = tokens[s]
        PROVE  Fits(tokens[s].user, tokens[s].tv, tokens[s].proof)'
    <2>1. PICK t \in Token : t = tokens[s]
      BY <1>1, <1>4 DEF TablesOK
    <2>2. Fits(t.user, t.tv, t.proof)
      BY <1>1, <1>4, <2>1 DEF HeldFits
    <2>3. Fits(t.user, t.tv, t.proof)'
      BY <1>1, <2>2, TokenStays
    <2>4. QED
      BY <1>4, <2>1, <2>3 DEF Fits
  <1>5. \A t \in mfa : Fits(t.user, t.tv, t.proof)'
    BY <1>1, TokenStays DEF HeldFits, TablesOK
  <1>6. ASSUME NEW t, t = Minted(c), x \in {"startSession", "listPasskeys"}
        PROVE  Fits(t.user, t.tv, t.proof)'
    <2>1. LET m == Minted(c) IN Fits(m.user, m.tv, m.proof)'
      BY <1>1, <1>3, <1>6, MintedFits
    <2>2. QED
      BY <1>6, <2>1
  <1>7. CASE Went(h)
    <2>1. SessionEffect(x, c) /\ mfa' = mfa
      BY <1>2, <1>7 DEF Went, Goes, OtherEffect
    <2>2. ASSUME NEW s \in Session, tokens'[s] # None
          PROVE  Fits(tokens[s].user, tokens[s].tv, tokens[s].proof)'
      <3>1. CASE tokens'[s] = tokens[s]
        BY <1>4, <2>2, <3>1
      <3>2. CASE tokens'[s] # tokens[s]
        <4>1. x = "startSession" /\ tokens'[s] = Minted(c)
          BY <1>1, <2>1, <3>2 DEF SessionEffect, TablesOK
        <4>2. PICK t : t = Minted(c)
          OBVIOUS
        <4>3. Fits(t.user, t.tv, t.proof)'
          BY <1>6, <4>1, <4>2
        <4>4. QED
          BY <4>1, <4>2, <4>3 DEF Fits
      <3>3. QED
        BY <3>1, <3>2
    <2>3. QED
      BY <1>5, <2>1, <2>2 DEF HeldFits
  <1>8. CASE Stopped(h)
    <2>1. tokens' = tokens
      BY <1>8 DEF Stopped
    <2>2. mfa' = mfa \/ (x = "listPasskeys" /\ mfa' = mfa \cup {Minted(c)})
      BY <1>2, <1>8 DEF Stopped
    <2>3. \A t \in mfa' : Fits(t.user, t.tv, t.proof)'
      BY <1>5, <1>6, <2>2
    <2>4. QED
      BY <1>4, <2>1, <2>3 DEF HeldFits
  <1>9. CASE Again(h)
    BY <1>4, <1>5, <1>9 DEF Again, held, HeldFits
  <1>10. QED
    BY <1>7, <1>8, <1>9 DEF Did

\* What the other handlers hold keeps fitting.
LEMMA OthersFit ==
    ASSUME AccountsInv, Rows, NEW h \in Handler, Did(h), NEW rest, NEW c, Ran(h, rest, c),
           NEW g \in Handler \ {h}, pc[g] # <<>>
    PROVE  RowLocal(pc[g], call[g])'
  <1>1. PICK s, d : s = pc[g] /\ d = call[g]
    OBVIOUS
  <1>2. d \in CallRecord /\ Needs(s, d) /\ RowLocal(s, d) /\ TablesOK /\ TablesOK' /\ RowsGrow
    BY <1>1, HasCall, HasFit, DidTables, DidRows DEF AccountsInv
  <1>3. d.op \in Changes => RowsStand
    BY <1>1, DidRows DEF Rows, Alone
  <1>4. RowLocal(s, d)'
    BY <1>2, <1>3, RowOthers
  <1>5. pc'[g] = s /\ call'[g] = d
    BY <1>1 DEF Ran
  <1>6. QED
    BY <1>4, <1>5 DEF RowLocal, Fits

LEMMA DidAlone ==
    ASSUME AccountsInv, Alone, NEW h \in Handler, NEW rest, NEW c, Ran(h, rest, c),
           rest # <<>> => c.op = call[h].op
    PROVE  Alone'
  <1>1. \A g \in Handler : call'[g].op \in Changes => call[g].op \in Changes
    BY DEF Ran, Changes, NoCall
  <1>2. QED
    BY <1>1 DEF Alone

LEMMA RowsDid ==
    ASSUME AccountsInv, Rows, NEW h \in Handler, Did(h)
    PROVE  Rows'
  <1>1. /\ TablesOK /\ TablesOK' /\ RowsGrow /\ pc[h] # <<>> /\ Alone /\ HeldFits'
        /\ pc[h] \in Seq(Step) /\ Facts(pc[h]) /\ call[h] \in CallRecord /\ Needs(pc[h], call[h])
        /\ Ready(Head(pc[h]), call[h]) /\ RowLocal(pc[h], call[h])
    BY DidTables, DidRows, DidHeld, HasCall, IsReady, HasFit DEF AccountsInv, Did, Runs, Rows
  <1>2. PICK s, c : s = pc[h] /\ c = call[h]
    OBVIOUS
  <1>3. CASE Went(h)
    <2>1. PICK c2 : Ran(h, Tail(pc[h]), c2) /\ Goes(Head(pc[h]), call[h], c2)
      BY <1>3 DEF Went
    <2>2. PICK t : t = Tail(s)
      OBVIOUS
    <2>3. Ran(h, t, c2) /\ Goes(Head(s), c, c2) /\ c2.op = call[h].op
      BY <1>2, <2>1, <2>2 DEF Goes, Same
    <2>4. RowLocal(t, c2)'
      BY <1>1, <1>2, <2>2, <2>3, RowGo
    <2>5. pc'[h] # <<>> => RowLocal(pc[h], call[h])'
      <3>1. pc'[h] = t /\ (t # <<>> => call'[h] = c2)
        BY <2>3 DEF Ran
      <3>2. QED
        BY <2>4, <3>1 DEF RowLocal, Fits
    <2>6. \A g \in Handler \ {h} : pc'[g] # <<>> => RowLocal(pc[g], call[g])'
      BY <2>3, OthersFit DEF Ran
    <2>7. Alone'
      BY <1>1, <2>3, DidAlone
    <2>8. QED
      BY <1>1, <2>5, <2>6, <2>7 DEF Rows
  <1>4. CASE Stopped(h)
    <2>1. Ran(h, <<>>, NoCall) /\ pc'[h] = <<>>
      BY <1>4 DEF Stopped, Ran
    <2>2. \A g \in Handler \ {h} : pc'[g] # <<>> => RowLocal(pc[g], call[g])'
      BY <2>1, OthersFit DEF Ran
    <2>3. Alone'
      BY <1>1, <2>1, DidAlone
    <2>4. QED
      BY <1>1, <2>1, <2>2, <2>3 DEF Rows
  <1>5. CASE Again(h)
    <2>1. PICK r \in call[h].listed : Ran(h, pc[h], [call[h] EXCEPT !.listed = @ \ {r}])
      BY <1>5 DEF Again
    <2>2. PICK c2 : c2 = [c EXCEPT !.listed = @ \ {r}]
      OBVIOUS
    <2>3. Ran(h, s, c2)
      BY <1>2, <2>1, <2>2
    <2>4. /\ c2.row = c.row /\ c2.user = c.user /\ c2.tv = c.tv /\ c2.proof = c.proof
          /\ c2.op = c.op
      BY <1>1, <1>2, <2>2 DEF CallRecord
    <2>5. UNCHANGED <<users, erased>>
      BY <1>5 DEF Again, history
    <2>6. pc'[h] # <<>> => RowLocal(pc[h], call[h])'
      <3>1. pc'[h] = s /\ call'[h] = c2
        BY <1>1, <1>2, <2>3 DEF Ran
      <3>2. RowLocal(s, c)
        BY <1>1, <1>2
      <3>3. QED
        BY <2>4, <2>5, <3>1, <3>2 DEF RowLocal, Fits
    <2>7. \A g \in Handler \ {h} : pc'[g] # <<>> => RowLocal(pc[g], call[g])'
      BY <2>3, OthersFit DEF Ran
    <2>8. Alone'
      BY <1>1, <1>2, <2>3, <2>4, DidAlone
    <2>9. QED
      BY <1>1, <2>6, <2>7, <2>8 DEF Rows
  <1>6. QED
    BY <1>3, <1>4, <1>5 DEF Did

LEMMA RowsBegan ==
    ASSUME AccountsInv, Rows, ~Overlap, NEW h \in Handler, NEW op \in Request,
           NEW c \in CallRecord, Began(h, op, c)
    PROVE  Rows'
  <1>1. UNCHANGED <<users, erased, tokens, mfa>>
    BY DEF Began, store
  <1>2. PICK s : s = Program[op]
    OBVIOUS
  <1>3. Starts(op, s) /\ Ran(h, s, c) /\ c.op = op /\ Given(op, c) /\ s # <<>>
        /\ (op \notin Changes \/ \A g \in Handler : call[g].op \notin Changes)
    BY <1>2, ProgramStarts DEF Began, Starts
  <1>4. RowLocal(s, c)
    <2>1. ~Lacks(s, "checkVersion") => Fits(c.user, c.tv, c.proof)
      <3>1. SUFFICES ASSUME ~Lacks(s, "checkVersion") PROVE Fits(c.user, c.tv, c.proof)
        OBVIOUS
      <3>2. op \in TokenOps
        BY <1>3, <3>1 DEF Starts
      <3>3. PICK t \in HeldTokens : c.user = t.user /\ c.tv = t.tv /\ c.proof = t.proof
        BY <1>3, <3>2 DEF Given
      <3>4. Fits(t.user, t.tv, t.proof)
        BY DEF HeldTokens, Rows, HeldFits
      <3>5. QED
        BY <3>3, <3>4
    <2>2. ~NoneOf(s, UsesRow) => ~NoneOf(s, RowReaders)
      BY <1>3 DEF Starts
    <2>3. /\ ~NoneOf(s, UserWrites) => ~NoneOf(s, RowReaders)
          /\ ~NoneOf(s, {"startSession", "listPasskeys"}) =>
                ~NoneOf(s, RowReaders \cup {"verifyPassword", "writePassword"})
      BY <2>2 DEF NoneOf, UserWrites, UsesRow
    <2>5. QED
      BY <2>1, <2>2, <2>3 DEF RowLocal
  <1>5. \A g \in Handler : pc'[g] # <<>> => RowLocal(pc[g], call[g])'
    <2>1. pc'[h] = s /\ call'[h] = c
      BY <1>3 DEF Ran
    <2>2. RowLocal(pc[h], call[h])'
      BY <1>1, <1>4, <2>1 DEF RowLocal, Fits
    <2>3. ASSUME NEW g \in Handler \ {h}, pc'[g] # <<>> PROVE RowLocal(pc[g], call[g])'
      <3>1. pc'[g] = pc[g] /\ call'[g] = call[g]
        BY <1>3 DEF Ran
      <3>2. RowLocal(pc[g], call[g])
        BY <2>3, <3>1 DEF Rows
      <3>3. QED
        BY <1>1, <3>1, <3>2 DEF RowLocal, Fits
    <2>4. QED
      BY <2>2, <2>3
  <1>6. Alone'
    <2>1. call'[h].op = op /\ \A g \in Handler \ {h} : call'[g] = call[g]
      BY <1>3 DEF Ran
    <2>2. QED
      BY <1>3, <2>1 DEF Rows, Alone
  <1>7. HeldFits'
    BY <1>1 DEF Rows, HeldFits, Fits
  <1>8. QED
    BY <1>5, <1>6, <1>7 DEF Rows

LEMMA RowsExpire ==
    ASSUME AccountsInv, Rows, UNCHANGED <<users, erased, tokens, mfa, pc, call>>
    PROVE  Rows'
  <1>1. ASSUME NEW h \in Handler, pc'[h] # <<>> PROVE RowLocal(pc[h], call[h])'
    <2>1. RowLocal(pc[h], call[h])
      BY <1>1 DEF Rows
    <2>2. QED
      BY <2>1 DEF RowLocal, Fits
  <1>2. Alone' /\ HeldFits'
    BY DEF Rows, Alone, HeldFits, Fits
  <1>3. QED
    BY <1>1, <1>2 DEF Rows

LEMMA RowsInit == Init => Rows
  <1> SUFFICES ASSUME Init PROVE Rows
    OBVIOUS
  <1>1. \A h \in Handler : pc[h] = <<>> /\ call[h].op \notin Changes
    BY DEF Init, HandlersInit, NoCall, Changes
  <1>2. mfa = {} /\ mix.account \in BOOLEAN
    BY AccountsAssumption DEF Init, HandlersInit
  <1>3. PICK u \in User : u = CHOOSE x \in User : TRUE
    BY AccountsAssumption
  <1>4. PICK there \in BOOLEAN : there = mix.account
    BY <1>2
  <1>5. /\ users = [x \in User |-> IF there /\ x = u
               THEN [tv |-> 0, password |-> 1, verified |-> FALSE] ELSE None]
        /\ \A s \in Session : tokens[s] # None =>
               there /\ tokens[s] = [user |-> u, tv |-> 0, proof |-> 1]
    BY <1>3, <1>4 DEF Init
  <1>6. [tv |-> 0, password |-> 1, verified |-> FALSE] \in UserRow
    BY DEF UserRow
  <1>7. there => users[u] # None /\ users[u].tv = 0 /\ users[u].password = 1
    BY <1>5, <1>6, AccountsAssumption
  <1>8. ASSUME NEW s \in Session, tokens[s] # None
        PROVE  Fits(tokens[s].user, tokens[s].tv, tokens[s].proof)
    <2>1. there /\ tokens[s].user = u /\ tokens[s].tv = 0 /\ tokens[s].proof = 1
      BY <1>5, <1>8
    <2>2. QED
      BY <1>7, <2>1 DEF Fits
  <1>9. QED
    BY <1>1, <1>2, <1>8 DEF Rows, Alone, HeldFits

LEMMA RowsNext == AccountsInv /\ RowInv /\ [Next]_vars => RowInv'
  <1> SUFFICES ASSUME AccountsInv, RowInv, [Next]_vars, ~Overlap PROVE Rows'
    BY DEF RowInv
  <1>0. Rows
    BY DEF RowInv
  <1>1. ASSUME NEW h \in Handler, Asks(h) PROVE Rows'
    BY <1>0, <1>1, AskBegan, RowsBegan
  <1>2. ASSUME NEW h \in Handler, Under(h) PROVE Rows'
    BY <1>0, <1>2, StepDid, RowsDid
  <1>3. ASSUME NEW l \in Link, Expire(l) PROVE Rows'
    <2>1. UNCHANGED <<users, erased, tokens, mfa, pc, call>>
      BY <1>3 DEF Expire, held, history, control
    <2>2. QED
      BY <1>0, <2>1, RowsExpire
  <1>4. CASE UNCHANGED vars
    <2>1. UNCHANGED <<users, erased, tokens, mfa, pc, call>>
      BY <1>4 DEF vars, store, held, history, control
    <2>2. QED
      BY <1>0, <2>1, RowsExpire
  <1>5. QED
    BY <1>1, <1>2, <1>3, <1>4, NextSteps

LEMMA RowInvariance == Spec => [](AccountsInv /\ RowInv)
  <1>1. Init => AccountsInv /\ RowInv
    BY AccountsInit, RowsInit DEF RowInv
  <1>2. AccountsInv /\ RowInv /\ [Next]_vars => (AccountsInv /\ RowInv)'
    BY AccountsNext, RowsNext
  <1>3. QED
    BY <1>1, <1>2, PTL DEF Spec

\* While changes of one account do not overlap, no session opened with an older
\* password signs anybody in after a reset or a change of it, on any build and
\* whatever sign-ins were under way (resetPassword, changePassword).
THEOREM AnOldPasswordOpensNothing == ~Overlap => (Spec => []OldPasswordIsOut)
  <1> SUFFICES ASSUME ~Overlap PROVE Spec => []OldPasswordIsOut
    OBVIOUS
  <1>1. AccountsInv /\ RowInv => OldPasswordIsOut
    <2> SUFFICES ASSUME AccountsInv, RowInv, NEW s \in Session, SignsIn(s)
                 PROVE  tokens[s].proof = users[tokens[s].user].password
      BY DEF OldPasswordIsOut
    <2>1. /\ sessions[s] = "live" /\ users[tokens[s].user] # None
          /\ users[tokens[s].user].tv = tokens[s].tv
      BY DEF SignsIn
    <2>2. tokens[s] # None /\ tokens[s].user \notin erased
      BY <2>1 DEF AccountsInv, TablesOK
    <2>3. Fits(tokens[s].user, tokens[s].tv, tokens[s].proof)
      BY <2>2 DEF RowInv, Rows, HeldFits
    <2>4. QED
      BY <2>1, <2>2, <2>3 DEF Fits
  <1>2. QED
    BY <1>1, RowInvariance, PTL

-----------------------------------------------------------------------------
(* The invariant of a synchronous store. *)

\* What a step after a check may rely on: nobody ran in between.
SafeHead(s, c) ==
    /\ Head(s) = "touchSession" => sessions[c.session] = "live"
    /\ Head(s) = "deleteChallenge" => Live(challenges, c.challenge)
    /\ Head(s) \in {"notTheLast", "deleteCred"} => creds[c.cred].user = c.user
    /\ Head(s) = "deleteCred" => Cardinality(Passkeys(c.user)) > 1
    /\ Head(s) = "eraseUser" => \A l \in Link : ~Pending(l)
    /\ ~Lacks(s, "createUser") /\ Lacks(s, "readPending") =>
            links[c.link].epoch = Cardinality(erased)

\* h is to settle challenge k, which it has taken.
Holds(h, k) == /\ pc[h] # <<>> /\ ~NoneOf(pc[h], {"verifyAssertion", "verifyAttestation"})
               /\ Lacks(pc[h], "deleteChallenge") /\ call[h].challenge = k

ChallengesOK ==
    \A k \in Challenge :
        /\ settled[k] <= 1
        /\ challenges[k] = None \/ Live(challenges, k) =>
                settled[k] = 0 /\ \A h \in Handler : ~Holds(h, k)
        /\ \A h \in Handler : Holds(h, k) => settled[k] = 0
        /\ \A g, h \in Handler : Holds(g, k) /\ Holds(h, k) => g = h

\* A pending registration that can still be used was asked for after the last erasure.
LinksNew == \A l \in Link : Pending(l) => links[l].epoch = Cardinality(erased)

Synced == /\ \A h \in Handler : pc[h] # <<>> => SafeHead(pc[h], call[h])
          /\ ChallengesOK /\ LinksNew /\ bornLate = {}

SyncInv == sync => Synced

\* The links there were keep what they are; none becomes usable again.
EpochsStand == \A l \in Link : links[l] # None => /\ links'[l].epoch = links[l].epoch
                                                  /\ Pending(l)' => Pending(l)

LEMMA KillsStand ==
    ASSUME TablesOK, NEW l \in Link, links[l] # None, Kills(links, links', l)
    PROVE  links'[l].epoch = links[l].epoch /\ (Pending(l)' => Pending(l))
  <1>1. PICK r \in LinkRow : r = links[l]
    BY DEF TablesOK
  <1>2. links'[l] = r \/ links'[l] = [r EXCEPT !.live = FALSE]
    BY <1>1 DEF Kills
  <1>3. CASE links'[l] = r
    BY <1>1, <1>3 DEF Pending, Live
  <1>4. CASE links'[l] = [r EXCEPT !.live = FALSE]
    <2>1. links'[l].epoch = r.epoch /\ links'[l].live = FALSE
      BY <1>4 DEF LinkRow
    <2>2. QED
      BY <1>1, <2>1 DEF Pending, Live
  <1>5. QED
    BY <1>2, <1>3, <1>4

LEMMA GoesEpochs ==
    ASSUME TablesOK, NEW x, NEW c, LinkEffect(x, c)
    PROVE  EpochsStand
  <1>1. CASE \E l \in Link, kind \in {"pending", "reset", "confirm"} :
               links[l] = None /\ links' = [links EXCEPT ![l] = NewLink(kind, c)]
    <2>1. \A k \in Link : links[k] # None => links'[k] = links[k]
      BY <1>1 DEF TablesOK
    <2>2. QED
      BY <2>1 DEF EpochsStand, Pending, Live
  <1>2. CASE \A l \in Link : Kills(links, links', l)
    BY <1>2, KillsStand DEF EpochsStand
  <1>3. QED
    BY <1>1, <1>2 DEF LinkEffect

\* On a synchronous store whoever does not have the loop waits.
LEMMA OthersWait ==
    ASSUME AccountsInv, sync, NEW h \in Handler, turn \in {None, h}, NEW g \in Handler \ {h},
           NEW s, s = pc[g], s # <<>>, NEW d
    PROVE  SafeHead(s, d)'
  <1>1. s \in Seq(Step) /\ s # <<>> /\ Facts(s) /\ Head(s) \in Waits
    <2>1. g # None /\ turn # g
      BY AccountsAssumption
    <2>2. Head(pc[g]) \in Waits
      BY <2>1 DEF AccountsInv, Loop, LoopOK
    <2>3. QED
      BY <2>2, HasCall
  <1>2. ~NoneOf(s, Waits)
    <2>1. ~Lacks(s, Head(s))
      BY <1>1, LacksTail
    <2>2. QED
      BY <1>1, <2>1 DEF NoneOf
  <1>3. ~(~Lacks(s, "createUser") /\ Lacks(s, "readPending"))
    BY <1>1, <1>2 DEF Facts
  <1>4. Head(s) \notin {"touchSession", "deleteChallenge", "notTheLast", "deleteCred", "eraseUser"}
    BY <1>1 DEF Waits
  <1>5. QED
    BY <1>3, <1>4 DEF SafeHead

LEMMA SafeGo ==
    ASSUME TablesOK, EpochsStand, LinksNew, NEW s \in Seq(Step), s # <<>>, Facts(s),
           NEW c \in CallRecord, NEW c2, Needs(s, c), SafeHead(s, c), Goes(Head(s), c, c2),
           Tail(s) # <<>>
    PROVE  SafeHead(Tail(s), c2)'
  <1> DEFINE t == Tail(s)
  <1>1. \A y : Lacks(s, y) <=> Head(s) # y /\ Lacks(t, y)
    BY LacksTail
  <1>2. PICK x : x = Head(s)
    OBVIOUS
  <1>3. t \in Seq(Step) /\ ~Lacks(t, Head(t))
    <2>1. t \in Seq(Step)
      BY TailSteps
    <2>2. QED
      BY <2>1, LacksTail
  <1>4. /\ Head(t) = "touchSession" => x = "checkSession"
        /\ Head(t) = "deleteChallenge" => x = "readChallenge"
        /\ Head(t) = "notTheLast" => x = "readCred"
        /\ Head(t) = "deleteCred" => x = "notTheLast"
        /\ Head(t) = "eraseUser" => x = "burnPending"
    BY <1>2, PrecededTail DEF Facts
  <1> HIDE DEF t
  <1>5. /\ Same(x, c, c2) /\ Learns(x, c, c2) /\ UserEffect(x, c, c2) /\ SessionEffect(x, c)
        /\ LinkEffect(x, c) /\ CredEffect(x, c) /\ ChallengeEffect(x, c)
    BY <1>2 DEF Goes
  <1>6. c2.link = c.link /\ c2.session = c.session /\ c2.challenge = c.challenge /\ c2.cred = c.cred
    BY <1>5 DEF Same
  <1>7. x \in {"readCred", "notTheLast"} => c2.user = c.user /\ creds' = creds
    BY <1>5 DEF Same, UserSources, CredEffect
  <1>8. Head(t) = "touchSession" => sessions'[c2.session] = "live"
    BY <1>4, <1>5, <1>6 DEF Learns, SessionEffect
  <1>9. Head(t) = "deleteChallenge" => Live(challenges', c2.challenge)
    BY <1>4, <1>5, <1>6 DEF Learns, ChallengeEffect
  <1>10. Head(t) \in {"notTheLast", "deleteCred"} => creds'[c2.cred].user = c2.user
    <2>1. x = "readCred" => creds[c.cred].user = c.user
      BY <1>5 DEF Learns
    <2>2. x = "notTheLast" => creds[c.cred].user = c.user
      BY <1>2 DEF SafeHead
    <2>3. QED
      BY <1>4, <1>6, <1>7, <2>1, <2>2
  <1>11. Head(t) = "deleteCred" => Cardinality(Passkeys(c2.user)') > 1
    <2>1. SUFFICES ASSUME Head(t) = "deleteCred" PROVE Cardinality(Passkeys(c2.user)') > 1
      OBVIOUS
    <2>2. x = "notTheLast" /\ c2.user = c.user /\ creds' = creds
      BY <1>4, <1>7, <2>1
    <2>3. Passkeys(c2.user)' = Passkeys(c.user)
      BY <2>2 DEF Passkeys, Live
    <2>4. Cardinality(Passkeys(c.user)) > 1
      BY <1>5, <2>2 DEF Learns
    <2>5. QED
      BY <2>3, <2>4
  <1>12. Head(t) = "eraseUser" => \A l \in Link : ~Pending(l)'
    BY <1>4, <1>5 DEF LinkEffect
  <1>13. ~Lacks(t, "createUser") /\ Lacks(t, "readPending") =>
            links'[c2.link].epoch = Cardinality(erased')
    <2>1. SUFFICES ASSUME ~Lacks(t, "createUser"), Lacks(t, "readPending")
                   PROVE  links'[c2.link].epoch = Cardinality(erased')
      OBVIOUS
    <2>2. ~Lacks(s, "createUser") /\ x # "eraseUser"
      BY <1>1, <1>2, <2>1 DEF Facts
    <2>3. erased' = erased
      BY <1>5, <2>2 DEF UserEffect
    <2>4. c.link \in Link /\ links[c.link] # None
      BY <2>2 DEF Needs, NoneOf, LinkSteps
    <2>5. links[c.link].epoch = Cardinality(erased)
      <3>1. CASE x = "readPending"
        BY <1>5, <2>4, <3>1 DEF Learns, LinksNew
      <3>2. CASE x # "readPending"
        BY <1>1, <1>2, <2>1, <2>2, <3>2 DEF SafeHead
      <3>3. QED
        BY <3>1, <3>2
    <2>6. links'[c.link].epoch = links[c.link].epoch
      BY <2>4 DEF EpochsStand
    <2>7. QED
      BY <1>6, <2>3, <2>5, <2>6
  <1>14. SafeHead(t, c2)'
    BY <1>8, <1>9, <1>10, <1>11, <1>12, <1>13 DEF SafeHead, Live
  <1>15. QED
    BY <1>14 DEF t

LEMMA GoesLinks ==
    ASSUME TablesOK, TablesOK', EpochsStand, LinksNew, NEW s \in Seq(Step), s # <<>>,
           NEW c, NEW c2, SafeHead(s, c), Goes(Head(s), c, c2)
    PROVE  LinksNew'
  <1>1. PICK x : x = Head(s)
    OBVIOUS
  <1>2. LinkEffect(x, c) /\ UserEffect(x, c, c2)
    BY <1>1 DEF Goes
  <1>3. CASE x = "eraseUser"
    <2>1. \A l \in Link : ~Pending(l)
      BY <1>1, <1>3 DEF SafeHead
    <2>2. \A l \in Link : Kills(links, links', l)
      BY <1>2, <1>3 DEF LinkEffect
    <2>3. ASSUME NEW l \in Link PROVE ~Pending(l)'
      <3>1. CASE links[l] = None
        BY <2>2, <3>1 DEF Kills, Pending, Live
      <3>2. CASE links[l] # None
        BY <2>1, <3>2 DEF EpochsStand
      <3>3. QED
        BY <3>1, <3>2
    <2>4. QED
      BY <2>3 DEF LinksNew
  <1>4. CASE x # "eraseUser"
    <2>1. erased' = erased
      BY <1>2, <1>4 DEF UserEffect
    <2>2. ASSUME NEW l \in Link, Pending(l)' PROVE links'[l].epoch = Cardinality(erased)
      <3>1. CASE links[l] # None
        BY <2>2, <3>1 DEF EpochsStand, LinksNew
      <3>2. CASE links[l] = None
        <4>1. links'[l] # None
          BY <2>2 DEF Pending, Live
        <4>2. PICK k \in Link, kind \in {"pending", "reset", "confirm"} :
                    links' = [links EXCEPT ![k] = NewLink(kind, c)]
          BY <1>2, <3>2, <4>1 DEF LinkEffect, Kills
        <4>3. links'[l] = NewLink(kind, c)
          BY <3>2, <4>1, <4>2 DEF TablesOK
        <4>4. QED
          BY <4>3 DEF NewLink
      <3>3. QED
        BY <3>1, <3>2
    <2>3. QED
      BY <2>1, <2>2 DEF LinksNew
  <1>5. QED
    BY <1>3, <1>4

\* Nobody takes or settles a challenge in this step.
LEMMA ChallengesKeep ==
    ASSUME ChallengesOK, settled' = settled,
           \A k \in Challenge : challenges'[k] = None \/ Live(challenges', k) =>
                challenges[k] = None \/ Live(challenges, k),
           \A k \in Challenge, h \in Handler : Holds(h, k)' => Holds(h, k)
    PROVE  ChallengesOK'
  <1> SUFFICES ASSUME NEW k \in Challenge
               PROVE  /\ settled'[k] <= 1
                      /\ challenges'[k] = None \/ Live(challenges', k) =>
                            settled'[k] = 0 /\ \A h \in Handler : ~Holds(h, k)'
                      /\ \A h \in Handler : Holds(h, k)' => settled'[k] = 0
                      /\ \A g, h \in Handler : Holds(g, k)' /\ Holds(h, k)' => g = h
    BY DEF ChallengesOK, Live
  <1>1. QED
    BY DEF ChallengesOK

LEMMA LiveStands ==
    ASSUME TablesOK, TablesOK', Steady, NEW x, NEW c, ChallengeEffect(x, c), NEW k \in Challenge,
           challenges'[k] = None \/ Live(challenges', k)
    PROVE  challenges[k] = None \/ Live(challenges, k)
  <1>1. SUFFICES ASSUME challenges[k] # None PROVE Live(challenges, k)
    OBVIOUS
  <1>2. challenges'[k] # None /\ Live(challenges', k)
    BY <1>1 DEF Steady
  <1>3. PICK r \in ChallengeRow : r = challenges[k]
    BY <1>1 DEF TablesOK
  <1>4. [r EXCEPT !.live = FALSE].live = FALSE
    BY DEF ChallengeRow
  <1>5. CASE \E i \in Challenge, row \in ChallengeRow :
                challenges[i] = None /\ challenges' = [challenges EXCEPT ![i] = row]
    <2>1. challenges'[k] = challenges[k]
      BY <1>1, <1>5 DEF TablesOK
    <2>2. QED
      BY <1>1, <1>2, <2>1 DEF Live
  <1>6. CASE Kills(challenges, challenges', k)
    BY <1>1, <1>2, <1>3, <1>4, <1>6 DEF Kills, Live
  <1>7. QED
    BY <1>5, <1>6 DEF ChallengeEffect

\* A handler that goes on holds what it held, and the challenge it takes.
LEMMA HoldsGo ==
    ASSUME AccountsInv, NEW h \in Handler, pc[h] # <<>>, NEW c2, Ran(h, Tail(pc[h]), c2),
           c2.challenge = call[h].challenge, NEW k
    PROVE  /\ Holds(h, k)' => \/ Holds(h, k)
                              \/ Head(pc[h]) = "deleteChallenge" /\ k = call[h].challenge
           /\ Head(pc[h]) \in {"verifyAssertion", "verifyAttestation"} =>
                ~Holds(h, k)' /\ Holds(h, call[h].challenge)
           /\ \A g \in Handler \ {h} : Holds(g, k)' <=> Holds(g, k)
  <1>1. PICK s, t, x : s = pc[h] /\ t = Tail(s) /\ x = Head(s)
    OBVIOUS
  <1>2. s \in Seq(Step) /\ s # <<>> /\ Facts(s)
    BY <1>1, HasCall
  <1>3. \A y : Lacks(s, y) <=> x # y /\ Lacks(t, y)
    BY <1>1, <1>2, LacksTail
  <1>4. pc'[h] = t /\ (t # <<>> => call'[h] = c2)
    BY <1>1 DEF Ran
  <1>5. Holds(h, k)' => Holds(h, k) \/ (x = "deleteChallenge" /\ k = call[h].challenge)
    BY <1>1, <1>2, <1>3, <1>4 DEF Holds, NoneOf
  <1>6. ASSUME x \in {"verifyAssertion", "verifyAttestation"}
        PROVE  ~Holds(h, k)' /\ Holds(h, call[h].challenge)
    <2>1. NoneOf(t, {"deleteChallenge"})
      BY <1>1, <1>2, <1>6, ClearTail DEF Facts
    <2>2. ~NoneOf(s, {"verifyAssertion", "verifyAttestation"}) /\ Lacks(s, "deleteChallenge")
      BY <1>3, <1>6, <2>1 DEF NoneOf
    <2>3. NoneOf(t, {"verifyAssertion", "verifyAttestation"})
      <3>1. /\ x = "verifyAssertion" => Lacks(t, "verifyAssertion")
            /\ x = "verifyAttestation" => Lacks(t, "verifyAttestation")
        BY <1>1, <1>2, NoneAfterTail DEF Facts
      <3>2. ~Lacks(s, "verifyAssertion") => Lacks(s, "verifyAttestation")
        BY <1>2 DEF Facts
      <3>3. QED
        BY <1>3, <1>6, <3>1, <3>2 DEF NoneOf
    <2>4. QED
      BY <1>1, <1>4, <2>2, <2>3 DEF Holds
  <1>7. \A g \in Handler \ {h} : Holds(g, k)' <=> Holds(g, k)
    BY DEF Ran, Holds
  <1>8. QED
    BY <1>1, <1>5, <1>6, <1>7

LEMMA GoesChallenges ==
    ASSUME AccountsInv, TablesOK', Steady, ChallengesOK, NEW h \in Handler, pc[h] # <<>>, NEW c2,
           Ran(h, Tail(pc[h]), c2), Goes(Head(pc[h]), call[h], c2), SafeHead(pc[h], call[h])
    PROVE  ChallengesOK'
  <1>1. PICK x, c : x = Head(pc[h]) /\ c = call[h]
    OBVIOUS
  <1>2. ChallengeEffect(x, c) /\ OtherEffect(x, c, c2) /\ Same(x, c, c2) /\ TablesOK
    BY <1>1 DEF Goes, AccountsInv
  <1>3. \A k \in Challenge : challenges'[k] = None \/ Live(challenges', k) =>
                challenges[k] = None \/ Live(challenges, k)
    BY <1>2, LiveStands
  <1>4. ASSUME NEW k
        PROVE  /\ Holds(h, k)' => Holds(h, k) \/ (x = "deleteChallenge" /\ k = c.challenge)
               /\ x \in {"verifyAssertion", "verifyAttestation"} =>
                    ~Holds(h, k)' /\ Holds(h, c.challenge)
               /\ \A g \in Handler \ {h} : Holds(g, k)' <=> Holds(g, k)
    BY <1>1, <1>2, HoldsGo DEF Same
  <1>5. CASE x = "deleteChallenge"
    <2>1. settled' = settled
      BY <1>2, <1>5 DEF OtherEffect
    <2>2. Live(challenges, c.challenge) /\ ~Live(challenges', c.challenge)
      BY <1>1, <1>2, <1>5 DEF SafeHead, ChallengeEffect
    <2>3. SUFFICES ASSUME NEW k \in Challenge
                   PROVE  /\ settled'[k] <= 1
                          /\ challenges'[k] = None \/ Live(challenges', k) =>
                                settled'[k] = 0 /\ \A g \in Handler : ~Holds(g, k)'
                          /\ \A g \in Handler : Holds(g, k)' => settled'[k] = 0
                          /\ \A f, g \in Handler : Holds(f, k)' /\ Holds(g, k)' => f = g
      BY DEF ChallengesOK, Live
    <2>4. CASE k = c.challenge
      <3>1. settled[k] = 0 /\ \A g \in Handler : ~Holds(g, k)
        BY <2>2, <2>4 DEF ChallengesOK
      <3>2. \A g \in Handler : Holds(g, k)' => g = h
        BY <1>4, <3>1
      <3>3. challenges'[k] # None
        BY <2>2, <2>4 DEF Steady, Live
      <3>4. QED
        BY <2>1, <2>2, <2>4, <3>1, <3>2, <3>3
    <2>5. CASE k # c.challenge
      <3>1. \A g \in Handler : Holds(g, k)' => Holds(g, k)
        BY <1>4, <2>5
      <3>2. QED
        BY <1>3, <2>1, <3>1 DEF ChallengesOK
    <2>6. QED
      BY <2>4, <2>5
  <1>6. CASE x \in {"verifyAssertion", "verifyAttestation"}
    <2>1. settled' = [settled EXCEPT ![c.challenge] = @ + 1] /\ settled \in [Challenge -> Nat]
      BY <1>2, <1>6 DEF OtherEffect, TablesOK
    <2>2. Holds(h, c.challenge)
      BY <1>4, <1>6
    <2>3. SUFFICES ASSUME NEW k \in Challenge
                   PROVE  /\ settled'[k] <= 1
                          /\ challenges'[k] = None \/ Live(challenges', k) =>
                                settled'[k] = 0 /\ \A g \in Handler : ~Holds(g, k)'
                          /\ \A g \in Handler : Holds(g, k)' => settled'[k] = 0
                          /\ \A f, g \in Handler : Holds(f, k)' /\ Holds(g, k)' => f = g
      BY DEF ChallengesOK, Live
    <2>4. \A g \in Handler : Holds(g, k)' => Holds(g, k) /\ g # h
      BY <1>4, <1>6
    <2>5. CASE k = c.challenge
      <3>1. settled[k] = 0 /\ \A g \in Handler : Holds(g, k) => g = h
        BY <2>2, <2>5 DEF ChallengesOK
      <3>2. ~(challenges[k] = None \/ Live(challenges, k))
        BY <2>2, <2>5 DEF ChallengesOK
      <3>3. settled'[k] = 1
        BY <2>1, <2>5, <3>1
      <3>4. QED
        BY <1>3, <2>4, <3>1, <3>2, <3>3
    <2>6. CASE k # c.challenge
      <3>1. settled'[k] = settled[k]
        BY <2>1, <2>6
      <3>2. QED
        BY <1>3, <2>4, <3>1 DEF ChallengesOK
    <2>7. QED
      BY <2>5, <2>6
  <1>7. CASE x \notin {"deleteChallenge", "verifyAssertion", "verifyAttestation"}
    <2>1. settled' = settled
      BY <1>2, <1>7 DEF OtherEffect
    <2>2. \A k \in Challenge, g \in Handler : Holds(g, k)' => Holds(g, k)
      BY <1>4, <1>7
    <2>3. QED
      BY <1>3, <2>1, <2>2, ChallengesKeep
  <1>8. QED
    BY <1>5, <1>6, <1>7

LEMMA OthersSafe ==
    ASSUME AccountsInv, sync, NEW h \in Handler, turn \in {None, h}, NEW rest, NEW c, Ran(h, rest, c),
           NEW g \in Handler \ {h}, pc'[g] # <<>>
    PROVE  SafeHead(pc[g], call[g])'
  <1>1. PICK s, d : s = pc[g] /\ d = call[g]
    OBVIOUS
  <1>2. pc'[g] = s /\ call'[g] = d /\ s # <<>>
    BY <1>1 DEF Ran
  <1>3. SafeHead(s, d)'
    BY <1>1, <1>2, OthersWait
  <1>4. QED
    BY <1>2, <1>3 DEF SafeHead, Live, Passkeys

LEMMA NobodyIsBornLate ==
    ASSUME AccountsInv, Synced, NEW h \in Handler, pc[h] # <<>>, NEW c2,
           Goes(Head(pc[h]), call[h], c2)
    PROVE  bornLate' = {}
  <1>1. PICK s, c : s = pc[h] /\ c = call[h]
    OBVIOUS
  <1>2. /\ s \in Seq(Step) /\ s # <<>> /\ Facts(s) /\ SafeHead(s, c) /\ bornLate = {}
        /\ OtherEffect(Head(s), c, c2)
    BY <1>1, HasCall DEF Synced, Goes
  <1>3. CASE Head(s) = "createUser"
    <2>1. NoneOf(Tail(s), {"readPending"})
      BY <1>2, <1>3, ClearTail DEF Facts
    <2>2. ~Lacks(s, "createUser") /\ Lacks(s, "readPending")
      BY <1>2, <1>3, <2>1, LacksTail DEF NoneOf
    <2>3. links[c.link].epoch = Cardinality(erased)
      BY <1>2, <2>2 DEF SafeHead
    <2>4. Cardinality(erased) \in Nat
      BY FS_CardinalityType DEF AccountsInv, TablesOK
    <2>5. QED
      BY <1>2, <2>3, <2>4 DEF OtherEffect
  <1>4. CASE Head(s) # "createUser"
    BY <1>2, <1>4 DEF OtherEffect
  <1>5. QED
    BY <1>3, <1>4

LEMMA SyncedWent ==
    ASSUME AccountsInv, sync, Synced, NEW h \in Handler, Did(h), Went(h)
    PROVE  Synced'
  <1>1. /\ TablesOK /\ TablesOK' /\ Steady /\ pc[h] # <<>> /\ turn \in {None, h}
        /\ pc[h] \in Seq(Step) /\ Facts(pc[h]) /\ call[h] \in CallRecord /\ Needs(pc[h], call[h])
        /\ SafeHead(pc[h], call[h]) /\ ChallengesOK /\ LinksNew
    BY DidTables, HasCall DEF AccountsInv, Did, Runs, Synced
  <1>2. PICK c2 : Ran(h, Tail(pc[h]), c2) /\ Goes(Head(pc[h]), call[h], c2)
    BY DEF Went
  <1>3. PICK s, c, t : s = pc[h] /\ c = call[h] /\ t = Tail(s)
    OBVIOUS
  <1>4. Goes(Head(s), c, c2) /\ pc'[h] = t /\ (t # <<>> => call'[h] = c2)
    BY <1>2, <1>3 DEF Ran
  <1>5. EpochsStand
    BY <1>1, <1>4, GoesEpochs DEF Goes
  <1>6. pc'[h] # <<>> => SafeHead(pc[h], call[h])'
    <2>1. SUFFICES ASSUME t # <<>> PROVE SafeHead(pc[h], call[h])'
      BY <1>4
    <2>2. SafeHead(t, c2)'
      BY <1>1, <1>3, <1>4, <1>5, <2>1, SafeGo
    <2>3. QED
      BY <1>4, <2>1, <2>2 DEF SafeHead, Live, Passkeys
  <1>7. \A g \in Handler \ {h} : pc'[g] # <<>> => SafeHead(pc[g], call[g])'
    BY <1>1, <1>2, OthersSafe
  <1>8. ChallengesOK'
    BY <1>1, <1>2, GoesChallenges
  <1>9. LinksNew'
    BY <1>1, <1>3, <1>4, <1>5, GoesLinks
  <1>10. bornLate' = {}
    BY <1>1, <1>2, NobodyIsBornLate
  <1>11. QED
    BY <1>6, <1>7, <1>8, <1>9, <1>10 DEF Synced

\* Nothing that Synced is about changes, but for a handler's end.
LEMMA QuietChallenges ==
    ASSUME ChallengesOK, UNCHANGED <<challenges, settled>>,
           \A k \in Challenge, h \in Handler : Holds(h, k)' => Holds(h, k)
    PROVE  ChallengesOK'
  <1>1. \A k \in Challenge : challenges'[k] = None \/ Live(challenges', k) =>
            challenges[k] = None \/ Live(challenges, k)
    BY DEF Live
  <1>2. QED
    BY <1>1, ChallengesKeep

LEMMA SyncedDid ==
    ASSUME AccountsInv, sync, Synced, NEW h \in Handler, Did(h)
    PROVE  Synced'
  <1>1. pc[h] # <<>> /\ turn \in {None, h}
    BY DEF Did, Runs
  <1>2. CASE Stopped(h)
    <2>1. /\ Ran(h, <<>>, NoCall) /\ pc'[h] = <<>>
          /\ UNCHANGED <<links, challenges, settled, erased, bornLate>>
      BY <1>2 DEF Stopped, store, history, Ran
    <2>2. \A g \in Handler \ {h} : pc'[g] # <<>> => SafeHead(pc[g], call[g])'
      BY <1>1, <2>1, OthersSafe
    <2>3. ChallengesOK'
      <3>1. \A k \in Challenge, g \in Handler : Holds(g, k)' => Holds(g, k)
        BY <2>1 DEF Holds, Ran
      <3>2. QED
        BY <2>1, <3>1, QuietChallenges DEF Synced
    <2>4. LinksNew' /\ bornLate' = {}
      BY <2>1 DEF Synced, LinksNew, Pending, Live
    <2>5. QED
      BY <2>1, <2>2, <2>3, <2>4 DEF Synced
  <1>3. CASE Again(h)
    <2>1. PICK r \in call[h].listed : Ran(h, pc[h], [call[h] EXCEPT !.listed = @ \ {r}])
      BY <1>3 DEF Again
    <2>2. PICK s, c : s = pc[h] /\ c = call[h]
      OBVIOUS
    <2>3. PICK c2 : c2 = [c EXCEPT !.listed = @ \ {r}]
      OBVIOUS
    <2>4. Ran(h, s, c2) /\ s # <<>> /\ pc'[h] = s /\ call'[h] = c2
      BY <1>1, <2>1, <2>2, <2>3 DEF Ran
    <2>5. c2.link = c.link /\ c2.challenge = c.challenge
      BY <1>1, <2>2, <2>3, HasCall DEF CallRecord
    <2>6. /\ UNCHANGED <<links, challenges, settled, erased, bornLate>>
          /\ Head(s) = "revokeSessions"
      BY <1>3, <2>2 DEF Again, history
    <2>7. SafeHead(pc[h], call[h])'
      <3>1. SafeHead(s, c)
        BY <1>1, <2>2 DEF Synced
      <3>2. QED
        BY <2>4, <2>5, <2>6, <3>1 DEF SafeHead
    <2>8. \A g \in Handler \ {h} : pc'[g] # <<>> => SafeHead(pc[g], call[g])'
      BY <1>1, <2>4, OthersSafe
    <2>9. ChallengesOK'
      <3>1. \A k \in Challenge, g \in Handler : Holds(g, k)' => Holds(g, k)
        BY <2>2, <2>4, <2>5 DEF Holds, Ran
      <3>2. QED
        BY <2>6, <3>1, QuietChallenges DEF Synced
    <2>10. LinksNew' /\ bornLate' = {}
      BY <2>6 DEF Synced, LinksNew, Pending, Live
    <2>11. QED
      BY <2>7, <2>8, <2>9, <2>10 DEF Synced
  <1>4. QED
    BY <1>2, <1>3, SyncedWent DEF Did

LEMMA SyncedBegan ==
    ASSUME AccountsInv, sync, Synced, NEW h \in Handler, NEW op \in Request,
           NEW c \in CallRecord, Began(h, op, c)
    PROVE  Synced'
  <1>1. UNCHANGED <<links, challenges, settled, erased, bornLate>> /\ turn \in {None, h}
    BY DEF Began, store
  <1>2. PICK s : s = Program[op]
    OBVIOUS
  <1>3. Starts(op, s) /\ Ran(h, s, c) /\ s # <<>> /\ pc'[h] = s /\ call'[h] = c
    BY <1>2, ProgramStarts DEF Began, Starts, Ran
  <1>4. SafeHead(pc[h], call[h])'
    <2>1. Head(s) \in {"wait", "findUser"} /\ ~(~Lacks(s, "createUser") /\ Lacks(s, "readPending"))
      BY <1>3 DEF Starts
    <2>2. QED
      BY <1>3, <2>1 DEF SafeHead
  <1>5. \A g \in Handler \ {h} : pc'[g] # <<>> => SafeHead(pc[g], call[g])'
    BY <1>1, <1>3, OthersSafe
  <1>6. ChallengesOK'
    <2>1. \A k \in Challenge : ~Holds(h, k)'
      BY <1>3 DEF Holds, Starts
    <2>2. \A k \in Challenge, g \in Handler : Holds(g, k)' => Holds(g, k)
      BY <1>3, <2>1 DEF Holds, Ran
    <2>3. QED
      BY <1>1, <2>2, QuietChallenges DEF Synced
  <1>7. LinksNew' /\ bornLate' = {}
    BY <1>1 DEF Synced, LinksNew, Pending, Live
  <1>8. QED
    BY <1>4, <1>5, <1>6, <1>7 DEF Synced

\* A link's time runs out, or nothing happens.
LEMMA SyncedExpire ==
    ASSUME AccountsInv, Synced, \A k \in Link : Kills(links, links', k),
           UNCHANGED <<users, sessions, creds, challenges, erased, settled, bornLate, pc, call>>
    PROVE  Synced'
  <1>0. TablesOK
    BY DEF AccountsInv
  <1>1. ASSUME NEW l \in Link
        PROVE  /\ links[l] # None => links'[l].epoch = links[l].epoch
               /\ Pending(l)' => Pending(l) /\ links'[l].epoch = links[l].epoch
    <2>1. CASE links[l] = None
      BY <2>1 DEF Kills, Pending, Live
    <2>2. CASE links[l] # None
      BY <1>0, <2>2, KillsStand
    <2>3. QED
      BY <2>1, <2>2
  <1>2. ASSUME NEW h \in Handler, pc'[h] # <<>> PROVE SafeHead(pc[h], call[h])'
    <2>1. PICK s, c : s = pc[h] /\ c = call[h]
      OBVIOUS
    <2>2. SafeHead(s, c) /\ Needs(s, c)
      BY <1>2, <2>1, HasCall DEF Synced
    <2>3. ~Lacks(s, "createUser") => c.link \in Link /\ links[c.link] # None
      BY <2>2 DEF Needs, NoneOf, LinkSteps
    <2>4. pc'[h] = s /\ call'[h] = c
      BY <2>1
    <2>5. ~Lacks(s, "createUser") /\ Lacks(s, "readPending") =>
                links'[c.link].epoch = Cardinality(erased')
      BY <1>1, <2>2, <2>3 DEF SafeHead
    <2>6. Head(s) = "eraseUser" => \A l \in Link : ~Pending(l)'
      BY <1>1, <2>2 DEF SafeHead
    <2>7. /\ Head(s) = "touchSession" => sessions'[c.session] = "live"
          /\ Head(s) = "deleteChallenge" => Live(challenges', c.challenge)
          /\ Head(s) \in {"notTheLast", "deleteCred"} => creds'[c.cred].user = c.user
      BY <2>2 DEF SafeHead, Live
    <2>8. Head(s) = "deleteCred" => Cardinality(Passkeys(c.user)') > 1
      <3>1. Passkeys(c.user)' = Passkeys(c.user)
        BY DEF Passkeys, Live
      <3>2. QED
        BY <2>2, <3>1 DEF SafeHead
    <2>9. SafeHead(s, c)'
      BY <2>5, <2>6, <2>7, <2>8 DEF SafeHead, Live
    <2>10. QED
      BY <2>4, <2>9 DEF SafeHead, Live, Passkeys
  <1>3. ChallengesOK'
    <2>1. \A k \in Challenge, h \in Handler : Holds(h, k)' => Holds(h, k)
      BY DEF Holds
    <2>2. QED
      BY <2>1, QuietChallenges DEF Synced
  <1>4. LinksNew' /\ bornLate' = {}
    BY <1>1 DEF Synced, LinksNew
  <1>5. QED
    BY <1>2, <1>3, <1>4 DEF Synced

LEMMA SyncInit == Init => Synced
  <1> SUFFICES ASSUME Init PROVE Synced
    OBVIOUS
  <1>1. \A h \in Handler : pc[h] = <<>>
    BY DEF Init, HandlersInit
  <1>2. /\ links = [l \in Link |-> None] /\ challenges = [k \in Challenge |-> None]
        /\ settled = [k \in Challenge |-> 0] /\ bornLate = {}
    BY DEF Init
  <1>3. ChallengesOK
    BY <1>1, <1>2 DEF ChallengesOK, Holds
  <1>4. LinksNew
    BY <1>2 DEF LinksNew, Pending, Live
  <1>5. QED
    BY <1>1, <1>2, <1>3, <1>4 DEF Synced

LEMMA SyncNext == AccountsInv /\ SyncInv /\ [Next]_vars => SyncInv'
  <1> SUFFICES ASSUME AccountsInv, SyncInv, [Next]_vars PROVE SyncInv'
    OBVIOUS
  <1>1. ASSUME NEW h \in Handler, Asks(h) PROVE SyncInv'
    <2>1. PICK op \in Request : \E c \in CallRecord : Began(h, op, c)
      BY <1>1, AskBegan
    <2>2. PICK c \in CallRecord : Began(h, op, c)
      BY <2>1
    <2>3. sync' = sync
      BY <2>2 DEF Began
    <2>4. QED
      BY <2>2, <2>3, SyncedBegan DEF SyncInv
  <1>2. ASSUME NEW h \in Handler, Under(h) PROVE SyncInv'
    <2>1. Did(h) /\ sync' = sync
      BY <1>2, StepDid DEF Did
    <2>2. QED
      BY <2>1, SyncedDid DEF SyncInv
  <1>3. ASSUME NEW l \in Link, Expire(l) PROVE SyncInv'
    <2>1. /\ \A k \in Link : Kills(links, links', k)
          /\ UNCHANGED <<users, sessions, creds, challenges, held, history, control>>
      BY <1>3, ExpireTables
    <2>2. /\ UNCHANGED <<users, sessions, creds, challenges, erased, settled, bornLate, pc, call>>
          /\ sync' = sync
      BY <2>1 DEF history, control
    <2>3. QED
      BY <2>1, <2>2, SyncedExpire DEF SyncInv
  <1>4. CASE UNCHANGED vars
    <2>1. /\ UNCHANGED <<users, sessions, creds, challenges, erased, settled, bornLate, pc, call>>
          /\ sync' = sync /\ links' = links
      BY <1>4 DEF vars, store, history, control
    <2>2. \A k \in Link : Kills(links, links', k)
      BY <2>1 DEF Kills
    <2>3. QED
      BY <2>1, <2>2, SyncedExpire DEF SyncInv
  <1>5. QED
    BY <1>1, <1>2, <1>3, <1>4, NextSteps

LEMMA SyncInvariance == Spec => [](AccountsInv /\ SyncInv)
  <1>1. Init => AccountsInv /\ SyncInv
    BY AccountsInit, SyncInit DEF SyncInv
  <1>2. AccountsInv /\ SyncInv /\ [Next]_vars => (AccountsInv /\ SyncInv)'
    BY AccountsNext, SyncNext
  <1>3. QED
    BY <1>1, <1>2, PTL DEF Spec

\* With a synchronous store no link from before an account was deleted creates
\* an account: what it could create it for is burnt before the row goes
\* (deleteUserCascade, completeSignUp).
THEOREM NoAccountFromAnOldLink == Spec => []ErasedIsNotRecreated
  <1>1. SyncInv => ErasedIsNotRecreated
    BY DEF SyncInv, Synced, ErasedIsNotRecreated
  <1>2. QED
    BY <1>1, SyncInvariance, PTL

\* A deleted account is gone: no request brings it back and, with a synchronous
\* store, no older link does (deleteUserCascade).
THEOREM WhatIsDeletedIsGone == Spec => []DeletedIsGone
  <1>1. ErasedStaysErased /\ ErasedIsNotRecreated => DeletedIsGone
    BY DEF DeletedIsGone
  <1>2. QED
    BY <1>1, DeletedStaysDeleted, NoAccountFromAnOldLink, PTL

\* With a synchronous store a challenge settles one ceremony at most, whoever
\* answers it how often (takeWebAuthnChallenge deletes as it reads).
THEOREM AChallengeSettlesOnce == Spec => []ChallengeSettlesOnce
  <1>1. SyncInv => ChallengeSettlesOnce
    BY DEF SyncInv, Synced, ChallengesOK, ChallengeSettlesOnce
  <1>2. QED
    BY <1>1, SyncInvariance, PTL

-----------------------------------------------------------------------------
(* What a step may never do, on a synchronous store. *)

\* A session that signs nobody in stays so.
StayOut == \A s \in Session : tokens[s] # None /\ ~SignsIn(s) => ~SignsIn(s)'

LEMMA SessionStays ==
    ASSUME TablesOK, TablesOK', RowsGrow, HeldFits, NEW s \in Session, tokens[s] # None,
           tokens'[s] = tokens[s], sessions'[s] = "live" => sessions[s] = "live"
    PROVE  SignsIn(s)' => SignsIn(s)
  <1> SUFFICES ASSUME SignsIn(s)' PROVE SignsIn(s)
    OBVIOUS
  <1>1. PICK t \in Token : t = tokens[s]
    BY DEF TablesOK
  <1>2. PICK u \in User, n \in Nat : u = t.user /\ n = t.tv
    BY DEF Token
  <1>3. sessions[s] = "live" /\ users'[u] # None /\ users'[u].tv = n
    BY <1>1, <1>2 DEF SignsIn
  <1>4. u \notin erased' /\ u \notin erased
    BY <1>3 DEF TablesOK, RowsGrow
  <1>5. users[u] # None /\ n <= users[u].tv
    BY <1>1, <1>2, <1>4 DEF HeldFits, Fits
  <1>6. users[u].tv <= users'[u].tv /\ users[u].tv \in Nat
    BY <1>4, <1>5 DEF RowsGrow, TablesOK, UserRow
  <1>7. users[u].tv = n
    BY <1>3, <1>5, <1>6
  <1>8. QED
    BY <1>1, <1>2, <1>3, <1>5, <1>7 DEF SignsIn

LEMMA DidStayOut ==
    ASSUME AccountsInv, Rows, sync, Synced, NEW h \in Handler, Did(h)
    PROVE  StayOut
  <1>1. TablesOK /\ TablesOK' /\ RowsGrow /\ HeldFits /\ pc[h] # <<>> /\ SafeHead(pc[h], call[h])
    BY DidTables, DidRows DEF AccountsInv, Rows, Synced, Did, Runs
  <1>2. ASSUME NEW s \in Session, tokens[s] # None
        PROVE  tokens'[s] = tokens[s] /\ (sessions'[s] = "live" => sessions[s] = "live")
    <2>1. CASE Went(h)
      <3>1. SessionEffect(Head(pc[h]), call[h])
        BY <2>1 DEF Went, Goes
      <3>2. Head(pc[h]) = "touchSession" => sessions[call[h].session] = "live"
        BY <1>1 DEF SafeHead
      <3>3. QED
        BY <1>1, <1>2, <3>1, <3>2 DEF SessionEffect, TablesOK
    <2>2. CASE Stopped(h)
      BY <2>2 DEF Stopped, store
    <2>3. CASE Again(h)
      BY <2>3 DEF Again, SessionEffect
    <2>4. QED
      BY <2>1, <2>2, <2>3 DEF Did
  <1>3. QED
    BY <1>1, <1>2, SessionStays DEF StayOut

LEMMA QuietStayOut ==
    ASSUME UNCHANGED <<users, sessions, tokens>>
    PROVE  StayOut
  BY DEF StayOut, SignsIn

\* While changes of one account do not overlap, on a synchronous store a session
\* that was signed out stays out: no refresh, late sign-in or older row brings it
\* back (refreshSession, revokeAllSessions, revokeSession).
THEOREM ASignedOutSessionStaysOut == ~Overlap => (Spec => SignedOutStaysOut)
  <1> SUFFICES ASSUME ~Overlap PROVE Spec => SignedOutStaysOut
    OBVIOUS
  <1> DEFINE Stays == sync => \A s \in Session : tokens[s] # None /\ ~SignsIn(s) => ~SignsIn(s)'
  <1>1. AccountsInv /\ RowInv /\ SyncInv /\ [Next]_vars => [Stays]_vars
    <2> SUFFICES ASSUME AccountsInv, RowInv, SyncInv, Next, sync PROVE StayOut
      BY DEF StayOut
    <2>1. ASSUME NEW h \in Handler, Asks(h) PROVE StayOut
      <3>1. PICK op \in Request : \E c \in CallRecord : Began(h, op, c)
        BY <2>1, AskBegan
      <3>2. UNCHANGED <<users, sessions, tokens>>
        BY <3>1 DEF Began, store
      <3>3. QED
        BY <3>2, QuietStayOut
    <2>2. ASSUME NEW h \in Handler, Under(h) PROVE StayOut
      BY <2>2, StepDid, DidStayOut DEF RowInv, SyncInv
    <2>3. ASSUME NEW l \in Link, Expire(l) PROVE StayOut
      BY <2>3, QuietStayOut DEF Expire, held
    <2>4. QED
      BY <2>1, <2>2, <2>3, NextSteps
  <1>2. QED
    BY <1>1, RowInvariance, SyncInvariance, PTL DEF Spec, SignedOutStaysOut

\* An account keeps a passkey until it is deleted.
KeepsOne == \A u \in User : Passkeys(u) # {} /\ Passkeys(u)' = {} => BeingDeleted(u)

\* A passkey that lives on, for the same account, keeps its set from being empty.
LEMMA LivesOn ==
    ASSUME NEW u, NEW d \in Credential, Live(creds', d), creds'[d].user = u
    PROVE  Passkeys(u)' # {}
  <1>1. d \in Passkeys(u)'
    BY DEF Passkeys, Live
  <1>2. QED
    BY <1>1

LEMMA GoesKeepsOne ==
    ASSUME AccountsInv, NEW h \in Handler, pc[h] # <<>>, SafeHead(pc[h], call[h]),
           CredEffect(Head(pc[h]), call[h])
    PROVE  KeepsOne
  <1>1. PICK s, c, x : s = pc[h] /\ c = call[h] /\ x = Head(s)
    OBVIOUS
  <1>2. /\ s \in Seq(Step) /\ s # <<>> /\ Needs(s, c) /\ CredEffect(x, c) /\ SafeHead(s, c)
        /\ c \in CallRecord /\ Ready(x, c)
    BY <1>1, HasCall, IsReady
  <1>0. creds \in [Credential -> CredentialRow \cup {None}] /\ None \notin CredentialRow
    BY AccountsAssumption DEF AccountsInv, TablesOK
  <1>3. SUFFICES ASSUME NEW u \in User, Passkeys(u) # {}, Passkeys(u)' = {}
                 PROVE  BeingDeleted(u)
    BY DEF KeepsOne
  <1>4. PICK d \in Credential : Live(creds, d) /\ creds[d].user = u
    BY <1>3 DEF Passkeys
  <1>5. PICK r \in CredentialRow : r = creds[d] /\ r.live /\ r.user = u
    BY <1>0, <1>4 DEF Live
  <1>6. r # None
    BY <1>0
  <1>7. creds'[d] # r
    BY <1>3, <1>5, <1>6, LivesOn DEF Live
  <1>8. CASE x = "createCred" /\ creds[c.cred] = None
             /\ creds' = [creds EXCEPT ![c.cred] = [user |-> c.user, count |-> 0, live |-> TRUE]]
    BY <1>0, <1>5, <1>6, <1>7, <1>8
  <1>9. CASE x = "writeCred" /\ creds' = [creds EXCEPT ![c.cred].count = c.count]
    <2>1. PICK new \in CredentialRow : new = [r EXCEPT !.count = c.count]
      BY <1>2 DEF CredentialRow, CallRecord
    <2>2. new.live /\ new.user = u /\ new # None
      BY <1>0, <1>5, <2>1 DEF CredentialRow
    <2>3. creds'[d] = new
      BY <1>0, <1>5, <1>7, <1>9, <2>1
    <2>4. QED
      BY <1>3, <2>2, <2>3, LivesOn DEF Live
  <1>10. CASE x = "deleteCred" /\ creds' = Dead(creds, {c.cred})
    <2>1. creds[c.cred].user = c.user /\ Cardinality(Passkeys(c.user)) > 1
      BY <1>1, <1>2, <1>10 DEF SafeHead
    <2>2. \A e \in Credential : e # c.cred => creds'[e] = creds[e]
      BY <1>0, <1>10 DEF Dead
    <2>3. d = c.cred /\ u = c.user
      BY <1>5, <1>7, <2>1, <2>2
    <2>4. Passkeys(u) \subseteq {c.cred}
      <3>1. ASSUME NEW e \in Passkeys(u), e # c.cred PROVE FALSE
        <4>1. e \in Credential /\ Live(creds, e) /\ creds[e].user = u
          BY <3>1 DEF Passkeys
        <4>2. Live(creds', e) /\ creds'[e].user = u
          BY <2>2, <3>1, <4>1 DEF Live
        <4>3. QED
          BY <1>3, <4>1, <4>2, LivesOn
      <3>2. QED
        BY <3>1
    <2>5. Cardinality(Passkeys(u)) = 1
      <3>1. Passkeys(u) = {c.cred}
        BY <1>3, <2>4
      <3>2. QED
        BY <3>1, FS_Singleton
    <2>6. QED
      BY <2>1, <2>3, <2>5
  <1>11. CASE x = "eraseCreds" /\ creds' = Dead(creds, Passkeys(c.user))
    <2>1. d \in Passkeys(c.user)
      BY <1>0, <1>5, <1>7, <1>11 DEF Dead
    <2>2. u = c.user
      BY <1>4, <2>1 DEF Passkeys
    <2>3. c.op = "delete"
      <3>1. ~Lacks(s, "eraseCreds")
        BY <1>1, <1>2, <1>11, LacksTail
      <3>2. QED
        BY <1>2, <3>1 DEF Needs, NoneOf
    <2>4. QED
      BY <1>1, <2>2, <2>3 DEF BeingDeleted
  <1>12. CASE creds' = creds
    BY <1>5, <1>7, <1>12
  <1>13. QED
    BY <1>2, <1>8, <1>9, <1>10, <1>11, <1>12 DEF CredEffect

LEMMA QuietKeepsOne ==
    ASSUME UNCHANGED creds
    PROVE  KeepsOne
  BY DEF KeepsOne, Passkeys, Live

\* On a synchronous store an account that has enrolled a passkey keeps one until
\* it is deleted, whatever removals are under way (PasskeyService.remove counts
\* and deletes in one turn).
THEOREM AccountsKeepAPasskey == Spec => AlwaysAPasskey
  <1> DEFINE Keeps == sync => \A u \in User : Passkeys(u) # {} /\ Passkeys(u)' = {} => BeingDeleted(u)
  <1>1. AccountsInv /\ SyncInv /\ [Next]_vars => [Keeps]_vars
    <2> SUFFICES ASSUME AccountsInv, SyncInv, Next, sync PROVE KeepsOne
      BY DEF KeepsOne
    <2>1. ASSUME NEW h \in Handler, Asks(h) PROVE KeepsOne
      <3>1. PICK op \in Request : \E c \in CallRecord : Began(h, op, c)
        BY <2>1, AskBegan
      <3>2. UNCHANGED creds
        BY <3>1 DEF Began, store
      <3>3. QED
        BY <3>2, QuietKeepsOne
    <2>2. ASSUME NEW h \in Handler, Under(h) PROVE KeepsOne
      <3>1. Did(h) /\ pc[h] # <<>> /\ SafeHead(pc[h], call[h])
        BY <2>2, StepDid DEF Did, Runs, SyncInv, Synced
      <3>2. CASE Went(h)
        BY <3>1, <3>2, GoesKeepsOne DEF Went, Goes
      <3>3. CASE Stopped(h) \/ Again(h)
        BY <3>3, QuietKeepsOne DEF Stopped, Again, store
      <3>4. QED
        BY <3>1, <3>2, <3>3 DEF Did
    <2>3. ASSUME NEW l \in Link, Expire(l) PROVE KeepsOne
      BY <2>3, QuietKeepsOne DEF Expire
    <2>4. QED
      BY <2>1, <2>2, <2>3, NextSteps
  <1>2. QED
    BY <1>1, SyncInvariance, PTL DEF Spec, AlwaysAPasskey

===============================================================================
