-------------------------------- MODULE Accounts --------------------------------
(***************************************************************************)
(* One e-mail address: its row in users, its one-time codes in email_otps, *)
(* and the requests of AuthService that work on them.  Nothing locks a row *)
(* between two statements, and save() writes an entity read earlier back,  *)
(* so requests that overlap can undo one another's writes.                 *)
(*                                                                         *)
(* A code is the id of its row.  Whether the mail with it arrives changes  *)
(* no state, and a client may present the right code or a wrong one.       *)
(*                                                                         *)
(* A definition whose comment begins with "Mistake" is no part of the      *)
(* model: it is a plausible bug that the properties are tried against.     *)
(***************************************************************************)
EXTENDS Naturals

CONSTANTS
  Requests,     \* requests in flight at a time
  Passwords,    \* acceptable passwords a client may choose
  Weak,         \* a password validateAndSanitizePassword refuses
  Placeholder,  \* the random password of an account that awaits its code
  MaxAttempts,  \* OTP_MAX_ATTEMPTS
  MaxCodes,     \* bound: codes issued in one behaviour
  None

ASSUME PasswordAssumption ==
  /\ Weak \notin Passwords /\ Placeholder \notin Passwords
  /\ None \notin Passwords
ASSUME AttemptAssumption == MaxAttempts \in Nat \ {0}
ASSUME CodeAssumption == MaxCodes \in Nat

Purposes == {"register", "forgot_password"}
\* verifyLoginOtp looks for codes of a third purpose.  Nothing issues them, so
\* it always refuses.
Sought == Purposes \union {"login"}
\* Two codes issued for the address are taken to differ.
Codes == 1 .. MaxCodes

VARIABLES
  user,      \* the users row
  otps,      \* the email_otps row of every code
  issued,    \* codes issued so far
  requests,
  uses,      \* history: verifications that succeeded with this code ...
  wrong,     \* ... and wrong guesses answered, until two requests worked on it
  raced,     \* history: codes that two requests worked on at a time
  late,      \* history: codes accepted after a newer one was issued
  latest,    \* history: the password set last
  overlapped \* history: it was set while a login was in flight

vars == <<user, otps, issued, requests, uses, wrong, raced, late, latest,
          overlapped>>
history == <<uses, wrong, raced, late>>

-----------------------------------------------------------------------------
User == [verified : BOOLEAN, password : Passwords \union {Placeholder}]
ASSUME NoneIsNoUser == None \notin User

Otp == [purpose : Purposes, present : BOOLEAN, attempts : 0 .. MaxAttempts,
        consumed : BOOLEAN, expired : BOOLEAN]
NoOtp == [purpose |-> "register", present |-> FALSE, attempts |-> 0,
          consumed |-> FALSE, expired |-> FALSE]

Idle == [pc |-> "idle"]
Asking(pc, p) == [pc |-> pc, purpose |-> p]
\* saving the code's row: attempts and consumed of the entity in memory, what
\* save() found to write, and the new password the request carries
Saving(pc, o, attempts, consumed, change, q) ==
  [pc |-> pc, otp |-> o, attempts |-> attempts, consumed |-> consumed,
   change |-> change, password |-> q]
Setting(pc, q) == [pc |-> pc, password |-> q]
LoggingIn(pc, q, writes) == [pc |-> pc, password |-> q, writes |-> writes]

Become(r, request) == requests' = [requests EXCEPT ![r] = request]

\* No account, a confirmed one, or one from before e-mails were verified.
Init ==
  /\ \/ user = None /\ latest = None
     \/ \E q \in Passwords, v \in BOOLEAN :
          user = [verified |-> v, password |-> q] /\ latest = q
  /\ otps = [o \in Codes |-> NoOtp]
  /\ issued = 0
  /\ requests = [r \in Requests |-> Idle]
  /\ uses = [o \in Codes |-> 0]
  /\ wrong = [o \in Codes |-> 0]
  /\ raced = {} /\ late = {}
  /\ overlapped = FALSE

Verified == user # None /\ user.verified

-----------------------------------------------------------------------------
(* Asking for a code.                                                      *)

RequestRegisterOtp(r) ==
  /\ requests[r].pc = "idle" /\ ~Verified
  /\ Become(r, Asking(IF user = None THEN "insert" ELSE "delete", "register"))
  /\ UNCHANGED <<user, otps, issued, latest, overlapped, history>>

\* The INSERT of a pending account.  When another request was first, the
\* unique index on email refuses it and the row is read again.
InsertPending(r) ==
  /\ requests[r].pc = "insert"
  /\ user' = IF user = None THEN [verified |-> FALSE, password |-> Placeholder]
             ELSE user
  /\ Become(r, IF Verified THEN Idle ELSE Asking("delete", "register"))
  /\ UNCHANGED <<otps, issued, latest, overlapped, history>>

\* An unknown or unconfirmed address gets the same answer, and no code.
RequestForgotPasswordOtp(r) ==
  /\ requests[r].pc = "idle" /\ Verified
  /\ Become(r, Asking("delete", "forgot_password"))
  /\ UNCHANGED <<user, otps, issued, latest, overlapped, history>>

\* Mistake: consumed codes are looked up, and deleted, as well.
NotDeleted(p) == {o \in Codes : otps[o].present /\ otps[o].purpose = p}

\* consumed_at IS NULL
Unused(p) == {o \in Codes : /\ otps[o].present /\ otps[o].purpose = p
                            /\ ~otps[o].consumed}

Holders(o) == {r \in Requests : requests[r].pc \in {"compare", "write"}
                                  /\ requests[r].otp = o}
Held(o) == Holders(o) # {}

\* Mistake: earlier codes stay valid.
KeepUnused(r) ==
  /\ requests[r].pc = "delete"
  /\ Become(r, Asking("issue", requests[r].purpose))
  /\ UNCHANGED <<user, otps, issued, latest, overlapped, history>>

\* DELETE of the codes of this purpose that are not consumed.
DeleteUnused(r) ==
  LET p == requests[r].purpose IN
  /\ requests[r].pc = "delete"
  /\ otps' = [o \in Codes |-> IF o \in Unused(p)
                              THEN [otps[o] EXCEPT !.present = FALSE]
                              ELSE otps[o]]
  /\ raced' = raced \union {o \in Codes : Held(o) /\ otps[o].purpose = p}
  /\ Become(r, Asking("issue", p))
  /\ UNCHANGED <<user, issued, latest, overlapped, uses, wrong, late>>

\* The INSERT of the new code.
IssueOtp(r) ==
  LET p == requests[r].purpose
      o == issued + 1
  IN
  /\ requests[r].pc = "issue" /\ issued < MaxCodes
  /\ otps' = [otps EXCEPT ![o] = [purpose |-> p, present |-> TRUE, attempts |-> 0,
                                  consumed |-> FALSE, expired |-> FALSE]]
  /\ issued' = o
  /\ raced' = IF \E s \in Requests \ {r} : /\ requests[s].pc = "issue"
                                           /\ requests[s].purpose = p
              THEN raced \union {o} ELSE raced
  /\ Become(r, Idle)
  /\ UNCHANGED <<user, latest, overlapped, uses, wrong, late>>

\* expires_at passes.
ExpireOtp(o) ==
  /\ otps[o].present /\ ~otps[o].expired
  /\ otps' = [otps EXCEPT ![o].expired = TRUE]
  /\ UNCHANGED <<user, issued, requests, latest, overlapped, history>>

-----------------------------------------------------------------------------
(* Verifying a code.                                                       *)

Newest(p, o) == o \in Unused(p) /\ \A n \in Unused(p) : n <= o

\* Mistake: one guess too many.
OneMoreTry(o) == ~otps[o].expired /\ otps[o].attempts <= MaxAttempts

Usable(o) == ~otps[o].expired /\ otps[o].attempts < MaxAttempts

\* The newest code that is not consumed is compared with the one presented;
\* either way the entity in memory will be saved.
FindOtp(r, p, o, match, q) ==
  /\ requests[r].pc = "idle"
  /\ Newest(p, o) /\ Usable(o)
  /\ Become(r, Saving("compare", o,
                      IF match THEN otps[o].attempts ELSE otps[o].attempts + 1,
                      match, {}, IF match THEN q ELSE Weak))
  /\ raced' = IF Held(o) THEN raced \union {o} ELSE raced
  /\ late' = IF match /\ \E n \in Codes : /\ o < n /\ n <= issued
                                          /\ otps[n].purpose = p
             THEN late \union {o} ELSE late
  /\ UNCHANGED <<user, otps, issued, latest, overlapped, uses, wrong>>

\* save() selects the row again.  A row that is gone will be inserted anew,
\* in one that is there the differing columns will be updated; the time of
\* consumption always differs.
CompareOtp(r) ==
  LET m == requests[r]
      row == otps[m.otp]
      change == IF ~row.present THEN {"row"}
                ELSE {col \in {"attempts", "consumed"} :
                        m[col] # row[col] \/ (col = "consumed" /\ m[col])}
  IN
  /\ m.pc = "compare"
  /\ Become(r, Saving("write", m.otp, m.attempts, m.consumed, change, m.password))
  /\ UNCHANGED <<user, otps, issued, latest, overlapped, history>>

\* Mistake: the refusal is sent and the attempt not saved.
Forgotten(m) == IF m.consumed THEN [otps[m.otp] EXCEPT !.consumed = TRUE]
                ELSE otps[m.otp]

Saved(m) ==
  LET row == otps[m.otp] IN
  [row EXCEPT !.present = row.present \/ "row" \in m.change,
              !.attempts = IF m.change \intersect {"attempts", "row"} # {}
                           THEN m.attempts ELSE row.attempts,
              !.consumed = IF m.change \intersect {"consumed", "row"} # {}
                           THEN m.consumed ELSE row.consumed]

Least(a, b) == IF a <= b THEN a ELSE b

\* validateAndSanitizePassword
Acceptable(q) == q # Weak

\* The INSERT or UPDATE (of no row, when the row was deleted meanwhile).  An
\* INSERT of an id that came back meanwhile fails, and with it the request.
WriteOtp(r) ==
  LET m == requests[r]
      o == m.otp
      exists == otps[o].present
      clash == "row" \in m.change /\ exists
      lost == "row" \notin m.change /\ ~exists
  IN
  /\ m.pc = "write"
  /\ otps' = IF clash \/ lost THEN otps ELSE [otps EXCEPT ![o] = Saved(m)]
  /\ IF clash \/ ~m.consumed
     THEN /\ Become(r, Idle) /\ uses' = uses
          /\ wrong' = IF o \in raced THEN wrong
                      ELSE [wrong EXCEPT ![o] = Least(wrong[o] + 1, MaxAttempts + 1)]
     ELSE /\ wrong' = wrong
          /\ uses' = IF o \in raced THEN uses
                     ELSE [uses EXCEPT ![o] = Least(uses[o] + 1, 2)]
          /\ Become(r, IF otps[o].purpose = "forgot_password"
                       THEN Setting("load", m.password)
                       ELSE IF ~Acceptable(m.password) THEN Idle
                       ELSE Setting("begin", m.password))
  /\ UNCHANGED <<user, issued, latest, overlapped, raced, late>>

-----------------------------------------------------------------------------
(* What a verified code allows.                                            *)

Logins == {r \in Requests : requests[r].pc \in {"loginCompare", "loginWrite"}}

\* The statement that stores password q.
SetPassword(r, q) ==
  /\ user' = [verified |-> TRUE, password |-> q]
  /\ latest' = q
  /\ overlapped' = \E s \in Logins : requests[s].password # q
  /\ Become(r, Idle)
  /\ UNCHANGED <<otps, issued, history>>

\* verifyRegisterOtp's transaction reads the row ...
BeginRegister(r) ==
  /\ requests[r].pc = "begin"
  /\ Become(r, IF Verified THEN Idle ELSE Setting("commit", requests[r].password))
  /\ UNCHANGED <<user, otps, issued, latest, overlapped, history>>

\* Mistake: the account is confirmed with the password it had.
CommitVerified(r) ==
  /\ requests[r].pc = "commit"
  /\ user' = [verified |-> TRUE, password |-> user.password]
  /\ latest' = requests[r].password
  /\ Become(r, Idle)
  /\ UNCHANGED <<otps, issued, overlapped, history>>

\* ... and writes it, whatever another one wrote in between.
CommitRegister(r) ==
  requests[r].pc = "commit" /\ SetPassword(r, requests[r].password)

LoadForReset(r) ==
  LET q == requests[r].password IN
  /\ requests[r].pc = "load"
  /\ Become(r, IF Verified /\ Acceptable(q) THEN Setting("reset", q) ELSE Idle)
  /\ UNCHANGED <<user, otps, issued, latest, overlapped, history>>

SaveReset(r) ==
  requests[r].pc = "reset" /\ SetPassword(r, requests[r].password)

-----------------------------------------------------------------------------
(* Login: the row is read, its password compared with the client's, and    *)
(* after the tokens are made the whole entity is saved for its signals.    *)

LoadForLogin(r, q) ==
  /\ requests[r].pc = "idle" /\ user # None /\ user.password = q
  /\ Become(r, LoggingIn("loginCompare", q, FALSE))
  /\ UNCHANGED <<user, otps, issued, latest, overlapped, history>>

\* A password that differs from the row's will be written back.  save() may
\* write an equal one too: the column is not selected by default, so it has
\* nothing to compare with.
CompareLogin(r) ==
  LET q == requests[r].password IN
  /\ requests[r].pc = "loginCompare"
  /\ \E writes \in {user.password # q, TRUE} :
       Become(r, LoggingIn("loginWrite", q, writes))
  /\ UNCHANGED <<user, otps, issued, latest, overlapped, history>>

\* email_verified_at was not read, so it is set as well.
UpdateLoginSignals(r) ==
  LET m == requests[r] IN
  /\ m.pc = "loginWrite"
  /\ user' = [verified |-> TRUE,
              password |-> IF m.writes THEN m.password ELSE user.password]
  /\ Become(r, Idle)
  /\ UNCHANGED <<otps, issued, latest, overlapped, history>>

\* A statement failed, before or after it took effect, or the process ended.
Abandon(r) ==
  /\ requests[r].pc # "idle"
  /\ Become(r, Idle)
  /\ UNCHANGED <<user, otps, issued, latest, overlapped, history>>

-----------------------------------------------------------------------------
AskForCode(r) == \/ RequestRegisterOtp(r) \/ InsertPending(r)
                 \/ RequestForgotPasswordOtp(r)
                 \/ DeleteUnused(r) \/ IssueOtp(r)
VerifyCode(r) ==
  \/ \E p \in Sought, o \in Codes, match \in BOOLEAN,
        q \in Passwords \union {Weak} : FindOtp(r, p, o, match, q)
  \/ CompareOtp(r) \/ WriteOtp(r)
ChangePassword(r) == \/ BeginRegister(r) \/ CommitRegister(r)
                     \/ LoadForReset(r) \/ SaveReset(r)
LogIn(r) == \/ \E q \in Passwords : LoadForLogin(r, q)
            \/ CompareLogin(r) \/ UpdateLoginSignals(r)

Next == \/ \E r \in Requests : \/ AskForCode(r) \/ VerifyCode(r)
                               \/ ChangePassword(r) \/ LogIn(r) \/ Abandon(r)
        \/ \E o \in Codes : ExpireOtp(o)

Spec == Init /\ [][Next]_vars

-----------------------------------------------------------------------------
AskingStates == [pc : {"insert", "delete", "issue"}, purpose : Purposes]
SavingStates ==
  [pc : {"compare", "write"}, otp : Codes, attempts : 0 .. MaxAttempts,
   consumed : BOOLEAN, change : SUBSET {"row", "attempts", "consumed"},
   password : Passwords \union {Weak}]
LoadingStates == [pc : {"load"}, password : Passwords \union {Weak}]
SettingStates == [pc : {"begin", "commit", "reset"}, password : Passwords]
LoginStates ==
  [pc : {"loginCompare", "loginWrite"}, password : Passwords, writes : BOOLEAN]
RequestStates == {Idle} \union AskingStates \union SavingStates
                 \union LoadingStates \union SettingStates \union LoginStates

\* Every variable has the shape the code gives it; no stored number of
\* attempts exceeds OTP_MAX_ATTEMPTS.
TypeOK ==
  /\ user \in User \union {None}
  /\ otps \in [Codes -> Otp]
  /\ issued \in 0 .. MaxCodes
  /\ requests \in [Requests -> RequestStates]
  /\ uses \in [Codes -> 0 .. 2]
  /\ wrong \in [Codes -> 0 .. MaxAttempts + 1]
  /\ raced \subseteq Codes /\ late \subseteq Codes
  /\ latest \in Passwords \union {None}
  /\ overlapped \in BOOLEAN

\* A code lets one request through, unless two requests worked on it at a
\* time: two that read it before either saved it, or a wrong guess whose
\* save() writes consumed_at = NULL back.
CodeUsedOnce == \A o \in Codes : uses[o] <= 1

\* The limit on guesses holds for every code that no two requests worked on
\* at a time, whatever failed in between.
GuessesBounded == \A o \in Codes : wrong[o] <= MaxAttempts

\* A code is not accepted once a newer one of its purpose was issued, unless
\* the two requests for codes overlapped, or the DELETE met a save() in flight,
\* which inserts the old row again.
NewestOnly == late \subseteq raced

\* The stored password is the one confirmed last, unless a login that had read
\* an older one was in flight when it was stored: it writes that one back.
LatestPassword == Verified => user.password = latest \/ overlapped

\* The rows and the requests, as the address sees its codes, implement
\* OneTimeCodes: one open code for each purpose, which ends for good after one
\* success, MaxAttempts wrong guesses, its withdrawal or its time.  An expired
\* code lives on for a request that read it before and has the right code.
CodeOf == [o \in Codes |->
  LET row == otps[o] IN
  IF o > issued THEN "none"
  ELSE IF o \notin raced /\ row.consumed THEN "used"
  ELSE IF row.expired /\ \A r \in Holders(o) : ~requests[r].consumed THEN "dead"
  ELSE IF o \in raced THEN "shared"
  ELSE IF ~row.present \/ row.attempts = MaxAttempts THEN "dead" ELSE "open"]
PurposeOf == [o \in Codes |-> otps[o].purpose]
Abstract == INSTANCE OneTimeCodes WITH
  code <- CodeOf, purpose <- PurposeOf, passed <- uses, guesses <- wrong

ImplementsOneTimeCodes == Abstract!Spec

-----------------------------------------------------------------------------
(* The inductive invariant.                                                *)

Unissued == \A o \in Codes : o > issued =>
  otps[o] = NoOtp /\ uses[o] = 0 /\ wrong[o] = 0 /\ ~Held(o)

\* A code no two requests worked on is as its only holder read it.
HeldAlone ==
  \A o \in Codes : o \notin raced =>
    /\ uses[o] # 0 => otps[o].consumed
    /\ wrong[o] = otps[o].attempts
    /\ \A r \in Holders(o) :
         LET m == requests[r] IN
         /\ otps[o].present /\ ~otps[o].consumed /\ otps[o].attempts < MaxAttempts
         /\ m.attempts = IF m.consumed THEN otps[o].attempts
                         ELSE otps[o].attempts + 1
         /\ m.pc = "write" =>
              m.change = IF m.consumed THEN {"consumed"} ELSE {"attempts"}
         /\ Holders(o) = {r}

\* An unused one is the newest of its purpose, and its purpose is not about to
\* get a new one.
UnusedIsNewest ==
  \A o \in Codes : o \notin raced /\ otps[o].present /\ ~otps[o].consumed =>
    /\ \A n \in Codes : o < n /\ n <= issued => otps[n].purpose # otps[o].purpose
    /\ \A r \in Requests :
         requests[r].pc = "issue" => requests[r].purpose # otps[o].purpose

\* Logins in flight carry the password set last, and a placeholder is never
\* verified or logged in with.
PasswordsKept ==
  /\ user # None =>
       \/ user.password = Placeholder /\ ~user.verified /\ Logins = {}
       \/ user.password \in Passwords /\ (user.password = latest \/ overlapped)
  /\ \A r \in Logins : user # None /\ (requests[r].password = latest \/ overlapped)

IInv == /\ TypeOK /\ Unissued /\ HeldAlone /\ UnusedIsNewest /\ PasswordsKept
        /\ CodeUsedOnce /\ GuessesBounded /\ NewestOnly /\ LatestPassword

=============================================================================
