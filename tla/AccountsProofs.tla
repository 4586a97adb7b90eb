----------------------------- MODULE AccountsProofs -----------------------------
(***************************************************************************)
(* The invariant of Accounts, for every number of requests, codes, allowed *)
(* attempts and passwords.                                                 *)
(***************************************************************************)
EXTENDS Accounts, Integers, TLAPS

\* What a request's program counter says about its record.
LEMMA Shapes ==
  ASSUME NEW m \in RequestStates
  PROVE  /\ m.pc \in {"insert", "delete", "issue"} <=> m \in AskingStates
         /\ m.pc \in {"compare", "write"} <=> m \in SavingStates
         /\ m.pc = "load" <=> m \in LoadingStates
         /\ m.pc \in {"begin", "commit", "reset"} <=> m \in SettingStates
         /\ m.pc \in {"loginCompare", "loginWrite"} <=> m \in LoginStates
         /\ m.pc = "idle" <=> m = Idle
BY DEF RequestStates, AskingStates, SavingStates, LoadingStates, SettingStates,
       LoginStates, Idle

LEMMA Constructed ==
  /\ Idle \in RequestStates
  /\ \A p \in Purposes : \A pc \in {"insert", "delete", "issue"} :
       Asking(pc, p) \in RequestStates
  /\ \A q \in Passwords : \A pc \in {"begin", "commit", "reset"} :
       Setting(pc, q) \in RequestStates
  /\ \A q \in Passwords \union {Weak} : Setting("load", q) \in RequestStates
  /\ \A q \in Passwords, w \in BOOLEAN, pc \in {"loginCompare", "loginWrite"} :
       LoggingIn(pc, q, w) \in RequestStates
  /\ \A pc \in {"compare", "write"}, o \in Codes, a \in 0 .. MaxAttempts,
        c \in BOOLEAN, change \in SUBSET {"row", "attempts", "consumed"},
        q \in Passwords \union {Weak} :
       Saving(pc, o, a, c, change, q) \in RequestStates
BY DEF RequestStates, AskingStates, SavingStates, LoadingStates, SettingStates,
       LoginStates, Idle, Asking, Saving, Setting, LoggingIn

LEMMA Labels ==
  /\ Idle.pc = "idle"
  /\ \A pc, p : Asking(pc, p).pc = pc
  /\ \A pc, o, a, c, change, q : Saving(pc, o, a, c, change, q).pc = pc
  /\ \A pc, q : Setting(pc, q).pc = pc
BY DEF Idle, Asking, Saving, Setting

LEMMA Updated ==
  ASSUME TypeOK, NEW r \in Requests, NEW m \in RequestStates, Become(r, m)
  PROVE  /\ requests' \in [Requests -> RequestStates]
         /\ requests'[r] = m
         /\ \A s \in Requests \ {r} : requests'[s] = requests[s]
BY DEF TypeOK, Become

-----------------------------------------------------------------------------
(* Types.                                                                  *)

LEMMA TypeInit == Init => TypeOK
<1> SUFFICES ASSUME Init PROVE TypeOK
  OBVIOUS
<1>1. NoOtp \in Otp
  BY AttemptAssumption DEF NoOtp, Otp, Purposes
<1>2. user \in User \union {None} /\ latest \in Passwords \union {None}
  BY DEF Init, User
<1>3. issued \in 0 .. MaxCodes
  BY CodeAssumption DEF Init
<1>4. wrong \in [Codes -> 0 .. MaxAttempts + 1] /\ uses \in [Codes -> 0 .. 2]
  BY AttemptAssumption DEF Init
<1> QED
  BY <1>1, <1>2, <1>3, <1>4, Constructed DEF Init, TypeOK

\* The requests of one step: the record it leaves is well formed.
LEMMA TypeAsk ==
  ASSUME TypeOK, NEW r \in Requests, AskForCode(r)
  PROVE  TypeOK'
<1> USE DEF TypeOK
<1>0. "register" \in Purposes /\ "forgot_password" \in Purposes
  BY DEF Purposes
<1>1. CASE RequestRegisterOtp(r)
  <2> DEFINE m == Asking(IF user = None THEN "insert" ELSE "delete", "register")
  <2>1. m \in RequestStates
    BY <1>0, Constructed
  <2>2. Become(r, m)
    BY <1>1 DEF RequestRegisterOtp
  <2>3. requests' \in [Requests -> RequestStates]
    BY <2>1, <2>2, Updated
  <2> QED
    BY <1>1, <2>3 DEF RequestRegisterOtp, history
<1>2. CASE InsertPending(r)
  <2> DEFINE m == IF Verified THEN Idle ELSE Asking("delete", "register")
  <2>1. m \in RequestStates
    BY <1>0, Constructed
  <2>2. Become(r, m)
    BY <1>2 DEF InsertPending
  <2>3. requests' \in [Requests -> RequestStates]
    BY <2>1, <2>2, Updated
  <2>4. user' \in User \union {None}
    BY <1>2 DEF InsertPending, User
  <2> QED
    BY <1>2, <2>3, <2>4 DEF InsertPending, history
<1>3. CASE RequestForgotPasswordOtp(r)
  <2>1. Asking("delete", "forgot_password") \in RequestStates
    BY <1>0, Constructed
  <2>2. requests' \in [Requests -> RequestStates]
    BY <1>3, <2>1, Updated DEF RequestForgotPasswordOtp
  <2> QED
    BY <1>3, <2>2 DEF RequestForgotPasswordOtp, history
<1>4. CASE DeleteUnused(r)
  <2>1. requests[r].purpose \in Purposes
    BY <1>4, Shapes DEF DeleteUnused, AskingStates
  <2>2. Asking("issue", requests[r].purpose) \in RequestStates
    BY <2>1, Constructed
  <2>3. requests' \in [Requests -> RequestStates]
    BY <1>4, <2>2, Updated DEF DeleteUnused
  <2>4. otps' \in [Codes -> Otp]
    BY <1>4 DEF DeleteUnused, Otp
  <2>5. raced' \subseteq Codes
    BY <1>4 DEF DeleteUnused
  <2> QED
    BY <1>4, <2>3, <2>4, <2>5 DEF DeleteUnused
<1>5. CASE IssueOtp(r)
  <2>1. requests[r].purpose \in Purposes
    BY <1>5, Shapes DEF IssueOtp, AskingStates
  <2>2. issued + 1 \in Codes /\ issued' \in 0 .. MaxCodes
    BY <1>5, CodeAssumption DEF IssueOtp, Codes
  <2>3. requests' \in [Requests -> RequestStates]
    BY <1>5, Constructed, Updated DEF IssueOtp
  <2>4. otps' \in [Codes -> Otp]
    BY <1>5, <2>1, <2>2, AttemptAssumption DEF IssueOtp, Otp
  <2>5. raced' \subseteq Codes
    BY <1>5, <2>2 DEF IssueOtp
  <2> QED
    BY <1>5, <2>2, <2>3, <2>4, <2>5 DEF IssueOtp
<1> QED
  BY <1>1, <1>2, <1>3, <1>4, <1>5 DEF AskForCode

LEMMA TypeVerify ==
  ASSUME TypeOK, NEW r \in Requests, VerifyCode(r)
  PROVE  TypeOK'
<1> USE DEF TypeOK
<1>1. ASSUME NEW p \in Sought, NEW o \in Codes, NEW match \in BOOLEAN,
             NEW q \in Passwords \union {Weak}, FindOtp(r, p, o, match, q)
      PROVE  TypeOK'
  <2> DEFINE a == IF match THEN otps[o].attempts ELSE otps[o].attempts + 1
             w == IF match THEN q ELSE Weak
  <2>1. a \in 0 .. MaxAttempts
    BY <1>1, AttemptAssumption DEF FindOtp, Usable, Otp
  <2>2. Saving("compare", o, a, match, {}, w) \in RequestStates
    BY <2>1, Constructed
  <2>3. requests' \in [Requests -> RequestStates]
    BY <1>1, <2>2, Updated DEF FindOtp
  <2>4. raced' \subseteq Codes /\ late' \subseteq Codes
    BY <1>1 DEF FindOtp
  <2> QED
    BY <1>1, <2>3, <2>4 DEF FindOtp
<1>2. CASE CompareOtp(r)
  <2> DEFINE m == requests[r]
             row == otps[m.otp]
             change == IF ~row.present THEN {"row"}
                       ELSE {col \in {"attempts", "consumed"} :
                               m[col] # row[col] \/ (col = "consumed" /\ m[col])}
  <2>1. m \in SavingStates
    BY <1>2, Shapes DEF CompareOtp
  <2>2. Saving("write", m.otp, m.attempts, m.consumed, change, m.password)
          \in RequestStates
    <3>1. change \in SUBSET {"row", "attempts", "consumed"}
      OBVIOUS
    <3> HIDE DEF change
    <3> QED
      BY <2>1, <3>1, Constructed DEF SavingStates
  <2>3. requests' \in [Requests -> RequestStates]
    BY <1>2, <2>2, Updated DEF CompareOtp
  <2> QED
    BY <1>2, <2>3 DEF CompareOtp, history
<1>3. CASE WriteOtp(r)
  <2> DEFINE m == requests[r]
             o == m.otp
  <2>1. m \in SavingStates
    BY <1>3, Shapes DEF WriteOtp, Acceptable
  <2>2. o \in Codes
    BY <2>1 DEF SavingStates
  <2>3. otps' \in [Codes -> Otp]
    <3>1. Saved(m) \in Otp
      <4>1. otps[o] \in Otp /\ m.attempts \in 0 .. MaxAttempts /\ m.consumed \in BOOLEAN
        BY <2>1, <2>2 DEF SavingStates
      <4>2. \A x \in Otp, e, c \in BOOLEAN, a \in 0 .. MaxAttempts :
              [x EXCEPT !.present = e, !.attempts = a, !.consumed = c] \in Otp
        BY DEF Otp
      <4>3. \A row \in Otp : row.consumed \in BOOLEAN /\ row.attempts \in 0 .. MaxAttempts
        BY DEF Otp
      <4> QED
        BY <4>1, <4>2, <4>3 DEF Saved
    <3> QED
      BY <1>3, <2>2, <3>1 DEF WriteOtp, Acceptable
  <2>4. /\ uses' \in [Codes -> 0 .. 2]
        /\ wrong' \in [Codes -> 0 .. MaxAttempts + 1]
    <3>1. Least(uses[o] + 1, 2) \in 0 .. 2
      BY <2>2 DEF Least
    <3>2. Least(wrong[o] + 1, MaxAttempts + 1) \in 0 .. MaxAttempts + 1
      BY <2>2, AttemptAssumption DEF Least
    <3> HIDE DEF o
    <3> QED
      BY <1>3, <2>2, <3>1, <3>2 DEF WriteOtp, Acceptable, o
  <2>5. requests' \in [Requests -> RequestStates]
    <3>1. \/ Become(r, Idle)
          \/ Become(r, Setting("load", m.password))
          \/ m.password # Weak /\ Become(r, Setting("begin", m.password))
      BY <1>3 DEF WriteOtp, Acceptable
    <3>2. m.password \in Passwords \union {Weak}
      BY <2>1 DEF SavingStates
    <3> HIDE DEF m
    <3> QED
      BY <3>1, <3>2, Constructed, Updated
  <2> QED
    BY <1>3, <2>3, <2>4, <2>5 DEF WriteOtp, Acceptable
<1> QED
  BY <1>1, <1>2, <1>3 DEF VerifyCode

LEMMA TypeChange ==
  ASSUME TypeOK, NEW r \in Requests, ChangePassword(r)
  PROVE  TypeOK'
<1> USE DEF TypeOK
<1> DEFINE q == requests[r].password
<1>1. requests[r].pc = "load" => q \in Passwords \union {Weak}
  BY Shapes DEF LoadingStates
<1>2. requests[r].pc \in {"begin", "commit", "reset"} => q \in Passwords
  BY Shapes DEF SettingStates
<1>3. CASE BeginRegister(r) \/ LoadForReset(r)
  <2>1. requests' \in [Requests -> RequestStates]
    <3>1. CASE BeginRegister(r)
      BY <1>2, <3>1, Constructed, Updated DEF BeginRegister
    <3>2. CASE LoadForReset(r)
      BY <1>1, <3>2, Constructed, Updated DEF LoadForReset, Acceptable
    <3> QED
      BY <1>3, <3>1, <3>2
  <2> QED
    BY <1>3, <2>1 DEF BeginRegister, LoadForReset, Acceptable, history
<1>4. CASE CommitRegister(r) \/ SaveReset(r)
  <2>1. q \in Passwords /\ SetPassword(r, q)
    BY <1>2, <1>4 DEF CommitRegister, SaveReset
  <2>2. requests' \in [Requests -> RequestStates]
    BY <2>1, Constructed, Updated DEF SetPassword
  <2>3. user' \in User /\ latest' \in Passwords /\ overlapped' \in BOOLEAN
    BY <2>1 DEF SetPassword, User
  <2> QED
    BY <2>1, <2>2, <2>3 DEF SetPassword, history
<1> QED
  BY <1>3, <1>4 DEF ChangePassword

LEMMA TypeLogIn ==
  ASSUME TypeOK, PasswordsKept, NEW r \in Requests, LogIn(r)
  PROVE  TypeOK'
<1> USE DEF TypeOK
<1>1. ASSUME NEW q \in Passwords, LoadForLogin(r, q)
      PROVE  TypeOK'
  <2>1. requests' \in [Requests -> RequestStates]
    BY <1>1, Constructed, Updated DEF LoadForLogin
  <2> QED
    BY <1>1, <2>1 DEF LoadForLogin, history
<1>2. CASE CompareLogin(r)
  <2>1. requests[r].password \in Passwords
    BY <1>2, Shapes DEF CompareLogin, LoginStates
  <2>2. requests' \in [Requests -> RequestStates]
    <3>1. PICK w \in {user.password # requests[r].password, TRUE} :
            Become(r, LoggingIn("loginWrite", requests[r].password, w))
      BY <1>2 DEF CompareLogin
    <3>2. w \in BOOLEAN
      OBVIOUS
    <3> QED
      BY <2>1, <3>1, <3>2, Constructed, Updated
  <2> QED
    BY <1>2, <2>2 DEF CompareLogin, history
<1>3. CASE UpdateLoginSignals(r)
  <2>1. requests' \in [Requests -> RequestStates]
    BY <1>3, Constructed, Updated DEF UpdateLoginSignals
  <2>2. requests[r].password \in Passwords
    BY <1>3, Shapes DEF UpdateLoginSignals, LoginStates
  <2>3. user # None
    BY <1>3 DEF UpdateLoginSignals, PasswordsKept, Logins
  <2>4. user' \in User
    BY <1>3, <2>2, <2>3 DEF UpdateLoginSignals, User
  <2> QED
    BY <1>3, <2>1, <2>4 DEF UpdateLoginSignals, history
<1> QED
  BY <1>1, <1>2, <1>3 DEF LogIn

LEMMA TypeOther ==
  ASSUME TypeOK,
         \/ \E r \in Requests : Abandon(r)
         \/ \E o \in Codes : ExpireOtp(o)
         \/ UNCHANGED vars
  PROVE  TypeOK'
<1> USE DEF TypeOK
<1>1. ASSUME NEW r \in Requests, Abandon(r) PROVE TypeOK'
  <2>1. requests' \in [Requests -> RequestStates]
    BY <1>1, Constructed, Updated DEF Abandon
  <2> QED
    BY <1>1, <2>1 DEF Abandon, history
<1>2. ASSUME NEW o \in Codes, ExpireOtp(o) PROVE TypeOK'
  <2>1. otps' \in [Codes -> Otp]
    BY <1>2 DEF ExpireOtp, Otp
  <2> QED
    BY <1>2, <2>1 DEF ExpireOtp, history
<1>3. CASE UNCHANGED vars
  BY <1>3 DEF vars
<1> QED
  BY <1>1, <1>2, <1>3

LEMMA TypeNext == TypeOK /\ PasswordsKept /\ [Next]_vars => TypeOK'
BY TypeAsk, TypeVerify, TypeChange, TypeLogIn, TypeOther DEF Next

-----------------------------------------------------------------------------
(* Passwords.                                                              *)

\* A step that sets no password and starts no login.
LEMMA PasswordsQuiet ==
  ASSUME PasswordsKept, UNCHANGED <<user, latest, overlapped>>,
         \A s \in Requests :
           requests'[s].pc \in {"loginCompare", "loginWrite"} =>
             /\ requests[s].pc \in {"loginCompare", "loginWrite"}
             /\ requests'[s].password = requests[s].password
  PROVE  PasswordsKept'
<1>1. \A s \in Logins' : s \in Logins /\ requests'[s].password = requests[s].password
  BY DEF Logins
<1>2. user = None \/ user # None
  OBVIOUS
<1>3. Logins = {} => Logins' = {}
  BY <1>1
<1> QED
  BY <1>1, <1>3 DEF PasswordsKept

LEMMA PasswordsSet ==
  ASSUME TypeOK, PasswordsKept, NEW r \in Requests, NEW q \in Passwords,
         requests[r].pc \in {"commit", "reset"}, SetPassword(r, q)
  PROVE  PasswordsKept'
<1>1. /\ user' = [verified |-> TRUE, password |-> q]
      /\ latest' = q
      /\ overlapped' = \E s \in Logins : requests[s].password # q
  BY DEF SetPassword
<1>2. user' # None
  <2>1. user' \in User
    BY <1>1 DEF User
  <2> QED
    BY <2>1, NoneIsNoUser
<1>3. \A s \in Logins' : s \in Logins /\ requests'[s].password = requests[s].password
  BY Updated, Constructed DEF SetPassword, Logins, Idle
<1>4. \A s \in Logins' : requests'[s].password = latest' \/ overlapped'
  BY <1>1, <1>3
<1> QED
  BY <1>1, <1>2, <1>4 DEF PasswordsKept

LEMMA PasswordsLogIn ==
  ASSUME TypeOK, PasswordsKept, NEW r \in Requests, LogIn(r)
  PROVE  PasswordsKept'
<1>1. ASSUME NEW q \in Passwords, LoadForLogin(r, q)
      PROVE  PasswordsKept'
  <2>1. /\ UNCHANGED <<user, latest, overlapped>>
        /\ user # None /\ user.password = q
    BY <1>1 DEF LoadForLogin
  <2>2. user.password # Placeholder /\ (q = latest \/ overlapped)
    BY <2>1, PasswordAssumption DEF PasswordsKept
  <2>3. LoggingIn("loginCompare", q, FALSE) \in RequestStates
    BY Constructed
  <2>4. \A s \in Logins' : \/ s = r /\ requests'[s].password = q
                           \/ s \in Logins /\ requests'[s].password = requests[s].password
    BY <1>1, <2>3, Updated DEF LoadForLogin, Logins, LoggingIn
  <2> QED
    BY <2>1, <2>2, <2>4 DEF PasswordsKept
<1>2. CASE CompareLogin(r)
  <2>1. requests[r].password \in Passwords
    BY <1>2, Shapes DEF CompareLogin, LoginStates, TypeOK
  <2>2. PICK w \in {user.password # requests[r].password, TRUE} :
          Become(r, LoggingIn("loginWrite", requests[r].password, w))
    BY <1>2 DEF CompareLogin
  <2>3. LoggingIn("loginWrite", requests[r].password, w) \in RequestStates
    BY <2>1, Constructed
  <2>4. \A s \in Requests : s # r => requests'[s] = requests[s]
    BY <2>2, <2>3, Updated
  <2>5. requests'[r].password = requests[r].password
    BY <2>2, <2>3, Updated DEF LoggingIn
  <2> QED
    BY <1>2, <2>4, <2>5, PasswordsQuiet DEF CompareLogin
<1>3. CASE UpdateLoginSignals(r)
  <2> DEFINE q == requests[r].password
  <2>1. q \in Passwords
    BY <1>3, Shapes DEF UpdateLoginSignals, LoginStates, TypeOK
  <2>2. user # None /\ (q = latest \/ overlapped) /\ r \in Logins
    BY <1>3 DEF UpdateLoginSignals, PasswordsKept, Logins
  <2>3. user.password \in Passwords /\ (user.password = latest \/ overlapped)
    BY <2>2 DEF PasswordsKept
  <2>4. /\ user' # None /\ user'.password \in Passwords
        /\ user'.password \in {q, user.password}
    <3>1. user' \in User
      BY <1>3, <2>1, <2>3 DEF UpdateLoginSignals, User
    <3> QED
      BY <1>3, <2>1, <2>3, <3>1, NoneIsNoUser DEF UpdateLoginSignals
  <2>5. UNCHANGED <<latest, overlapped>>
    BY <1>3 DEF UpdateLoginSignals
  <2>6. \A s \in Logins' : s \in Logins /\ requests'[s].password = requests[s].password
    BY <1>3, Updated, Constructed DEF UpdateLoginSignals, Logins, Idle
  <2> QED
    BY <2>2, <2>3, <2>4, <2>5, <2>6 DEF PasswordsKept
<1> QED
  BY <1>1, <1>2, <1>3 DEF LogIn

LEMMA PasswordsNext ==
  ASSUME TypeOK, PasswordsKept, [Next]_vars
  PROVE  PasswordsKept'
<1>1. ASSUME NEW r \in Requests, NEW m, Become(r, m),
             m.pc \notin {"loginCompare", "loginWrite"},
             UNCHANGED <<user, latest, overlapped>>
      PROVE  PasswordsKept'
  <2>1. requests' = [requests EXCEPT ![r] = m]
    BY <1>1 DEF Become
  <2> QED
    BY <1>1, <2>1, PasswordsQuiet DEF TypeOK
<1>2. ASSUME NEW r \in Requests, AskForCode(r)
      PROVE  PasswordsKept'
  <2>1. CASE InsertPending(r) /\ user = None
    <3>1. user' = [verified |-> FALSE, password |-> Placeholder]
      BY <2>1 DEF InsertPending
    <3>2. Logins' = {}
      <4>1. Logins = {}
        BY <2>1 DEF PasswordsKept
      <4> QED
        BY <2>1, <4>1 DEF InsertPending, Become, TypeOK, Logins, Idle, Asking, Verified
    <3> QED
      BY <3>1, <3>2 DEF PasswordsKept
  <2>2. CASE ~(InsertPending(r) /\ user = None)
    <3>1. UNCHANGED <<user, latest, overlapped>>
      BY <1>2, <2>2 DEF AskForCode, RequestRegisterOtp, InsertPending,
           RequestForgotPasswordOtp, DeleteUnused, IssueOtp
    <3>2. PICK m : Become(r, m) /\ m.pc \notin {"loginCompare", "loginWrite"}
      <4>1. \/ Become(r, Idle)
            \/ \E p : \E pc \in {"insert", "delete", "issue"} : Become(r, Asking(pc, p))
        BY <1>2 DEF AskForCode, RequestRegisterOtp, InsertPending,
             RequestForgotPasswordOtp, DeleteUnused, IssueOtp
      <4>2. CASE Become(r, Idle)
        BY <4>2, Labels
      <4>3. ASSUME NEW pc \in {"insert", "delete", "issue"}, NEW p,
                   Become(r, Asking(pc, p))
            PROVE  \E m : Become(r, m) /\ m.pc \notin {"loginCompare", "loginWrite"}
        BY <4>3, Labels
      <4> QED
        BY <4>1, <4>2, <4>3
    <3> QED
      BY <1>1, <3>1, <3>2
  <2> QED
    BY <2>1, <2>2
<1>3. ASSUME NEW r \in Requests, VerifyCode(r)
      PROVE  PasswordsKept'
  <2>1. UNCHANGED <<user, latest, overlapped>>
    BY <1>3 DEF VerifyCode, FindOtp, CompareOtp, WriteOtp, Acceptable
  <2>2. PICK m : Become(r, m) /\ m.pc \notin {"loginCompare", "loginWrite"}
    <3>1. ASSUME NEW p \in Sought, NEW o \in Codes, NEW match \in BOOLEAN,
                 NEW q \in Passwords \union {Weak}, FindOtp(r, p, o, match, q)
          PROVE  \E m : Become(r, m) /\ m.pc \notin {"loginCompare", "loginWrite"}
      BY <3>1, Labels DEF FindOtp
    <3>2. CASE CompareOtp(r)
      BY <3>2, Labels DEF CompareOtp
    <3>3. CASE WriteOtp(r)
      <4>1. \/ Become(r, Idle)
            \/ Become(r, Setting("load", requests[r].password))
            \/ Become(r, Setting("begin", requests[r].password))
        BY <3>3 DEF WriteOtp, Acceptable
      <4> QED
        BY <4>1, Labels
    <3> QED
      BY <1>3, <3>1, <3>2, <3>3 DEF VerifyCode
  <2> QED
    BY <1>1, <2>1, <2>2
<1>4. ASSUME NEW r \in Requests, ChangePassword(r)
      PROVE  PasswordsKept'
  <2>1. CASE BeginRegister(r)
    <3>1. \E m : Become(r, m) /\ m.pc \notin {"loginCompare", "loginWrite"}
      BY <2>1 DEF BeginRegister, Idle, Setting
    <3> QED
      BY <1>1, <2>1, <3>1 DEF BeginRegister
  <2>2. CASE LoadForReset(r)
    <3>1. \E m : Become(r, m) /\ m.pc \notin {"loginCompare", "loginWrite"}
      BY <2>2 DEF LoadForReset, Acceptable, Idle, Setting
    <3> QED
      BY <1>1, <2>2, <3>1 DEF LoadForReset, Acceptable
  <2>3. CASE CommitRegister(r) \/ SaveReset(r)
    <3>1. requests[r].password \in Passwords
      BY <2>3, Shapes DEF CommitRegister, SaveReset, SettingStates, TypeOK
    <3> QED
      BY <2>3, <3>1, PasswordsSet DEF CommitRegister, SaveReset
  <2> QED
    BY <1>4, <2>1, <2>2, <2>3 DEF ChangePassword
<1>5. ASSUME NEW r \in Requests, Abandon(r)
      PROVE  PasswordsKept'
  BY <1>1, <1>5 DEF Abandon, Idle
<1>6. ASSUME NEW o \in Codes, ExpireOtp(o)
      PROVE  PasswordsKept'
  BY <1>6, PasswordsQuiet DEF ExpireOtp
<1>7. CASE UNCHANGED vars
  BY <1>7, PasswordsQuiet DEF vars
<1> QED
  BY <1>2, <1>3, <1>4, <1>5, <1>6, <1>7, PasswordsLogIn DEF Next

-----------------------------------------------------------------------------
(* Codes.                                                                  *)

CodesKept == /\ Unissued /\ HeldAlone /\ UnusedIsNewest
             /\ CodeUsedOnce /\ GuessesBounded /\ NewestOnly

\* A step that leaves the codes alone, and no request takes one or is about
\* to issue one that was not before.
LEMMA CodesQuiet ==
  ASSUME CodesKept, UNCHANGED <<otps, issued, history>>,
         \A s \in Requests :
           requests'[s].pc \in {"compare", "write", "issue"} =>
             requests'[s] = requests[s]
  PROVE  CodesKept'
<1>1. UNCHANGED <<uses, wrong, raced, late>>
  BY DEF history
<1>2. ASSUME NEW o \in Codes PROVE Holders(o)' \subseteq Holders(o)
  BY DEF Holders
<1>3. Unissued'
  BY <1>1, <1>2 DEF CodesKept, Unissued, Held
<1>4. HeldAlone'
  <2> SUFFICES ASSUME NEW o \in Codes, o \notin raced
               PROVE  /\ uses[o] # 0 => otps[o].consumed
                      /\ wrong[o] = otps[o].attempts
                      /\ \A r \in Holders(o)' :
                           LET m == requests'[r] IN
                           /\ otps[o].present /\ ~otps[o].consumed /\ otps[o].attempts < MaxAttempts
                           /\ m.attempts = IF m.consumed THEN otps[o].attempts
                                           ELSE otps[o].attempts + 1
                           /\ m.pc = "write" =>
                                m.change = IF m.consumed THEN {"consumed"} ELSE {"attempts"}
                           /\ Holders(o)' = {r}
    BY <1>1 DEF HeldAlone
  <2>1. /\ uses[o] # 0 => otps[o].consumed
        /\ wrong[o] = otps[o].attempts
    BY DEF CodesKept, HeldAlone
  <2>2. ASSUME NEW r \in Holders(o)'
        PROVE  requests'[r] = requests[r] /\ r \in Holders(o) /\ Holders(o)' = {r}
    <3>1. r \in Holders(o) /\ requests'[r] = requests[r]
      BY <2>2 DEF Holders
    <3>2. Holders(o) = {r}
      BY <3>1 DEF CodesKept, HeldAlone
    <3> QED
      BY <1>2, <2>2, <3>1, <3>2
  <2> QED
    BY <2>1, <2>2 DEF CodesKept, HeldAlone
<1>5. UnusedIsNewest'
  <2>1. ASSUME NEW o \in Codes, o \notin raced, otps[o].present, ~otps[o].consumed
        PROVE  /\ \A n \in Codes : o < n /\ n <= issued => otps[n].purpose # otps[o].purpose
               /\ \A r \in Requests :
                    requests'[r].pc = "issue" => requests'[r].purpose # otps[o].purpose
    BY <2>1 DEF CodesKept, UnusedIsNewest
  <2> QED
    BY <1>1, <2>1 DEF UnusedIsNewest
<1> QED
  BY <1>1, <1>3, <1>4, <1>5 DEF CodesKept, CodeUsedOnce, GuessesBounded, NewestOnly

\* A step of request r, which neither holds a code nor is about to issue one
\* afterwards.
LEMMA CodesLeft ==
  ASSUME TypeOK, CodesKept, NEW r \in Requests, NEW m, Become(r, m),
         m.pc \notin {"compare", "write", "issue"}, UNCHANGED <<otps, issued, history>>
  PROVE  CodesKept'
<1>1. \A s \in Requests : requests'[s] = IF s = r THEN m ELSE requests[s]
  BY DEF Become, TypeOK
<1> QED
  BY <1>1, CodesQuiet

LEMMA CodesDelete ==
  ASSUME TypeOK, CodesKept, NEW r \in Requests, DeleteUnused(r)
  PROVE  CodesKept'
<1> DEFINE p == requests[r].purpose
<1>1. /\ \A o \in Codes : otps'[o] = IF o \in Unused(p)
                                     THEN [otps[o] EXCEPT !.present = FALSE]
                                     ELSE otps[o]
      /\ raced' = raced \union {o \in Codes : Held(o) /\ otps[o].purpose = p}
      /\ UNCHANGED <<issued, uses, wrong, late>>
  BY DEF DeleteUnused
<1>2. p \in Purposes
  BY Shapes DEF DeleteUnused, AskingStates, TypeOK
<1>3. /\ requests'[r] = Asking("issue", p)
      /\ \A s \in Requests : s # r => requests'[s] = requests[s]
  BY DEF DeleteUnused, Become, TypeOK
<1>4. ASSUME NEW o \in Codes PROVE Holders(o)' = Holders(o)
  BY <1>3 DEF Holders, Asking, DeleteUnused
<1>5. ASSUME NEW o \in Codes
      PROVE  /\ otps'[o].consumed = otps[o].consumed
             /\ otps'[o].attempts = otps[o].attempts
             /\ otps'[o].purpose = otps[o].purpose
             /\ otps'[o].present => otps[o].present /\ o \notin Unused(p)
             /\ otps'[o].present # otps[o].present => o \in Unused(p)
  <2>1. otps[o] \in Otp
    BY DEF TypeOK
  <2> QED
    BY <1>1, <2>1 DEF Otp, Unused
<1>6. Unissued'
  <2> SUFFICES ASSUME NEW o \in Codes, o > issued
               PROVE  otps'[o] = NoOtp /\ uses[o] = 0 /\ wrong[o] = 0 /\ Holders(o)' = {}
    BY <1>1 DEF Unissued, Held
  <2>1. otps[o] = NoOtp /\ uses[o] = 0 /\ wrong[o] = 0 /\ Holders(o) = {}
    BY DEF CodesKept, Unissued, Held
  <2>2. o \notin Unused(p)
    BY <2>1 DEF Unused, NoOtp
  <2> QED
    BY <1>1, <1>4, <2>1, <2>2
<1>7. HeldAlone'
  <2> SUFFICES ASSUME NEW o \in Codes, o \notin raced'
               PROVE  /\ uses[o] # 0 => otps'[o].consumed
                      /\ wrong[o] = otps'[o].attempts
                      /\ \A s \in Holders(o)' :
                           LET m == requests'[s] IN
                           /\ otps'[o].present /\ ~otps'[o].consumed /\ otps'[o].attempts < MaxAttempts
                           /\ m.attempts = IF m.consumed THEN otps'[o].attempts
                                           ELSE otps'[o].attempts + 1
                           /\ m.pc = "write" =>
                                m.change = IF m.consumed THEN {"consumed"} ELSE {"attempts"}
                           /\ Holders(o)' = {s}
    BY <1>1 DEF HeldAlone
  <2>1. o \notin raced
    BY <1>1
  <2>2. /\ uses[o] # 0 => otps[o].consumed
        /\ wrong[o] = otps[o].attempts
    BY <2>1 DEF CodesKept, HeldAlone
  <2>3. ASSUME NEW s \in Holders(o)
        PROVE  /\ requests'[s] = requests[s]
               /\ otps'[o] = otps[o]
    <3>1. s # r /\ s \in Requests
      BY <2>3 DEF Holders, DeleteUnused
    <3>2. otps[o].purpose # p
      BY <1>1, <2>3 DEF Held
    <3> QED
      BY <1>1, <1>3, <3>1, <3>2 DEF Unused
  <2>4. \A s \in Holders(o) :
          LET m == requests[s] IN
          /\ otps[o].present /\ ~otps[o].consumed /\ otps[o].attempts < MaxAttempts
          /\ m.attempts = IF m.consumed THEN otps[o].attempts
                          ELSE otps[o].attempts + 1
          /\ m.pc = "write" =>
               m.change = IF m.consumed THEN {"consumed"} ELSE {"attempts"}
          /\ Holders(o) = {s}
    BY <2>1 DEF CodesKept, HeldAlone
  <2> QED
    BY <1>4, <1>5, <2>2, <2>3, <2>4
<1>8. UnusedIsNewest'
  <2> SUFFICES ASSUME NEW o \in Codes, o \notin raced', otps'[o].present,
                      ~otps'[o].consumed
               PROVE  /\ \A n \in Codes : o < n /\ n <= issued =>
                                          otps'[n].purpose # otps'[o].purpose
                      /\ \A s \in Requests : requests'[s].pc = "issue" =>
                           requests'[s].purpose # otps'[o].purpose
    BY <1>1 DEF UnusedIsNewest
  <2>1. o \notin raced /\ otps[o].present /\ ~otps[o].consumed /\ otps[o].purpose # p
    BY <1>1, <1>5 DEF Unused
  <2>2. /\ \A n \in Codes : o < n /\ n <= issued => otps[n].purpose # otps[o].purpose
        /\ \A s \in Requests : requests[s].pc = "issue" =>
                                 requests[s].purpose # otps[o].purpose
    BY <2>1 DEF CodesKept, UnusedIsNewest
  <2>3. ASSUME NEW s \in Requests, requests'[s].pc = "issue"
        PROVE  requests'[s].purpose # otps[o].purpose
    BY <1>3, <2>1, <2>2, <2>3 DEF Asking
  <2> QED
    BY <1>5, <2>2, <2>3
<1> QED
  BY <1>1, <1>6, <1>7, <1>8
     DEF CodesKept, CodeUsedOnce, GuessesBounded, NewestOnly

\* What HeldAlone says of one code.
Alone(o) ==
  /\ uses[o] # 0 => otps[o].consumed
  /\ wrong[o] = otps[o].attempts
  /\ \A r \in Holders(o) :
       LET m == requests[r] IN
       /\ otps[o].present /\ ~otps[o].consumed /\ otps[o].attempts < MaxAttempts
       /\ m.attempts = IF m.consumed THEN otps[o].attempts ELSE otps[o].attempts + 1
       /\ m.pc = "write" =>
            m.change = IF m.consumed THEN {"consumed"} ELSE {"attempts"}
       /\ Holders(o) = {r}

LEMMA AloneFact == HeldAlone <=> \A o \in Codes : o \notin raced => Alone(o)
BY DEF HeldAlone, Alone

LEMMA AloneNext == HeldAlone' <=> \A o \in Codes : o \notin raced' => Alone(o)'
BY DEF HeldAlone, Alone

\* A code whose row, counts and holders a step leaves alone.
LEMMA AloneSame ==
  ASSUME NEW o \in Codes, Alone(o), otps'[o] = otps[o], uses'[o] = uses[o],
         wrong'[o] = wrong[o], Holders(o)' = Holders(o),
         \A s \in Holders(o) : requests'[s] = requests[s]
  PROVE  Alone(o)'
BY DEF Alone

LEMMA CodesIssue ==
  ASSUME TypeOK, CodesKept, NEW r \in Requests, IssueOtp(r)
  PROVE  CodesKept'
<1> DEFINE p == requests[r].purpose
           n == issued + 1
<1>1. /\ otps' = [otps EXCEPT ![n] = [purpose |-> p, present |-> TRUE, attempts |-> 0,
                                     consumed |-> FALSE, expired |-> FALSE]]
      /\ issued' = n /\ requests[r].pc = "issue" /\ issued < MaxCodes
      /\ raced \subseteq raced' /\ raced' \subseteq raced \union {n}
      /\ UNCHANGED <<uses, wrong, late>>
  BY DEF IssueOtp
<1>2. n \in Codes /\ issued \in Nat
  BY <1>1, CodeAssumption DEF Codes, TypeOK
<1>3. /\ requests'[r] = Idle
      /\ \A s \in Requests : s # r => requests'[s] = requests[s]
  BY DEF IssueOtp, Become, TypeOK
<1>4. ASSUME NEW o \in Codes PROVE Holders(o)' = Holders(o)
  BY <1>1, <1>3 DEF Holders, Idle
<1>5. \A o \in Codes : o # n => otps'[o] = otps[o]
  BY <1>1 DEF TypeOK
<1>6. otps'[n] = [purpose |-> p, present |-> TRUE, attempts |-> 0,
                  consumed |-> FALSE, expired |-> FALSE]
  BY <1>1, <1>2 DEF TypeOK
<1>7. otps[n] = NoOtp /\ uses[n] = 0 /\ wrong[n] = 0 /\ Holders(n) = {}
  BY <1>2 DEF CodesKept, Unissued, Held
<1> HIDE DEF n
<1>8. Unissued'
  <2> SUFFICES ASSUME NEW o \in Codes, o > issued'
               PROVE  otps'[o] = NoOtp /\ uses'[o] = 0 /\ wrong'[o] = 0 /\ Holders(o)' = {}
    BY DEF Unissued, Held
  <2>1. o # n /\ o > issued
    BY <1>1, <1>2 DEF n, Codes
  <2> QED
    BY <1>1, <1>4, <1>5, <2>1 DEF CodesKept, Unissued, Held
<1>9. HeldAlone'
  <2> SUFFICES ASSUME NEW o \in Codes, o \notin raced' PROVE Alone(o)'
    BY AloneNext
  <2>1. Alone(o)
    BY <1>1, AloneFact DEF CodesKept
  <2>2. CASE o = n
    BY <1>1, <1>4, <1>6, <1>7, <2>2 DEF Alone
  <2>3. CASE o # n
    <3>1. \A s \in Holders(o) : requests'[s] = requests[s]
      BY <1>1, <1>3 DEF Holders
    <3> QED
      BY <1>1, <1>4, <1>5, <2>1, <2>3, <3>1, AloneSame
  <2> QED
    BY <2>2, <2>3
<1>10. UnusedIsNewest'
  <2> SUFFICES ASSUME NEW o \in Codes, o \notin raced', otps'[o].present,
                      ~otps'[o].consumed
               PROVE  /\ \A k \in Codes : o < k /\ k <= issued' =>
                                          otps'[k].purpose # otps'[o].purpose
                      /\ \A s \in Requests : requests'[s].pc = "issue" =>
                           requests'[s].purpose # otps'[o].purpose
    BY DEF UnusedIsNewest
  <2>1. CASE o = n
    <3>1. \A k \in Codes : ~(o < k /\ k <= issued')
      BY <1>1, <1>2, <2>1 DEF Codes
    <3>2. ASSUME NEW s \in Requests, requests'[s].pc = "issue"
          PROVE  requests'[s].purpose # p
      <4>1. s # r /\ requests[s].pc = "issue" /\ requests'[s] = requests[s]
        BY <1>3, <3>2 DEF Idle
      <4>2. requests[s].purpose = p => n \in raced'
        BY <4>1 DEF IssueOtp, n
      <4> QED
        BY <2>1, <4>1, <4>2
    <3> QED
      BY <1>6, <2>1, <3>1, <3>2
  <2>2. CASE o # n
    <3>1. /\ \A k \in Codes : o < k /\ k <= issued => otps[k].purpose # otps[o].purpose
          /\ \A s \in Requests : requests[s].pc = "issue" =>
               requests[s].purpose # otps[o].purpose
      BY <1>1, <1>5, <2>2 DEF CodesKept, UnusedIsNewest
    <3>2. p # otps[o].purpose
      BY <1>1, <3>1
    <3>3. ASSUME NEW k \in Codes, o < k, k <= issued'
          PROVE  otps'[k].purpose # otps'[o].purpose
      <4>1. CASE k = n
        BY <1>5, <1>6, <2>2, <3>2, <4>1
      <4>2. CASE k # n
        <5>1. k <= issued
          BY <1>1, <1>2, <3>3, <4>2 DEF Codes, n
        <5> QED
          BY <1>5, <2>2, <3>1, <3>3, <4>2, <5>1
      <4> QED
        BY <4>1, <4>2
    <3>4. ASSUME NEW s \in Requests, requests'[s].pc = "issue"
          PROVE  requests'[s].purpose # otps'[o].purpose
      BY <1>3, <1>5, <2>2, <3>1, <3>4 DEF Idle
    <3> QED
      BY <3>3, <3>4
  <2> QED
    BY <2>1, <2>2
<1> QED
  BY <1>1, <1>8, <1>9, <1>10
     DEF CodesKept, CodeUsedOnce, GuessesBounded, NewestOnly

LEMMA CodesExpire ==
  ASSUME TypeOK, CodesKept, NEW e \in Codes, ExpireOtp(e)
  PROVE  CodesKept'
<1>1. /\ UNCHANGED <<issued, requests, uses, wrong, raced, late>>
      /\ otps[e].present
      /\ otps' = [otps EXCEPT ![e].expired = TRUE]
  BY DEF ExpireOtp, history
<1>2. \A o \in Codes : /\ otps'[o].present = otps[o].present
                       /\ otps'[o].consumed = otps[o].consumed
                       /\ otps'[o].attempts = otps[o].attempts
                       /\ otps'[o].purpose = otps[o].purpose
                       /\ o # e => otps'[o] = otps[o]
  <2>1. ASSUME NEW o \in Codes PROVE otps[o] \in Otp
    BY DEF TypeOK
  <2> QED
    BY <1>1, <2>1 DEF TypeOK, Otp
<1>3. ASSUME NEW o \in Codes PROVE Holders(o)' = Holders(o)
  BY <1>1 DEF Holders
<1>4. otps[e] # NoOtp
  BY <1>1 DEF NoOtp
<1>5. Unissued'
  BY <1>1, <1>2, <1>3, <1>4 DEF CodesKept, Unissued, Held
<1>6. HeldAlone'
  BY <1>1, <1>2, <1>3, AloneFact, AloneNext DEF Alone, CodesKept
<1>7. UnusedIsNewest'
  BY <1>1, <1>2 DEF CodesKept, UnusedIsNewest
<1> QED
  BY <1>1, <1>5, <1>6, <1>7
     DEF CodesKept, CodeUsedOnce, GuessesBounded, NewestOnly

LEMMA CodesFind ==
  ASSUME TypeOK, CodesKept, NEW r \in Requests, NEW p, NEW o \in Codes,
         NEW match \in BOOLEAN, NEW q, FindOtp(r, p, o, match, q)
  PROVE  CodesKept'
<1> DEFINE a == IF match THEN otps[o].attempts ELSE otps[o].attempts + 1
           m == Saving("compare", o, a, match, {}, IF match THEN q ELSE Weak)
<1>1. /\ UNCHANGED <<otps, issued, uses, wrong>>
      /\ requests[r].pc = "idle"
      /\ o \in Unused(p)
      /\ raced' = IF Held(o) THEN raced \union {o} ELSE raced
      /\ late' = IF match /\ \E n \in Codes : /\ o < n /\ n <= issued
                                              /\ otps[n].purpose = p
                 THEN late \union {o} ELSE late
  BY DEF FindOtp, Newest
<1>2. /\ otps[o].present /\ ~otps[o].consumed /\ otps[o].purpose = p
      /\ otps[o].attempts < MaxAttempts
  BY <1>1 DEF Unused, FindOtp, Usable
<1>3. requests'[r] = m /\ \A s \in Requests : s # r => requests'[s] = requests[s]
  BY DEF FindOtp, Become, TypeOK
<1>4. m.pc = "compare" /\ m.otp = o /\ m.attempts = a /\ m.consumed = match
  BY DEF Saving
<1> HIDE DEF m
<1>5. ASSUME NEW x \in Codes, x # o PROVE Holders(x)' = Holders(x)
  BY <1>1, <1>3, <1>4, <1>5 DEF Holders
<1>6. Holders(o)' = Holders(o) \union {r}
  BY <1>1, <1>3, <1>4 DEF Holders
<1>7. Unissued'
  <2>1. ~(o > issued)
    BY <1>2 DEF CodesKept, Unissued, NoOtp
  <2> QED
    BY <1>1, <1>5, <2>1 DEF CodesKept, Unissued, Held
<1>8. HeldAlone'
  <2> SUFFICES ASSUME NEW x \in Codes, x \notin raced' PROVE Alone(x)'
    BY AloneNext
  <2>1. x \notin raced /\ Alone(x)
    BY <1>1, AloneFact DEF CodesKept
  <2>2. CASE x = o
    <3>1. Holders(o) = {} /\ Holders(o)' = {r}
      BY <1>1, <1>6, <2>2 DEF Held
    <3> QED
      BY <1>1, <1>2, <1>3, <1>4, <2>1, <2>2, <3>1 DEF Alone
  <2>3. CASE x # o
    <3>1. \A s \in Holders(x) : requests'[s] = requests[s]
      BY <1>1, <1>3 DEF Holders
    <3> QED
      BY <1>1, <1>5, <2>1, <2>3, <3>1, AloneSame
  <2> QED
    BY <2>2, <2>3
<1>9. UnusedIsNewest'
  BY <1>1, <1>3, <1>4 DEF CodesKept, UnusedIsNewest
<1>10. NewestOnly'
  BY <1>1, <1>2 DEF CodesKept, UnusedIsNewest, NewestOnly
<1> QED
  BY <1>1, <1>7, <1>8, <1>9, <1>10 DEF CodesKept, CodeUsedOnce, GuessesBounded

LEMMA CodesCompare ==
  ASSUME TypeOK, CodesKept, NEW r \in Requests, CompareOtp(r)
  PROVE  CodesKept'
<1> DEFINE m == requests[r]
           o == m.otp
           change == IF ~otps[o].present THEN {"row"}
                     ELSE {col \in {"attempts", "consumed"} :
                             m[col] # otps[o][col] \/ (col = "consumed" /\ m[col])}
           new == Saving("write", o, m.attempts, m.consumed, change, m.password)
<1>1. m \in SavingStates
  BY Shapes DEF CompareOtp, TypeOK
<1>2. /\ UNCHANGED <<otps, issued, uses, wrong, raced, late>>
      /\ m.pc = "compare"
      /\ requests'[r] = new
      /\ \A s \in Requests : s # r => requests'[s] = requests[s]
  BY DEF CompareOtp, Become, TypeOK, history
<1>3. /\ new.pc = "write" /\ new.otp = o /\ new.attempts = m.attempts
      /\ new.consumed = m.consumed /\ new.change = change
  BY DEF Saving
<1>4. o \in Codes /\ m.consumed \in BOOLEAN
  BY <1>1 DEF SavingStates
<1> HIDE DEF new
<1>5. ASSUME NEW x \in Codes PROVE Holders(x)' = Holders(x)
  BY <1>2, <1>3 DEF Holders
<1>6. HeldAlone'
  <2> SUFFICES ASSUME NEW x \in Codes, x \notin raced' PROVE Alone(x)'
    BY AloneNext
  <2>1. Alone(x)
    BY <1>2, AloneFact DEF CodesKept
  <2>2. CASE r \in Holders(x)
    <3>1. x = o
      BY <2>2 DEF Holders
    <3>2. /\ otps[o].present /\ ~otps[o].consumed /\ otps[o].attempts < MaxAttempts
          /\ m.attempts = IF m.consumed THEN otps[o].attempts ELSE otps[o].attempts + 1
          /\ Holders(o) = {r}
      BY <2>1, <2>2, <3>1 DEF Alone
    <3>3. change = IF m.consumed THEN {"consumed"} ELSE {"attempts"}
      <4>1. change = {col \in {"attempts", "consumed"} :
                        m[col] # otps[o][col] \/ (col = "consumed" /\ m[col])}
        BY <3>2
      <4>2. "attempts" \in change <=> m.attempts # otps[o].attempts
        BY <4>1
      <4>3. "consumed" \in change <=> m.consumed
        <5>1. otps[o].consumed = FALSE
          BY <1>4, <3>2 DEF TypeOK, Otp
        <5> QED
          BY <1>4, <4>1, <5>1
      <4>4. change \subseteq {"attempts", "consumed"}
        BY <4>1
      <4>5. m.attempts # otps[o].attempts <=> ~m.consumed
        <5>1. otps[o].attempts \in Nat
          BY <1>4 DEF TypeOK, Otp
        <5> QED
          BY <3>2, <5>1
      <4> HIDE DEF change
      <4> QED
        BY <4>2, <4>3, <4>4, <4>5
    <3> HIDE DEF change, m, o
    <3> QED
      BY <1>2, <1>3, <1>4, <1>5, <2>1, <2>2, <3>1, <3>2, <3>3 DEF Alone
  <2>3. CASE r \notin Holders(x)
    <3>1. \A s \in Holders(x) : requests'[s] = requests[s]
      BY <1>2, <2>3 DEF Holders
    <3> QED
      BY <1>2, <1>5, <2>1, <3>1, AloneSame
  <2> QED
    BY <2>2, <2>3
<1>7. Unissued'
  BY <1>2, <1>5 DEF CodesKept, Unissued, Held
<1>8. UnusedIsNewest'
  BY <1>2, <1>3 DEF CodesKept, UnusedIsNewest
<1> QED
  BY <1>2, <1>6, <1>7, <1>8
     DEF CodesKept, CodeUsedOnce, GuessesBounded, NewestOnly

\* A code that no two requests worked on is saved as its holder has it.
LEMMA WriteAlone ==
  ASSUME TypeOK, CodesKept, NEW r \in Requests, WriteOtp(r), requests[r].otp \notin raced
  PROVE  LET m == requests[r]
             o == m.otp
         IN
         /\ otps[o].present /\ ~otps[o].consumed /\ otps[o].attempts < MaxAttempts
         /\ m.attempts = IF m.consumed THEN otps[o].attempts ELSE otps[o].attempts + 1
         /\ Holders(o) = {r} /\ uses[o] = 0 /\ wrong[o] = otps[o].attempts
         /\ otps'[o].present /\ otps'[o].consumed = m.consumed
         /\ otps'[o].attempts = m.attempts
         /\ otps'[o].purpose = otps[o].purpose /\ otps'[o].expired = otps[o].expired
         /\ uses'[o] = IF m.consumed THEN 1 ELSE 0
         /\ wrong'[o] = IF m.consumed THEN wrong[o]
                        ELSE Least(wrong[o] + 1, MaxAttempts + 1)
<1> DEFINE m == requests[r]
           o == m.otp
<1>1. m \in SavingStates /\ m.pc = "write"
  BY Shapes DEF WriteOtp, Acceptable, TypeOK
<1>2. o \in Codes /\ m.consumed \in BOOLEAN
  BY <1>1 DEF SavingStates
<1>3. r \in Holders(o)
  BY <1>1 DEF Holders
<1>4. /\ otps[o].present /\ ~otps[o].consumed /\ otps[o].attempts < MaxAttempts
      /\ m.attempts = IF m.consumed THEN otps[o].attempts ELSE otps[o].attempts + 1
      /\ m.change = IF m.consumed THEN {"consumed"} ELSE {"attempts"}
      /\ Holders(o) = {r} /\ uses[o] = 0 /\ wrong[o] = otps[o].attempts
  BY <1>1, <1>2, <1>3, AloneFact DEF CodesKept, Alone
<1>5. otps' = [otps EXCEPT ![o] = Saved(m)]
  BY <1>4 DEF WriteOtp, Acceptable
<1>6. /\ Saved(m).present
      /\ Saved(m).consumed = m.consumed
      /\ Saved(m).attempts = m.attempts
      /\ Saved(m).purpose = otps[o].purpose /\ Saved(m).expired = otps[o].expired
  <2>1. otps[o] \in Otp
    BY <1>2 DEF TypeOK
  <2>2. CASE m.consumed
    <3>1. m.change = {"consumed"}
      BY <1>4, <2>2
    <3>2. Saved(m) = [otps[o] EXCEPT !.present = TRUE,
                                     !.attempts = otps[o].attempts,
                                     !.consumed = m.consumed]
      BY <1>4, <3>1 DEF Saved
    <3> QED
      BY <1>4, <2>1, <2>2, <3>2 DEF Otp
  <2>3. CASE ~m.consumed
    <3>1. m.change = {"attempts"}
      BY <1>4, <2>3
    <3>2. Saved(m) = [otps[o] EXCEPT !.present = TRUE,
                                     !.attempts = m.attempts,
                                     !.consumed = otps[o].consumed]
      BY <1>4, <3>1 DEF Saved
    <3>3. otps[o].consumed = FALSE /\ m.consumed = FALSE
      BY <1>2, <1>4, <2>1, <2>3 DEF Otp
    <3> QED
      BY <2>1, <3>2, <3>3 DEF Otp
  <2> QED
    BY <2>2, <2>3
<1>7. otps'[o] = Saved(m)
  BY <1>2, <1>5 DEF TypeOK
<1>8. /\ uses'[o] = (IF m.consumed THEN 1 ELSE 0)
      /\ wrong'[o] = (IF m.consumed THEN wrong[o]
                      ELSE Least(wrong[o] + 1, MaxAttempts + 1))
  <2>1. Least(uses[o] + 1, 2) = 1
    BY <1>4 DEF Least
  <2> QED
    BY <1>2, <1>4, <2>1 DEF WriteOtp, Acceptable, TypeOK
<1> QED
  BY <1>4, <1>6, <1>7, <1>8

LEMMA CodesWrite ==
  ASSUME TypeOK, CodesKept, NEW r \in Requests, WriteOtp(r)
  PROVE  CodesKept'
<1> DEFINE m == requests[r]
           o == m.otp
<1>1. m \in SavingStates /\ m.pc = "write"
  BY Shapes DEF WriteOtp, Acceptable, TypeOK
<1>2. o \in Codes /\ m.consumed \in BOOLEAN /\ m.attempts \in 0 .. MaxAttempts
  BY <1>1 DEF SavingStates
<1>3. UNCHANGED <<issued, raced, late>>
  BY DEF WriteOtp, Acceptable
<1>4. PICK new : Become(r, new) /\ new.pc \notin {"compare", "write", "issue"}
  <2>1. \/ Become(r, Idle)
        \/ Become(r, Setting("load", requests[r].password))
        \/ Become(r, Setting("begin", requests[r].password))
    BY DEF WriteOtp, Acceptable
  <2> QED
    BY <2>1, Labels
<1>5. \A s \in Requests : requests'[s] = IF s = r THEN new ELSE requests[s]
  BY <1>4 DEF Become, TypeOK
<1>6. \A x \in Codes : Holders(x)' = Holders(x) \ {r}
  BY <1>4, <1>5 DEF Holders
<1>7. r \in Holders(o)
  BY <1>1 DEF Holders
<1>8. \A x \in Codes : x # o => /\ otps'[x] = otps[x]
                               /\ uses'[x] = uses[x] /\ wrong'[x] = wrong[x]
  BY DEF WriteOtp, Acceptable, TypeOK
<1>9. otps'[o] = otps[o] \/ otps'[o] = Saved(m)
  BY <1>2 DEF WriteOtp, Acceptable, TypeOK
<1>10. otps'[o].purpose = otps[o].purpose
  <2>1. otps[o] \in Otp
    BY <1>2 DEF TypeOK
  <2> QED
    BY <1>9, <2>1 DEF Saved, Otp
<1>11. CASE o \in raced
  <2>1. uses' = uses /\ wrong' = wrong
    BY <1>11 DEF WriteOtp, Acceptable
  <2>2. HeldAlone'
    <3> SUFFICES ASSUME NEW x \in Codes, x \notin raced' PROVE Alone(x)'
      BY AloneNext
    <3>1. Alone(x) /\ x # o
      BY <1>3, <1>11, AloneFact DEF CodesKept
    <3>2. Holders(x)' = Holders(x)
      BY <1>1, <1>6, <3>1 DEF Holders
    <3>3. \A s \in Holders(x) : requests'[s] = requests[s]
      BY <1>5, <3>1 DEF Holders
    <3> QED
      BY <1>8, <2>1, <3>1, <3>2, <3>3, AloneSame
  <2>3. UnusedIsNewest'
    <3> SUFFICES ASSUME NEW x \in Codes, x \notin raced, otps'[x].present,
                        ~otps'[x].consumed
                 PROVE  /\ \A n \in Codes : x < n /\ n <= issued =>
                                            otps'[n].purpose # otps'[x].purpose
                        /\ \A s \in Requests : requests'[s].pc = "issue" =>
                             requests'[s].purpose # otps'[x].purpose
      BY <1>3 DEF UnusedIsNewest
    <3>1. x # o /\ otps'[x] = otps[x]
      BY <1>8, <1>11
    <3>2. \A n \in Codes : otps'[n].purpose = otps[n].purpose
      BY <1>8, <1>10
    <3> QED
      BY <1>4, <1>5, <3>1, <3>2 DEF CodesKept, UnusedIsNewest
  <2> QED
    <3>1. Unissued'
      <4>1. ~(o > issued)
        BY <1>2, <1>7 DEF CodesKept, Unissued, Held
      <4> QED
        BY <1>3, <1>6, <1>8, <4>1 DEF CodesKept, Unissued, Held
    <3> QED
      BY <1>3, <2>1, <2>2, <2>3, <3>1
         DEF CodesKept, CodeUsedOnce, GuessesBounded, NewestOnly
<1>12. CASE o \notin raced
  <2>1. /\ otps[o].present /\ ~otps[o].consumed /\ otps[o].attempts < MaxAttempts
        /\ m.attempts = IF m.consumed THEN otps[o].attempts ELSE otps[o].attempts + 1
        /\ Holders(o) = {r} /\ wrong[o] = otps[o].attempts
    BY <1>12, WriteAlone
  <2>2. /\ otps'[o].consumed = m.consumed /\ otps'[o].attempts = m.attempts
        /\ otps'[o].purpose = otps[o].purpose
        /\ uses'[o] = (IF m.consumed THEN 1 ELSE 0)
        /\ wrong'[o] = (IF m.consumed THEN wrong[o]
                        ELSE Least(wrong[o] + 1, MaxAttempts + 1))
    BY <1>12, WriteAlone
  <2>3. wrong'[o] = otps'[o].attempts /\ otps'[o].attempts <= MaxAttempts
    <3>1. /\ otps[o].attempts \in 0 .. MaxAttempts
          /\ wrong[o] \in 0 .. MaxAttempts + 1
      BY <1>2 DEF TypeOK, Otp
    <3> HIDE DEF m
    <3> QED
      BY <1>2, <2>1, <2>2, <3>1, AttemptAssumption DEF Least
  <2>4. HeldAlone'
    <3> SUFFICES ASSUME NEW x \in Codes, x \notin raced' PROVE Alone(x)'
      BY AloneNext
    <3>1. CASE x = o
      <4>1. Holders(x)' = Holders(x) \ {r}
        BY <1>6, <3>1
      <4>2. Holders(x)' = {}
        BY <2>1, <3>1, <4>1
      <4>3. /\ uses'[x] # 0 => otps'[x].consumed
            /\ wrong'[x] = otps'[x].attempts
        BY <2>2, <2>3, <3>1
      <4> QED
        BY <4>2, <4>3 DEF Alone
    <3>2. CASE x # o
      <4>1. Alone(x)
        BY <1>3, AloneFact DEF CodesKept
      <4>2. Holders(x)' = Holders(x)
        BY <1>1, <1>6, <3>2 DEF Holders
      <4>3. \A s \in Holders(x) : requests'[s] = requests[s]
        BY <1>5, <3>2 DEF Holders
      <4> QED
        BY <1>8, <3>2, <4>1, <4>2, <4>3, AloneSame
    <3> QED
      BY <3>1, <3>2
  <2>5. UnusedIsNewest'
    <3> SUFFICES ASSUME NEW x \in Codes, x \notin raced, otps'[x].present,
                        ~otps'[x].consumed
                 PROVE  /\ \A n \in Codes : x < n /\ n <= issued =>
                                            otps'[n].purpose # otps'[x].purpose
                        /\ \A s \in Requests : requests'[s].pc = "issue" =>
                             requests'[s].purpose # otps'[x].purpose
      BY <1>3 DEF UnusedIsNewest
    <3>1. \A n \in Codes : otps'[n].purpose = otps[n].purpose
      BY <1>8, <1>10
    <3>2. otps[x].present /\ ~otps[x].consumed
      BY <1>8, <2>1
    <3> QED
      BY <1>4, <1>5, <3>1, <3>2 DEF CodesKept, UnusedIsNewest
  <2>6. CodeUsedOnce' /\ GuessesBounded'
    <3>1. ASSUME NEW x \in Codes PROVE uses'[x] <= 1 /\ wrong'[x] <= MaxAttempts
      <4>1. CASE x = o
        <5>1. /\ wrong'[o] = otps'[o].attempts /\ otps'[o].attempts <= MaxAttempts
              /\ wrong'[o] \in Int
          <6>1. wrong[o] \in Int /\ Least(wrong[o] + 1, MaxAttempts + 1) \in Int
            BY <1>2, AttemptAssumption DEF TypeOK, Least
          <6> QED
            BY <2>2, <2>3, <6>1
        <5>2. otps'[o].attempts \in Int
          BY <1>2, <2>2
        <5>3. MaxAttempts \in Int
          BY AttemptAssumption
        <5>4. wrong'[o] <= MaxAttempts
          <6> HIDE DEF o, m
          <6> QED
            BY <5>1, <5>2, <5>3
        <5> QED
          BY <2>2, <4>1, <5>4
      <4>2. CASE x # o
        BY <1>8, <4>2 DEF CodesKept, CodeUsedOnce, GuessesBounded
      <4> QED
        BY <4>1, <4>2
    <3> QED
      BY <3>1 DEF CodeUsedOnce, GuessesBounded
  <2> QED
    <3>1. Unissued'
      <4>1. ~(o > issued)
        BY <1>2, <1>7 DEF CodesKept, Unissued, Held
      <4> QED
        BY <1>3, <1>6, <1>8, <4>1 DEF CodesKept, Unissued, Held
    <3> QED
      BY <1>3, <2>4, <2>5, <2>6, <3>1 DEF CodesKept, NewestOnly
<1> QED
  BY <1>11, <1>12

LEMMA CodesNext ==
  ASSUME TypeOK, CodesKept, [Next]_vars
  PROVE  CodesKept'
<1>1. ASSUME NEW r \in Requests, AskForCode(r) PROVE CodesKept'
  <2>1. CASE DeleteUnused(r)
    BY <2>1, CodesDelete
  <2>2. CASE IssueOtp(r)
    BY <2>2, CodesIssue
  <2>3. CASE RequestRegisterOtp(r)
    <3>1. \E new : Become(r, new) /\ new.pc \notin {"compare", "write", "issue"}
      BY <2>3, Labels DEF RequestRegisterOtp
    <3> QED
      BY <2>3, <3>1, CodesLeft DEF RequestRegisterOtp
  <2>4. CASE InsertPending(r)
    <3>1. \E new : Become(r, new) /\ new.pc \notin {"compare", "write", "issue"}
      BY <2>4, Labels DEF InsertPending
    <3> QED
      BY <2>4, <3>1, CodesLeft DEF InsertPending
  <2>5. CASE RequestForgotPasswordOtp(r)
    <3>1. \E new : Become(r, new) /\ new.pc \notin {"compare", "write", "issue"}
      BY <2>5, Labels DEF RequestForgotPasswordOtp
    <3> QED
      BY <2>5, <3>1, CodesLeft DEF RequestForgotPasswordOtp
  <2> QED
    BY <1>1, <2>1, <2>2, <2>3, <2>4, <2>5 DEF AskForCode
<1>2. ASSUME NEW r \in Requests, VerifyCode(r) PROVE CodesKept'
  BY <1>2, CodesFind, CodesCompare, CodesWrite DEF VerifyCode
<1>3. ASSUME NEW r \in Requests, ChangePassword(r) PROVE CodesKept'
  <2>1. UNCHANGED <<otps, issued, history>>
    BY <1>3 DEF ChangePassword, BeginRegister, CommitRegister, LoadForReset, Acceptable,
         SaveReset, SetPassword
  <2>2. \/ Become(r, Idle)
        \/ Become(r, Setting("commit", requests[r].password))
        \/ Become(r, Setting("reset", requests[r].password))
    BY <1>3 DEF ChangePassword, BeginRegister, CommitRegister, LoadForReset, Acceptable,
         SaveReset, SetPassword
  <2>3. \E new : Become(r, new) /\ new.pc \notin {"compare", "write", "issue"}
    BY <2>2, Labels
  <2> QED
    BY <2>1, <2>3, CodesLeft
<1>4. ASSUME NEW r \in Requests, LogIn(r) PROVE CodesKept'
  <2>1. UNCHANGED <<otps, issued, history>>
    BY <1>4 DEF LogIn, LoadForLogin, CompareLogin, UpdateLoginSignals
  <2>2. \/ Become(r, Idle)
        \/ \E pc \in {"loginCompare", "loginWrite"} : \E q, w :
             Become(r, LoggingIn(pc, q, w))
    BY <1>4 DEF LogIn, LoadForLogin, CompareLogin, UpdateLoginSignals
  <2>3. \A pc, q, w : LoggingIn(pc, q, w).pc = pc
    BY DEF LoggingIn
  <2>4. \E new : Become(r, new) /\ new.pc \notin {"compare", "write", "issue"}
    BY <2>2, <2>3, Labels
  <2> QED
    BY <2>1, <2>4, CodesLeft
<1>5. ASSUME NEW r \in Requests, Abandon(r) PROVE CodesKept'
  BY <1>5, Labels, CodesLeft DEF Abandon
<1>6. CASE UNCHANGED vars
  BY <1>6, CodesQuiet DEF vars, history
<1> QED
  BY <1>1, <1>2, <1>3, <1>4, <1>5, <1>6, CodesExpire DEF Next

-----------------------------------------------------------------------------
LEMMA PasswordsImply == TypeOK /\ PasswordsKept => LatestPassword
BY DEF TypeOK, PasswordsKept, LatestPassword, Verified

LEMMA InvInit == Init => TypeOK /\ PasswordsKept /\ CodesKept
<1> SUFFICES ASSUME Init PROVE TypeOK /\ PasswordsKept /\ CodesKept
  OBVIOUS
<1>1. TypeOK
  BY TypeInit
<1>2. \A r \in Requests : requests[r].pc = "idle"
  BY DEF Init, Idle
<1>3. PasswordsKept
  <2>1. Logins = {}
    BY <1>2 DEF Logins
  <2>2. user # None => user.password \in Passwords /\ user.password = latest
    BY DEF Init
  <2> QED
    BY <2>1, <2>2 DEF PasswordsKept
<1>4. CodesKept
  <2>1. \A o \in Codes : Holders(o) = {}
    BY <1>2 DEF Holders
  <2>2. \A o \in Codes : otps[o] = NoOtp /\ uses[o] = 0 /\ wrong[o] = 0
    BY DEF Init
  <2>3. MaxAttempts \in Nat
    BY AttemptAssumption
  <2>4. HeldAlone
    BY <2>1, <2>2 DEF HeldAlone, NoOtp
  <2>5. UnusedIsNewest
    BY <2>2 DEF UnusedIsNewest, NoOtp
  <2>6. NewestOnly
    BY DEF Init, NewestOnly
  <2> QED
    BY <2>1, <2>2, <2>3, <2>4, <2>5, <2>6
       DEF CodesKept, Unissued, Held, CodeUsedOnce, GuessesBounded
<1> QED
  BY <1>1, <1>3, <1>4

LEMMA InvNext ==
  TypeOK /\ PasswordsKept /\ CodesKept /\ [Next]_vars
    => TypeOK' /\ PasswordsKept' /\ CodesKept'
BY TypeNext, PasswordsNext, CodesNext

LEMMA InvHolds == Spec => [](TypeOK /\ PasswordsKept /\ CodesKept)
BY InvInit, InvNext, PTL DEF Spec

\* The rows and the requests in flight keep their shape; no stored number of
\* attempts exceeds OTP_MAX_ATTEMPTS.
THEOREM AccountTypes == Spec => []TypeOK
BY InvHolds, PTL

\* A code that no two requests worked on at a time lets one request through.
THEOREM CodesUsedOnce == Spec => []CodeUsedOnce
<1>1. CodesKept => CodeUsedOnce
  BY DEF CodesKept
<1> QED
  BY <1>1, InvHolds, PTL

\* Nor are more than OTP_MAX_ATTEMPTS wrong guesses answered for it.
THEOREM GuessesAreBounded == Spec => []GuessesBounded
<1>1. CodesKept => GuessesBounded
  BY DEF CodesKept
<1> QED
  BY <1>1, InvHolds, PTL

\* Nor is it accepted after a newer code of its purpose was issued.
THEOREM OnlyNewestAccepted == Spec => []NewestOnly
<1>1. CodesKept => NewestOnly
  BY DEF CodesKept
<1> QED
  BY <1>1, InvHolds, PTL

\* The stored password of a verified account is the one set last, unless a
\* login was in flight when it was set.
THEOREM PasswordStays == Spec => []LatestPassword
BY InvHolds, PasswordsImply, PTL

\* The whole invariant.
THEOREM AccountInvariant == Spec => []IInv
<1>1. TypeOK /\ PasswordsKept /\ CodesKept => IInv
  BY PasswordsImply DEF CodesKept, IInv
<1> QED
  BY <1>1, InvHolds, PTL
-----------------------------------------------------------------------------
(* The rows implement OneTimeCodes.                                        *)

Matched(o) == \E r \in Holders(o) : requests[r].consumed

\* CodeOf for one code.
Phase(o) ==
  IF o > issued THEN "none"
  ELSE IF o \notin raced /\ otps[o].consumed THEN "used"
  ELSE IF otps[o].expired /\ ~Matched(o) THEN "dead"
  ELSE IF o \in raced THEN "shared"
  ELSE IF ~otps[o].present \/ otps[o].attempts = MaxAttempts THEN "dead" ELSE "open"

Counts == <<PurposeOf, uses, wrong>>

LEMMA Seen ==
  /\ CodeOf = [o \in Codes |-> Phase(o)]
  /\ CodeOf' = [o \in Codes |-> Phase(o)']
BY DEF CodeOf, Phase, Matched

\* A code nothing of which changed but who is working on it.
LEMMA PhaseStays ==
  ASSUME NEW o \in Codes, otps'[o] = otps[o], o > issued' <=> o > issued,
         o \in raced' <=> o \in raced, Matched(o)' <=> Matched(o)
  PROVE  Phase(o)' = Phase(o)
BY DEF Phase

LEMMA NoneMoves ==
  ASSUME \A o \in Codes : Phase(o)' = Phase(o), UNCHANGED Counts
  PROVE  UNCHANGED <<CodeOf, PurposeOf, uses, wrong>>
BY Seen DEF Counts

LEMMA OneMoves ==
  ASSUME NEW o \in Codes, \A x \in Codes \ {o} : Phase(x)' = Phase(x),
         NEW from, NEW to, Phase(o) \in from, Phase(o)' \in to
  PROVE  Abstract!Moves(o, from, to)
<1>1. CodeOf' = [CodeOf EXCEPT ![o] = CodeOf'[o]]
  BY Seen
<1> QED
  BY <1>1, Seen DEF Abstract!Moves

\* At most one code ends.
LEMMA OneEnds ==
  ASSUME NEW o \in Codes, \A x \in Codes \ {o} : Phase(x)' = Phase(x), UNCHANGED Counts,
         \/ Phase(o)' = Phase(o)
         \/ Phase(o) = "open" /\ Phase(o)' \in {"dead", "shared"}
         \/ Phase(o) = "shared" /\ Phase(o)' = "dead"
  PROVE  [Abstract!Next]_<<CodeOf, PurposeOf, uses, wrong>>
<1>1. CASE Phase(o)' = Phase(o)
  <2>1. \A x \in Codes : Phase(x)' = Phase(x)
    BY <1>1
  <2> QED
    BY <2>1, NoneMoves
<1>2. CASE Phase(o) = "open" /\ Phase(o)' \in {"dead", "shared"}
  <2>1. Abstract!Moves(o, {"open"}, {"dead", "shared"})
    BY <1>2, OneMoves
  <2>2. Abstract!End(o)
    BY <2>1 DEF Abstract!End, Counts
  <2> QED
    BY <2>2 DEF Abstract!Next
<1>3. CASE Phase(o) = "shared" /\ Phase(o)' = "dead"
  <2>1. Abstract!Moves(o, {"shared"}, {"dead"})
    BY <1>3, OneMoves
  <2>2. Abstract!End(o)
    BY <2>1 DEF Abstract!End, Counts
  <2> QED
    BY <2>2 DEF Abstract!Next
<1> QED
  BY <1>1, <1>2, <1>3

\* A code that a request holds is open, shared, or has expired under a guess.
LEMMA HeldPhase ==
  ASSUME TypeOK, CodesKept, NEW o \in Codes, Held(o)
  PROVE  /\ ~(o > issued)
         /\ otps[o].expired /\ ~Matched(o) => Phase(o) = "dead"
         /\ ~(otps[o].expired /\ ~Matched(o)) =>
              Phase(o) = IF o \in raced THEN "shared" ELSE "open"
         /\ o \notin raced => ~otps[o].consumed /\ otps[o].present
<1>1. ~(o > issued)
  BY DEF CodesKept, Unissued
<1>2. o \notin raced => /\ otps[o].present /\ ~otps[o].consumed
                        /\ otps[o].attempts < MaxAttempts
  BY AloneFact DEF CodesKept, Alone, Held
<1>3. otps[o].attempts \in Nat /\ MaxAttempts \in Nat
  BY AttemptAssumption DEF TypeOK, Otp
<1> QED
  BY <1>1, <1>2, <1>3 DEF Phase

\* A step of a request that neither takes nor saves a code: it may have been
\* the last one an expired code lived on for.
LEMMA StepLeft ==
  ASSUME TypeOK, CodesKept, NEW r \in Requests, NEW m, Become(r, m),
         m.pc \notin {"compare", "write"}, UNCHANGED <<otps, issued, history>>
  PROVE  [Abstract!Next]_<<CodeOf, PurposeOf, uses, wrong>>
<1>1. \A s \in Requests : requests'[s] = IF s = r THEN m ELSE requests[s]
  BY DEF Become, TypeOK
<1>2. UNCHANGED Counts /\ raced' = raced
  BY DEF Counts, PurposeOf, history
<1>3. \A x \in Codes : r \notin Holders(x) => (Matched(x)' <=> Matched(x))
  BY <1>1 DEF Matched, Holders
<1>4. \A x \in Codes : r \notin Holders(x) => Phase(x)' = Phase(x)
  BY <1>2, <1>3, PhaseStays
<1>5. CASE \A x \in Codes : r \notin Holders(x)
  BY <1>2, <1>4, <1>5, NoneMoves
<1>6. ASSUME NEW o \in Codes, r \in Holders(o)
      PROVE  [Abstract!Next]_<<CodeOf, PurposeOf, uses, wrong>>
  <2>1. \A x \in Codes \ {o} : Phase(x)' = Phase(x)
    BY <1>4, <1>6 DEF Holders
  <2>2. Matched(o)' => Matched(o)
    BY <1>1 DEF Matched, Holders
  <2>3. CASE otps[o].expired /\ Matched(o) /\ ~Matched(o)'
    <3>1. /\ Phase(o) = IF o \in raced THEN "shared" ELSE "open"
          /\ ~(o > issued) /\ (o \notin raced => ~otps[o].consumed)
      BY <1>6, <2>3, HeldPhase DEF Held
    <3>2. Phase(o)' = "dead"
      BY <1>2, <2>3, <3>1 DEF Phase
    <3> QED
      BY <1>2, <2>1, <3>1, <3>2, OneEnds
  <2>4. CASE ~(otps[o].expired /\ Matched(o) /\ ~Matched(o)')
    <3>1. Phase(o)' = Phase(o)
      BY <1>2, <2>2, <2>4 DEF Phase
    <3> QED
      BY <1>2, <2>1, <3>1, OneEnds
  <2> QED
    BY <2>3, <2>4
<1> QED
  BY <1>5, <1>6

LEMMA StepDelete ==
  ASSUME TypeOK, CodesKept, NEW r \in Requests, DeleteUnused(r)
  PROVE  [Abstract!Next]_<<CodeOf, PurposeOf, uses, wrong>>
<1>1. PICK p : p = requests[r].purpose
  OBVIOUS
<1>2. /\ \A o \in Codes : otps'[o] = IF o \in Unused(p)
                                     THEN [otps[o] EXCEPT !.present = FALSE]
                                     ELSE otps[o]
      /\ raced' = raced \union {o \in Codes : Held(o) /\ otps[o].purpose = p}
      /\ UNCHANGED <<issued, uses, wrong, late>>
  BY <1>1 DEF DeleteUnused
<1>3. /\ requests'[r] = Asking("issue", p) /\ requests[r].pc = "delete"
      /\ \A s \in Requests : s # r => requests'[s] = requests[s]
  BY <1>1 DEF DeleteUnused, Become, TypeOK
<1>4. \A o \in Codes : /\ Matched(o)' <=> Matched(o)
                       /\ Held(o)' <=> Held(o)
  BY <1>3 DEF Matched, Held, Holders, Asking
<1>5. \A o \in Codes : /\ otps'[o].consumed = otps[o].consumed
                       /\ otps'[o].attempts = otps[o].attempts
                       /\ otps'[o].purpose = otps[o].purpose
                       /\ otps'[o].expired = otps[o].expired
                       /\ otps'[o].present = (otps[o].present /\ o \notin Unused(p))
  <2>1. \A o \in Codes : otps[o] \in Otp
    BY DEF TypeOK
  <2> QED
    BY <1>2, <2>1 DEF Otp, Unused
<1>6. UNCHANGED Counts
  BY <1>2, <1>5 DEF Counts, PurposeOf
<1>7. ASSUME NEW x \in Codes, x \notin Unused(p) \/ x \in raced
      PROVE  Phase(x)' = Phase(x)
  <2>1. CASE x \in raced
    BY <1>2, <1>4, <1>5, <2>1 DEF Phase
  <2>2. CASE x \notin raced
    <3>1. ~(Held(x) /\ otps[x].purpose = p)
      BY <1>7, <2>2, HeldPhase DEF Unused
    <3> QED
      BY <1>2, <1>4, <1>7, <2>2, <3>1, PhaseStays
  <2> QED
    BY <2>1, <2>2
<1>8. CASE \A x \in Codes : x \notin Unused(p) \/ x \in raced
  BY <1>6, <1>7, <1>8, NoneMoves
<1>9. ASSUME NEW o \in Codes, o \in Unused(p), o \notin raced
      PROVE  [Abstract!Next]_<<CodeOf, PurposeOf, uses, wrong>>
  <2>1. otps[o].present /\ ~otps[o].consumed /\ otps[o].purpose = p
    BY <1>9 DEF Unused
  <2>2. \A x \in Codes : x > issued => x \notin Unused(p)
    BY DEF CodesKept, Unissued, NoOtp, Unused
  <2>3. ASSUME NEW x \in Codes \ {o} PROVE Phase(x)' = Phase(x)
    <3>1. SUFFICES ASSUME x \in Unused(p), x \notin raced PROVE FALSE
      BY <1>7
    <3>2. x < o \/ o < x
      BY <2>3 DEF Codes
    <3>3. x <= issued /\ o <= issued
      BY <1>9, <2>2, <3>1, CodeAssumption DEF Codes, TypeOK
    <3>4. otps[x].present /\ ~otps[x].consumed /\ otps[x].purpose = p
      BY <3>1 DEF Unused
    <3> QED
      BY <1>9, <2>1, <3>1, <3>2, <3>3, <3>4 DEF CodesKept, UnusedIsNewest
  <2>4. CASE Held(o)
    <3>1. o \in raced'
      BY <1>2, <2>1, <2>4
    <3>2. CASE otps[o].expired /\ ~Matched(o)
      <4>1. Phase(o) = "dead" /\ Phase(o)' = "dead"
        BY <1>2, <1>4, <1>5, <2>4, <3>1, <3>2, HeldPhase DEF Phase
      <4> QED
        BY <1>6, <2>3, <4>1, OneEnds
    <3>3. CASE ~(otps[o].expired /\ ~Matched(o))
      <4>1. Phase(o) = "open" /\ Phase(o)' = "shared"
        BY <1>2, <1>4, <1>5, <1>9, <2>4, <3>1, <3>3, HeldPhase DEF Phase
      <4> QED
        BY <1>6, <2>3, <4>1, OneEnds
    <3> QED
      BY <3>2, <3>3
  <2>5. CASE ~Held(o)
    <3>1. o \notin raced' /\ ~otps'[o].present /\ ~otps'[o].consumed
      BY <1>2, <1>5, <1>9, <2>1, <2>5
    <3>2. Phase(o) \in {"open", "dead"} /\ Phase(o)' = "dead"
      BY <1>2, <1>9, <2>1, <2>2, <3>1 DEF Phase
    <3> QED
      BY <1>6, <2>3, <3>2, OneEnds
  <2> QED
    BY <2>4, <2>5
<1> QED
  BY <1>8, <1>9

LEMMA StepIssue ==
  ASSUME TypeOK, CodesKept, NEW r \in Requests, IssueOtp(r)
  PROVE  Abstract!Next
<1>1. PICK p : p = requests[r].purpose
  OBVIOUS
<1>2. PICK n : n = issued + 1
  OBVIOUS
<1>3. /\ otps' = [otps EXCEPT ![n] = [purpose |-> p, present |-> TRUE, attempts |-> 0,
                                     consumed |-> FALSE, expired |-> FALSE]]
      /\ issued' = n /\ requests[r].pc = "issue" /\ issued < MaxCodes
      /\ raced \subseteq raced' /\ raced' \subseteq raced \union {n}
      /\ UNCHANGED <<uses, wrong>>
  BY <1>1, <1>2 DEF IssueOtp
<1>4. n \in Codes /\ issued \in Nat /\ n > issued /\ ~(n > issued')
  BY <1>2, <1>3, CodeAssumption DEF Codes, TypeOK
<1>5. p \in Purposes
  BY <1>1, <1>3, Shapes DEF TypeOK, AskingStates
<1>6. /\ \A o \in Codes : o # n => otps'[o] = otps[o]
      /\ otps'[n] = [purpose |-> p, present |-> TRUE, attempts |-> 0,
                     consumed |-> FALSE, expired |-> FALSE]
  BY <1>3, <1>4 DEF TypeOK
<1>7. /\ requests'[r] = Idle
      /\ \A s \in Requests : s # r => requests'[s] = requests[s]
  BY DEF IssueOtp, Become, TypeOK
<1>8. \A o \in Codes : Matched(o)' <=> Matched(o)
  BY <1>3, <1>7 DEF Matched, Holders, Idle
<1>9. ASSUME NEW x \in Codes \ {n} PROVE Phase(x)' = Phase(x)
  <2>1. x > issued' <=> x > issued
    BY <1>2, <1>3, <1>4 DEF Codes
  <2> QED
    BY <1>3, <1>6, <1>8, <2>1, PhaseStays
<1>10. Phase(n) = "none"
  BY <1>4 DEF Phase
<1>11. Phase(n)' \in {"open", "shared"}
  <2>1. 0 # MaxAttempts
    BY AttemptAssumption
  <2> QED
    BY <1>4, <1>6, <2>1 DEF Phase
<1>12. Abstract!Moves(n, {"none"}, {"open", "shared"})
  BY <1>4, <1>9, <1>10, <1>11, OneMoves
<1>13. ASSUME NEW x \in Codes, CodeOf[x] = "open" PROVE PurposeOf[x] # p
  <2>1. Phase(x) = "open"
    BY <1>13, Seen
  <2>2. x \notin raced /\ otps[x].present /\ ~otps[x].consumed
    BY <2>1 DEF Phase
  <2> QED
    BY <1>1, <1>3, <2>2 DEF CodesKept, UnusedIsNewest, PurposeOf
<1>14. PurposeOf' = [PurposeOf EXCEPT ![n] = p]
  <2>1. \A o \in Codes : otps'[o].purpose = IF o = n THEN p ELSE otps[o].purpose
    BY <1>6
  <2> QED
    BY <1>4, <2>1 DEF PurposeOf
<1>15. Abstract!Issue(n)
  BY <1>3, <1>5, <1>12, <1>13, <1>14 DEF Abstract!Issue
<1> QED
  BY <1>4, <1>15 DEF Abstract!Next

LEMMA StepExpire ==
  ASSUME TypeOK, CodesKept, NEW e \in Codes, ExpireOtp(e)
  PROVE  [Abstract!Next]_<<CodeOf, PurposeOf, uses, wrong>>
<1>1. /\ UNCHANGED <<issued, requests, uses, wrong, raced>>
      /\ otps[e].present
      /\ otps' = [otps EXCEPT ![e].expired = TRUE]
  BY DEF ExpireOtp, history
<1>2. /\ otps'[e].present = otps[e].present
      /\ otps'[e].consumed = otps[e].consumed
      /\ otps'[e].attempts = otps[e].attempts
      /\ otps'[e].expired
      /\ \A o \in Codes : /\ otps'[o].purpose = otps[o].purpose
                          /\ o # e => otps'[o] = otps[o]
  <2>1. \A o \in Codes : otps[o] \in Otp
    BY DEF TypeOK
  <2> QED
    BY <1>1, <2>1 DEF TypeOK, Otp
<1>3. \A o \in Codes : Matched(o)' <=> Matched(o)
  BY <1>1 DEF Matched, Holders
<1>4. UNCHANGED Counts
  BY <1>1, <1>2 DEF Counts, PurposeOf
<1>5. \A x \in Codes \ {e} : Phase(x)' = Phase(x)
  BY <1>1, <1>2, <1>3, PhaseStays
<1>6. ~(e > issued)
  BY <1>1 DEF CodesKept, Unissued, NoOtp
<1>7. \/ Phase(e)' = Phase(e)
      \/ Phase(e) \in {"open", "shared"} /\ Phase(e)' = "dead"
  BY <1>1, <1>2, <1>3, <1>6 DEF Phase
<1> QED
  BY <1>4, <1>5, <1>7, OneEnds

LEMMA StepFind ==
  ASSUME TypeOK, CodesKept, NEW r \in Requests, NEW p, NEW o \in Codes,
         NEW match \in BOOLEAN, NEW q, FindOtp(r, p, o, match, q)
  PROVE  [Abstract!Next]_<<CodeOf, PurposeOf, uses, wrong>>
<1>0. PICK m : m = Saving("compare", o, IF match THEN otps[o].attempts
                                        ELSE otps[o].attempts + 1,
                          match, {}, IF match THEN q ELSE Weak)
  OBVIOUS
<1>1. m.pc = "compare" /\ m.otp = o
  BY <1>0 DEF Saving
<1>2. /\ UNCHANGED <<otps, issued, uses, wrong>>
      /\ requests[r].pc = "idle"
      /\ otps[o].present /\ ~otps[o].consumed /\ ~otps[o].expired
      /\ otps[o].attempts < MaxAttempts
      /\ raced' = IF Held(o) THEN raced \union {o} ELSE raced
  BY DEF FindOtp, Newest, Usable, Unused
<1>3. requests'[r] = m /\ \A s \in Requests : s # r => requests'[s] = requests[s]
  BY <1>0 DEF FindOtp, Become, TypeOK
<1>4. \A x \in Codes \ {o} : Matched(x)' <=> Matched(x)
  BY <1>1, <1>2, <1>3 DEF Matched, Holders
<1>5. \A x \in Codes \ {o} : Phase(x)' = Phase(x)
  BY <1>2, <1>4, PhaseStays
<1>6. UNCHANGED Counts
  BY <1>2 DEF Counts, PurposeOf
<1>7. ~(o > issued)
  BY <1>2 DEF CodesKept, Unissued, NoOtp
<1>8. otps[o].attempts # MaxAttempts
  <2>1. otps[o].attempts \in Nat /\ MaxAttempts \in Nat
    BY AttemptAssumption DEF TypeOK, Otp
  <2> QED
    BY <1>2, <2>1
<1>9. \/ Phase(o)' = Phase(o)
      \/ Phase(o) = "open" /\ Phase(o)' = "shared"
  BY <1>2, <1>7, <1>8 DEF Phase
<1> QED
  BY <1>5, <1>6, <1>9, OneEnds

LEMMA StepCompare ==
  ASSUME TypeOK, CodesKept, NEW r \in Requests, CompareOtp(r)
  PROVE  UNCHANGED <<CodeOf, PurposeOf, uses, wrong>>
<1>1. PICK change : Become(r, Saving("write", requests[r].otp, requests[r].attempts,
                                    requests[r].consumed, change, requests[r].password))
  BY DEF CompareOtp
<1>2. /\ UNCHANGED <<otps, issued, uses, wrong, raced>>
      /\ requests[r].pc = "compare"
      /\ requests'[r].pc = "write" /\ requests'[r].otp = requests[r].otp
      /\ requests'[r].consumed = requests[r].consumed
      /\ \A s \in Requests : s # r => requests'[s] = requests[s]
  BY <1>1 DEF CompareOtp, Become, TypeOK, history, Saving
<1>3. \A x \in Codes : Matched(x)' <=> Matched(x)
  BY <1>2 DEF Matched, Holders
<1>4. \A x \in Codes : Phase(x)' = Phase(x)
  BY <1>2, <1>3, PhaseStays
<1>5. UNCHANGED Counts
  BY <1>2 DEF Counts, PurposeOf
<1> QED
  BY <1>4, <1>5, NoneMoves

LEMMA StepWrite ==
  ASSUME TypeOK, CodesKept, NEW r \in Requests, WriteOtp(r)
  PROVE  [Abstract!Next]_<<CodeOf, PurposeOf, uses, wrong>>
<1>1. PICK o : o = requests[r].otp
  OBVIOUS
<1>2. requests[r] \in SavingStates /\ requests[r].pc = "write"
  BY Shapes DEF WriteOtp, Acceptable, TypeOK
<1>3. o \in Codes /\ requests[r].consumed \in BOOLEAN /\ r \in Holders(o) /\ Held(o)
  BY <1>1, <1>2 DEF SavingStates, Holders, Held
<1>4. UNCHANGED <<issued, raced>>
  BY DEF WriteOtp, Acceptable
<1>5. PICK new : Become(r, new) /\ new.pc \notin {"compare", "write", "issue"}
  <2>1. \/ Become(r, Idle)
        \/ Become(r, Setting("load", requests[r].password))
        \/ Become(r, Setting("begin", requests[r].password))
    BY DEF WriteOtp, Acceptable
  <2> QED
    BY <2>1, Labels
<1>6. \A s \in Requests : requests'[s] = IF s = r THEN new ELSE requests[s]
  BY <1>5 DEF Become, TypeOK
<1>7. \A x \in Codes \ {o} : Matched(x)' <=> Matched(x)
  BY <1>1, <1>5, <1>6 DEF Matched, Holders
<1>8. \A x \in Codes \ {o} : /\ otps'[x] = otps[x]
                             /\ uses'[x] = uses[x] /\ wrong'[x] = wrong[x]
  BY <1>1 DEF WriteOtp, Acceptable, TypeOK
<1>9. \A x \in Codes \ {o} : Phase(x)' = Phase(x)
  BY <1>4, <1>7, <1>8, PhaseStays
<1>10. otps'[o].purpose = otps[o].purpose /\ otps'[o].expired = otps[o].expired
  <2>1. otps[o] \in Otp
    BY <1>3 DEF TypeOK
  <2>2. otps'[o] = otps[o] \/ otps'[o] = Saved(requests[r])
    BY <1>1, <1>3 DEF WriteOtp, Acceptable, TypeOK
  <2> QED
    BY <1>1, <2>1, <2>2 DEF Saved, Otp
<1>11. PurposeOf' = PurposeOf
  BY <1>8, <1>10 DEF PurposeOf
<1>12. CASE o \in raced
  <2>1. UNCHANGED Counts
    BY <1>1, <1>11, <1>12 DEF WriteOtp, Acceptable, Counts
  <2>2. Matched(o)' => Matched(o)
    BY <1>5, <1>6 DEF Matched, Holders
  <2>3. ~(o > issued)
    BY <1>3, HeldPhase
  <2>4. \/ Phase(o)' = Phase(o)
        \/ Phase(o) = "shared" /\ Phase(o)' = "dead"
    BY <1>4, <1>10, <1>12, <2>2, <2>3 DEF Phase
  <2> QED
    BY <1>3, <1>9, <2>1, <2>4, OneEnds
<1>13. CASE o \notin raced
  <2>1. /\ Holders(o) = {r} /\ uses[o] = 0 /\ wrong[o] = otps[o].attempts
        /\ otps[o].attempts < MaxAttempts
        /\ otps'[o].present /\ otps'[o].consumed = requests[r].consumed
        /\ otps'[o].attempts = IF requests[r].consumed THEN otps[o].attempts
                               ELSE otps[o].attempts + 1
        /\ uses'[o] = IF requests[r].consumed THEN 1 ELSE 0
        /\ wrong'[o] = IF requests[r].consumed THEN wrong[o]
                       ELSE Least(wrong[o] + 1, MaxAttempts + 1)
    BY <1>1, <1>13, WriteAlone
  <2>2. wrong[o] \in Nat /\ MaxAttempts \in Nat /\ wrong[o] + 1 \in Nat
    BY <1>3, AttemptAssumption DEF TypeOK
  <2>3. Least(wrong[o] + 1, MaxAttempts + 1) = wrong[o] + 1
    BY <2>1, <2>2 DEF Least
  <2>4. ~(o > issued) /\ (Matched(o) <=> requests[r].consumed) /\ ~Matched(o)'
    BY <1>3, <1>5, <1>6, <2>1, HeldPhase DEF Matched, Holders
  <2>5. CASE requests[r].consumed
    <3>1. Phase(o) = "open"
      BY <1>3, <1>13, <2>4, <2>5, HeldPhase
    <3>2. Phase(o)' = "used"
      BY <1>4, <1>13, <2>1, <2>4, <2>5 DEF Phase
    <3>3. Abstract!Moves(o, {"open"}, {"used"})
      BY <1>3, <1>9, <3>1, <3>2, OneMoves
    <3>4. uses' = [uses EXCEPT ![o] = uses[o] + 1] /\ wrong' = wrong
      <4>1. uses'[o] = uses[o] + 1 /\ wrong'[o] = wrong[o]
        BY <2>1, <2>5
      <4>2. /\ uses \in [Codes -> 0 .. 2] /\ wrong \in [Codes -> 0 .. MaxAttempts + 1]
            /\ uses' = [uses EXCEPT ![o] = Least(uses[o] + 1, 2)] /\ wrong' = wrong
        BY <1>1, <1>2, <1>13, <2>1, <2>5, WriteAlone DEF WriteOtp, Acceptable, TypeOK
      <4> QED
        BY <1>3, <4>1, <4>2
    <3>5. Abstract!Accept(o)
      BY <1>11, <3>3, <3>4 DEF Abstract!Accept
    <3> QED
      BY <1>3, <3>5 DEF Abstract!Next
  <2>6. CASE ~requests[r].consumed
    <3> DEFINE to == IF wrong[o] + 1 = MaxAttempts THEN "dead" ELSE CodeOf[o]
    <3>1. Phase(o) = IF otps[o].expired THEN "dead" ELSE "open"
      BY <1>3, <1>13, <2>4, <2>6, HeldPhase
    <3>2. Phase(o)' = IF otps[o].expired \/ otps'[o].attempts = MaxAttempts
                      THEN "dead" ELSE "open"
      BY <1>4, <1>10, <1>13, <2>1, <2>4, <2>6 DEF Phase
    <3>3. otps'[o].attempts = wrong[o] + 1
      BY <2>1, <2>6
    <3>4. CodeOf[o] = Phase(o)
      BY <1>3, Seen
    <3>5. Phase(o) \in {"open", "dead"} /\ Phase(o)' = to
      BY <3>1, <3>2, <3>3, <3>4
    <3>6. Abstract!Moves(o, {"open", "dead"}, {to})
      BY <1>3, <1>9, <3>5, OneMoves
    <3>7. wrong' = [wrong EXCEPT ![o] = wrong[o] + 1] /\ uses' = uses
      BY <1>1, <1>13, <2>3, <2>6 DEF WriteOtp, Acceptable
    <3>8. wrong[o] < MaxAttempts
      BY <2>1
    <3>9. Abstract!Refuse(o)
      BY <1>11, <3>6, <3>7, <3>8 DEF Abstract!Refuse
    <3> QED
      BY <1>3, <3>9 DEF Abstract!Next
  <2> QED
    BY <2>5, <2>6
<1> QED
  BY <1>12, <1>13

LEMMA StepCodes ==
  TypeOK /\ CodesKept /\ [Next]_vars
    => [Abstract!Next]_<<CodeOf, PurposeOf, uses, wrong>>
<1> SUFFICES ASSUME TypeOK, CodesKept, [Next]_vars
             PROVE  [Abstract!Next]_<<CodeOf, PurposeOf, uses, wrong>>
  OBVIOUS
<1>1. ASSUME NEW r \in Requests,
             \/ RequestRegisterOtp(r) \/ InsertPending(r) \/ RequestForgotPasswordOtp(r)
             \/ ChangePassword(r) \/ LogIn(r) \/ Abandon(r)
      PROVE  [Abstract!Next]_<<CodeOf, PurposeOf, uses, wrong>>
  <2>1. UNCHANGED <<otps, issued, history>>
    BY <1>1 DEF RequestRegisterOtp, InsertPending, RequestForgotPasswordOtp, Abandon,
       ChangePassword, BeginRegister, CommitRegister, LoadForReset, Acceptable,
       SaveReset, SetPassword, LogIn, LoadForLogin, CompareLogin, UpdateLoginSignals
  <2>2. \/ Become(r, Idle)
        \/ \E pc \in {"insert", "delete"} : \E p : Become(r, Asking(pc, p))
        \/ \E pc \in {"commit", "reset"} : \E q : Become(r, Setting(pc, q))
        \/ \E pc \in {"loginCompare", "loginWrite"} : \E q, w :
             Become(r, LoggingIn(pc, q, w))
    BY <1>1 DEF RequestRegisterOtp, InsertPending, RequestForgotPasswordOtp, Abandon,
       ChangePassword, BeginRegister, CommitRegister, LoadForReset, Acceptable,
       SaveReset, SetPassword, LogIn, LoadForLogin, CompareLogin, UpdateLoginSignals
  <2>3. \A pc, q, w : LoggingIn(pc, q, w).pc = pc
    BY DEF LoggingIn
  <2>4. \E new : Become(r, new) /\ new.pc \notin {"compare", "write"}
    BY <2>2, <2>3, Labels
  <2> QED
    BY <2>1, <2>4, StepLeft
<1>2. ASSUME NEW r \in Requests, DeleteUnused(r) \/ IssueOtp(r) \/ VerifyCode(r)
      PROVE  [Abstract!Next]_<<CodeOf, PurposeOf, uses, wrong>>
  BY <1>2, StepDelete, StepIssue, StepFind, StepCompare, StepWrite DEF VerifyCode
<1>3. CASE UNCHANGED vars
  <2>1. \A x \in Codes : Matched(x)' <=> Matched(x)
    BY <1>3 DEF vars, Matched, Holders
  <2>2. UNCHANGED Counts /\ \A x \in Codes : Phase(x)' = Phase(x)
    BY <1>3, <2>1, PhaseStays DEF vars, Counts, PurposeOf
  <2> QED
    BY <2>2, NoneMoves
<1> QED
  BY <1>1, <1>2, <1>3, StepExpire DEF Next, AskForCode

LEMMA InitCodes == Init => Abstract!Init
<1> SUFFICES ASSUME Init PROVE Abstract!Init
  OBVIOUS
<1>1. \A o \in Codes : o > issued
  BY CodeAssumption DEF Init, Codes
<1>2. CodeOf = [o \in Codes |-> "none"]
  BY <1>1, Seen DEF Phase
<1>3. PurposeOf \in [Codes -> Purposes]
  BY DEF Init, PurposeOf, NoOtp, Purposes
<1> QED
  BY <1>2, <1>3 DEF Init, Abstract!Init

\* The codes an address is sent behave as OneTimeCodes says, for any number of
\* codes, attempts and requests that overlap, fail or end with their process.
THEOREM OneTimeCodesImplemented == Spec => ImplementsOneTimeCodes
<1>1. [Abstract!Next]_<<CodeOf, PurposeOf, uses, wrong>>
        <=> [Abstract!Next]_(Abstract!codeVars)
  BY DEF Abstract!codeVars
<1> QED
  BY InvHolds, InitCodes, StepCodes, <1>1, PTL
     DEF Spec, ImplementsOneTimeCodes, Abstract!Spec

=============================================================================
