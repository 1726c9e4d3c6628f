-------------------------- MODULE Accounts_proofs --------------------------
(***************************************************************************)
(* AccountsInv is an inductive invariant of Accounts: what is void stays   *)
(* void, a telephone names one account, access is granted by those who may *)
(* grant it.  The composition of BankAccounts keeps it, and with it that a *)
(* transfer is credited to whoever was given the account number.           *)
(***************************************************************************)
EXTENDS BankAccounts, FiniteSetTheorems, TLAPS

\* The requests that write a telephone number, and those by which an account
\* gets its rights back.
Phoning == {"register", "profile", "transferPhone"}
Enabling == {"apply", "approve"}

\* What a handler gives an account is its right to give.
Access(op, seen, new) ==
    /\ new.active => seen.active \/ op = "activate"
    /\ new.status = "approved" => seen.status = "approved" \/ op \in Enabling
    /\ new.developer => seen.developer \/ op \in Enabling
    /\ new.role = "ADMIN" => seen.role = "ADMIN" \/ op = "role"

\* What a handler makes of the telephone number it has loaded.
Dialled(op, seen, new) ==
    \/ op \in Phoning
    \/ new.phone \in {seen.phone, NoPhone}
    \/ new.phone.suffixed

\* What a handler makes of a row.
JobSound(s) ==
    LET j == job[s]
    IN  /\ j.op = "register" => /\ j.seen = NoRow /\ j.ends = {} /\ ~j.new.developer
                                /\ j.new.role # "ADMIN"
        /\ j.op # "register" => /\ j.seen \in Row /\ row[j.u] # NoRow
                                /\ Access(j.op, j.seen, j.new)
                                /\ Dialled(j.op, j.seen, j.new)
        /\ j.op \in Phoning /\ j.new.phone # NoPhone => ~j.new.phone.suffixed
        /\ \A e \in j.ends : e # 0 /\ \E c \in Secrets : j.seen[c] = e /\ j.new[c] # e

Sound == \A s \in Sessions : job[s] # NoJob => JobSound(s)

InRow(n, u, c) == row[u] # NoRow /\ row[u][c] = n
InSeen(s, n, c) == job[s] # NoJob /\ job[s].seen # NoRow /\ job[s].seen[c] = n
InNew(s, n, c) == job[s] # NoJob /\ job[s].new[c] = n

\* Where a secret is to be found.
Occurs(n, u, c) ==
    \/ InRow(n, u, c)
    \/ \E s \in Sessions : job[s] # NoJob /\ job[s].u = u /\ (InSeen(s, n, c) \/ InNew(s, n, c))

\* A secret that a session brings along.
Brings(s, n, c) ==
    InNew(s, n, c) /\ n # 0 /\ (job[s].seen = NoRow \/ job[s].seen[c] # n)

\* A secret is one column's of one account, and numbered when it is made.
Homes ==
    \A n \in Secret \ {0}, u, v \in Users, c, d \in Secrets :
        Occurs(n, u, c) /\ Occurs(n, v, d) => u = v /\ c = d

Numbered ==
    /\ \A n \in Secret, u \in Users, c \in Secrets : Occurs(n, u, c) => n <= issued
    /\ \A n \in void : n # 0 /\ n <= issued

\* What a session brings along is known to nobody else.
Own ==
    \A s \in Sessions, n \in Secret, c \in Secrets : Brings(s, n, c) =>
        /\ n \notin void
        /\ \A u \in Users, d \in Secrets : ~InRow(n, u, d)
        /\ \A t \in Sessions, d \in Secrets :
              ~InSeen(t, n, d) /\ (t # s => ~InNew(t, n, d))

Calling(s) == job[s] # NoJob /\ job[s].op \in Phoning /\ job[s].new.phone # NoPhone

\* The number a session is about to write is nobody else's.
NumbersAreFree ==
    \A s \in Sessions : Calling(s) /\ job[s].new.phone.number \notin raced =>
        /\ \A v \in Users \ {job[s].u} : row[v] # NoRow => row[v].phone # job[s].new.phone
        /\ \A t \in Sessions \ {s} : job[s].new.phone.number \notin Writing(t)

AccountsInv ==
    /\ TypeOK
    /\ Sound
    /\ Homes
    /\ Numbered
    /\ Own
    /\ SecretsStayVoid
    /\ NumbersAreFree
    /\ PhoneNamesOneAccount

-----------------------------------------------------------------------------
(***************************************************************************)
(* Rows.                                                                   *)
(***************************************************************************)
LEMMA SecretFields ==
    ASSUME NEW r \in Row
    PROVE  /\ r.password \in Secret /\ r.reset \in Secret /\ r.verify \in Secret
           /\ r.pin \in Secret /\ r.pinReset \in Secret /\ r.key \in Secret
           /\ \A c \in Secrets : r[c] \in Secret
BY DEF Row, Secrets

LEMMA SecretsAreNat == Secret \subseteq Nat /\ 0 \in Secret
BY BoundsAreNat DEF Secret

\* The UPDATE writes a row, and each column of it from one of the two.
LEMMA WrittenIsRow ==
    ASSUME NEW now \in Row, NEW seen \in Row, NEW new \in Row,
           NEW r, r = Written(now, seen, new)
    PROVE  /\ r \in Row
           /\ \A c \in Secrets : r[c] = IF new[c] # seen[c] THEN new[c] ELSE now[c]
           /\ r.phone = IF new.phone # seen.phone THEN new.phone ELSE now.phone
           /\ r.active = IF new.active # seen.active THEN new.active ELSE now.active
           /\ r.status = IF new.status # seen.status THEN new.status ELSE now.status
           /\ r.developer = IF new.developer # seen.developer THEN new.developer
                            ELSE now.developer
           /\ r.role = IF new.role # seen.role THEN new.role ELSE now.role
<1>1. r \in Row
  BY DEF Row, Written
<1>2. \A c \in Secrets : r[c] = IF new[c] # seen[c] THEN new[c] ELSE now[c]
  BY DEF Row, Written, Secrets
<1>3. r.phone = IF new.phone # seen.phone THEN new.phone ELSE now.phone
  BY DEF Row, Written
<1>4. r.active = IF new.active # seen.active THEN new.active ELSE now.active
  BY DEF Row, Written
<1>5. r.status = IF new.status # seen.status THEN new.status ELSE now.status
  BY DEF Row, Written
<1>6. r.developer = IF new.developer # seen.developer THEN new.developer ELSE now.developer
  BY DEF Row, Written
<1>7. r.role = IF new.role # seen.role THEN new.role ELSE now.role
  BY DEF Row, Written
<1>8. QED
  BY <1>1, <1>2, <1>3, <1>4, <1>5, <1>6, <1>7

LEMMA PhoneFields ==
    ASSUME NEW r \in Row, r.phone # NoPhone
    PROVE  r.phone \in Phone /\ r.phone.number \in Numbers /\ r.phone.suffixed \in BOOLEAN
<1>1. r.phone \in Phone
  BY DEF Row
<1>2. QED
  BY <1>1 DEF Phone

-----------------------------------------------------------------------------
(***************************************************************************)
(* Requests.                                                               *)
(***************************************************************************)

\* What a handler makes of the row it loads: the secrets are kept, withdrawn
\* or made anew.
Secretly(u, op, new, n, ends) ==
    /\ \A c \in Secrets : \/ new[c] = 0
                          \/ op # "register" /\ new[c] = row[u][c]
                          \/ new[c] \in issued + 1..issued + n
    /\ \A c, d \in Secrets : c # d /\ new[c] > issued => new[c] # new[d]
    /\ \A e \in ends \ {0} : e \in Secret /\ \E c \in Secrets : row[u][c] = e /\ new[c] # e

\* The telephone number it is about to write is nobody else's.
FreePhone(u, op, new) ==
    op \in Phoning /\ new.phone # NoPhone =>
        /\ ~new.phone.suffixed
        /\ \A v \in Users \ {u} : row[v] # NoRow => row[v].phone # new.phone

Loads(s, u, op, new, n, ends) ==
    /\ Load(s, u, op, new, n, ends)
    /\ op \in Operations /\ new \in Row /\ n \in Nat
    /\ Secretly(u, op, new, n, ends) /\ FreePhone(u, op, new)
    /\ op = "register" => /\ row[u] = NoRow /\ ends = {} /\ ~new.developer
                          /\ new.role # "ADMIN"
    /\ op # "register" => /\ row[u] \in Row /\ Access(op, row[u], new)
                          /\ Dialled(op, row[u], new)

Requested(s, u) ==
    \E op \in Operations, new \in Row, n \in Nat, ends \in SUBSET Secret :
        Loads(s, u, op, new, n, ends)

\* A new account.
LEMMA RegisterLoads ==
    ASSUME AccountsInv, NEW s \in Sessions, NEW u \in Users, NEW email \in Emails,
           NEW phone \in Named \cup {NoPhone}, Register(s, u, email, phone)
    PROVE  Requested(s, u)
<1> DEFINE new == [email |-> email, suffixed |-> FALSE, phone |-> phone, active |-> TRUE,
             password |-> Fresh, reset |-> 0, verify |-> Fresh + 1, pin |-> 0,
             pinReset |-> 0, key |-> 0, status |-> "none", developer |-> FALSE,
             role |-> "USER"]
<1>1. Load(s, u, "register", new, 2, {}) /\ row[u] = NoRow
  BY DEF Register
<1>2. issued \in Nat /\ issued + 2 <= MaxSecrets
  BY <1>1, BoundsAreNat DEF Load, AccountsInv, TypeOK, Secret
<1>3. phone \in Phone \cup {NoPhone} /\ (phone # NoPhone => ~phone.suffixed)
  BY SpellingsAreTwo DEF Named, Phone
<1>4. new \in Row
  <2>1. Fresh \in Secret /\ Fresh + 1 \in Secret /\ 0 \in Secret
    BY <1>2, BoundsAreNat DEF Fresh, Secret
  <2>2. QED
    BY <1>3, <2>1 DEF Row
<1>5. Secretly(u, "register", new, 2, {})
  BY <1>2 DEF Secretly, Secrets, Fresh
<1>6. FreePhone(u, "register", new)
  BY <1>3 DEF FreePhone, Register, Registered
<1>7. "register" \in Operations /\ 2 \in Nat /\ {} \in SUBSET Secret
  BY DEF Operations
<1>8. ~new.developer /\ new.role # "ADMIN"
  OBVIOUS
<1> HIDE DEF new
<1>9. QED
  BY <1>1, <1>4, <1>5, <1>6, <1>7, <1>8 DEF Loads, Requested

\* The secrets of a row are old.
LEMMA OldSecrets ==
    ASSUME AccountsInv, NEW u \in Users, row[u] # NoRow
    PROVE  /\ row[u] \in Row /\ issued \in Nat
           /\ \A c \in Secrets : row[u][c] \in Nat /\ row[u][c] <= issued
<1>1. row[u] \in Row
  BY DEF AccountsInv, TypeOK
<1>2. issued \in Nat
  BY SecretsAreNat DEF AccountsInv, TypeOK
<1>3. ASSUME NEW c \in Secrets PROVE row[u][c] \in Nat /\ row[u][c] <= issued
  <2>1. row[u][c] \in Secret
    BY <1>1, SecretFields
  <2>2. Occurs(row[u][c], u, c)
    BY DEF Occurs, InRow
  <2>3. QED
    BY <2>1, <2>2, SecretsAreNat DEF AccountsInv, Numbered
<1>4. QED
  BY <1>1, <1>2, <1>3

\* A handler that touches no secret, and no telephone number unless it asked.
LEMMA PlainLoads ==
    ASSUME AccountsInv, NEW s \in Sessions, NEW u \in Users, row[u] # NoRow,
           NEW op \in Operations \ {"register"}, NEW new \in Row,
           Load(s, u, op, new, 0, {}),
           \A c \in Secrets : new[c] = row[u][c],
           FreePhone(u, op, new), Access(op, row[u], new), Dialled(op, row[u], new)
    PROVE  Requested(s, u)
<1>1. row[u] \in Row /\ issued \in Nat /\ \A c \in Secrets : new[c] \in Nat /\ new[c] <= issued
  BY OldSecrets
<1>2. Secretly(u, op, new, 0, {})
  BY <1>1 DEF Secretly
<1>3. {} \in SUBSET Secret /\ 0 \in Nat
  OBVIOUS
<1>4. QED
  BY <1>1, <1>2, <1>3 DEF Loads, Requested

\* A handler that keeps, withdraws or makes secrets, and nothing else.
LEMMA SecretLoads ==
    ASSUME AccountsInv, NEW s \in Sessions, NEW u \in Users, row[u] # NoRow,
           NEW op \in Operations \ Phoning, NEW new \in Row, NEW n \in {0, 1},
           NEW ends \in SUBSET Secret,
           Load(s, u, op, new, n, ends),
           \A c \in Secrets : new[c] \in {0, row[u][c]} \/ (n = 1 /\ new[c] = Fresh),
           \A c, d \in Secrets : new[c] = Fresh /\ new[d] = Fresh => c = d,
           \A e \in ends \ {0} : \E c \in Secrets : row[u][c] = e /\ new[c] \in {0, Fresh},
           Access(op, row[u], new), Dialled(op, row[u], new)
    PROVE  Requested(s, u)
<1>1. row[u] \in Row /\ issued \in Nat /\ \A c \in Secrets : row[u][c] \in Nat /\ row[u][c] <= issued
  BY OldSecrets
<1>2. Fresh = issued + 1 /\ issued + n \in Nat /\ (n = 1 => Fresh \in issued + 1..issued + n)
  BY <1>1 DEF Fresh
<1>3. \A c, d \in Secrets : c # d /\ new[c] > issued => new[c] # new[d]
  <2>1. \A c \in Secrets : new[c] > issued => new[c] = Fresh
    BY <1>1, <1>2
  <2>2. QED
    BY <2>1
<1>4. \A e \in ends \ {0} : e \in Secret /\ \E c \in Secrets : row[u][c] = e /\ new[c] # e
  <2>1. \A c \in Secrets : row[u][c] # Fresh
    BY <1>1, <1>2
  <2>2. QED
    BY <2>1
<1>6. FreePhone(u, op, new) /\ op # "register" /\ n \in Nat
  BY DEF FreePhone, Phoning
<1>a. \A c \in Secrets : \/ new[c] = 0
                         \/ op # "register" /\ new[c] = row[u][c]
                         \/ new[c] \in issued + 1..issued + n
  BY <1>2, <1>6
<1>5. Secretly(u, op, new, n, ends)
  BY <1>3, <1>4, <1>a DEF Secretly
<1>7. QED
  BY <1>1, <1>5, <1>6 DEF Loads, Requested

\* Of one column of a row.
LEMMA OneColumn ==
    ASSUME NEW r \in Row, NEW m \in Secret
    PROVE  /\ [r EXCEPT !.password = m] \in Row /\ [r EXCEPT !.reset = m] \in Row
           /\ [r EXCEPT !.verify = m] \in Row /\ [r EXCEPT !.pinReset = m] \in Row
           /\ [r EXCEPT !.key = m] \in Row
           /\ [r EXCEPT !.password = m, !.reset = 0] \in Row
           /\ [r EXCEPT !.pin = m, !.pinReset = 0] \in Row
BY SecretsAreNat DEF Row

LEMMA Keeps ==
    ASSUME NEW r \in Row, NEW new, NEW op,
           new.active = r.active, new.status = r.status, new.developer = r.developer,
           new.role = r.role, new.phone = r.phone
    PROVE  Access(op, r, new) /\ Dialled(op, r, new)
BY DEF Access, Dialled

LEMMA FreshIsSecret ==
    ASSUME AccountsInv, issued + 1 <= MaxSecrets
    PROVE  Fresh \in Secret
BY BoundsAreNat DEF AccountsInv, TypeOK, Fresh, Secret

LEMMA PasswordLoads ==
    ASSUME AccountsInv, NEW s \in Sessions, NEW u \in Users,
           \/ VerifyEmail(s, u) \/ ForgotPassword(s, u) \/ ResetPassword(s, u)
           \/ ChangePassword(s, u)
    PROVE  Requested(s, u)
<1>1. row[u] # NoRow
  BY DEF VerifyEmail, ForgotPassword, ResetPassword, ChangePassword, Signed
<1>2. row[u] \in Row
  BY <1>1 DEF AccountsInv, TypeOK
<1>3. \A c \in Secrets : row[u][c] \in Secret
  BY <1>2, SecretFields
<1>4. CASE VerifyEmail(s, u)
  <2> DEFINE new == [row[u] EXCEPT !.verify = 0]
  <2>1. Load(s, u, "verify", new, 0, {row[u].verify})
    BY <1>4 DEF VerifyEmail
  <2>2. new \in Row /\ {row[u].verify} \in SUBSET Secret
    BY <1>2, OneColumn, SecretFields, SecretsAreNat
  <2>3. Access("verify", row[u], new) /\ Dialled("verify", row[u], new)
    BY <1>2, Keeps DEF Row
  <2>4. /\ \A c \in Secrets : new[c] \in {0, row[u][c]}
        /\ "verify" \in Secrets /\ new["verify"] = 0 /\ row[u]["verify"] = row[u].verify
    BY <1>2 DEF Row, Secrets
  <2>5. "verify" \in Operations \ Phoning
    BY DEF Operations, Phoning
  <2>6. \A c \in Secrets : new[c] # Fresh
    BY <1>1, <2>4, OldSecrets DEF Fresh
  <2> HIDE DEF new
  <2>7. QED
    BY <1>1, <2>1, <2>2, <2>3, <2>4, <2>5, <2>6, SecretLoads
<1>5. CASE ForgotPassword(s, u)
  <2> DEFINE new == [row[u] EXCEPT !.reset = Fresh]
  <2>1. Load(s, u, "forgot", new, 1, {row[u].reset})
    BY <1>5 DEF ForgotPassword
  <2>a. Fresh \in Secret
    BY <2>1, FreshIsSecret DEF Load
  <2>2. new \in Row /\ {row[u].reset} \in SUBSET Secret
    BY <1>2, <2>a, OneColumn, SecretFields
  <2>3. Access("forgot", row[u], new) /\ Dialled("forgot", row[u], new)
    BY <1>2, Keeps DEF Row
  <2>4. /\ \A c \in Secrets : new[c] = IF c = "reset" THEN Fresh ELSE row[u][c]
        /\ "reset" \in Secrets /\ row[u]["reset"] = row[u].reset
    BY <1>2 DEF Row, Secrets
  <2>5. "forgot" \in Operations \ Phoning
    BY DEF Operations, Phoning
  <2>6. \A c \in Secrets : row[u][c] # Fresh
    BY <1>1, OldSecrets DEF Fresh
  <2> HIDE DEF new
  <2>7. QED
    BY <1>1, <2>1, <2>2, <2>3, <2>4, <2>5, <2>6, SecretLoads
<1>6. ASSUME NEW op \in {"reset", "password"}, 
             Load(s, u, op, [row[u] EXCEPT !.password = Fresh, !.reset = 0],
                  1, {row[u].password, row[u].reset})
      PROVE  Requested(s, u)
  <2> DEFINE new == [row[u] EXCEPT !.password = Fresh, !.reset = 0]
  <2>1. Load(s, u, op, new, 1, {row[u].password, row[u].reset})
    BY <1>6
  <2>a. Fresh \in Secret
    BY <2>1, FreshIsSecret DEF Load
  <2>2. new \in Row /\ {row[u].password, row[u].reset} \in SUBSET Secret
    BY <1>2, <2>a, OneColumn, SecretFields
  <2>3. Access(op, row[u], new) /\ Dialled(op, row[u], new)
    BY <1>2, Keeps DEF Row
  <2>4. /\ \A c \in Secrets : new[c] = IF c = "password" THEN Fresh
                                       ELSE IF c = "reset" THEN 0 ELSE row[u][c]
        /\ "reset" \in Secrets /\ row[u]["reset"] = row[u].reset
        /\ "password" \in Secrets /\ row[u]["password"] = row[u].password
    BY <1>2 DEF Row, Secrets
  <2>5. op \in Operations \ Phoning
    BY DEF Operations, Phoning
  <2>6. Fresh # 0 /\ \A c \in Secrets : row[u][c] # Fresh
    BY <1>1, OldSecrets DEF Fresh
  <2> HIDE DEF new
  <2>7. QED
    BY <1>1, <2>1, <2>2, <2>3, <2>4, <2>5, <2>6, SecretLoads
<1>7. QED
  BY <1>4, <1>5, <1>6 DEF ResetPassword, ChangePassword

LEMMA PinLoads ==
    ASSUME AccountsInv, NEW s \in Sessions, NEW u \in Users,
           \/ PinSetup(s, u) \/ PinChange(s, u) \/ PinResetRequest(s, u)
           \/ PinResetConfirm(s, u)
    PROVE  Requested(s, u)
<1>1. row[u] # NoRow
  BY DEF PinSetup, PinChange, PinResetRequest, PinResetConfirm, Signed
<1>2. row[u] \in Row
  BY <1>1 DEF AccountsInv, TypeOK
<1>3. \A c \in Secrets : row[u][c] \in Secret
  BY <1>2, SecretFields
<1>4. CASE PinResetRequest(s, u)
  <2> DEFINE new == [row[u] EXCEPT !.pinReset = Fresh]
  <2>1. Load(s, u, "pinRequest", new, 1, {row[u].pinReset})
    BY <1>4 DEF PinResetRequest
  <2>a. Fresh \in Secret
    BY <2>1, FreshIsSecret DEF Load
  <2>2. new \in Row /\ {row[u].pinReset} \in SUBSET Secret
    BY <1>2, <2>a, OneColumn, SecretFields
  <2>3. Access("pinRequest", row[u], new) /\ Dialled("pinRequest", row[u], new)
    BY <1>2, Keeps DEF Row
  <2>4. /\ \A c \in Secrets : new[c] = IF c = "pinReset" THEN Fresh ELSE row[u][c]
        /\ "pinReset" \in Secrets /\ row[u]["pinReset"] = row[u].pinReset
    BY <1>2 DEF Row, Secrets
  <2>5. "pinRequest" \in Operations \ Phoning
    BY DEF Operations, Phoning
  <2>6. \A c \in Secrets : row[u][c] # Fresh
    BY <1>1, OldSecrets DEF Fresh
  <2> HIDE DEF new
  <2>7. QED
    BY <1>1, <2>1, <2>2, <2>3, <2>4, <2>5, <2>6, SecretLoads
<1>5. ASSUME NEW op \in {"setup", "change", "pinReset"},
             NEW ends \in SUBSET {row[u].pin, row[u].pinReset},
             Load(s, u, op, [row[u] EXCEPT !.pin = Fresh, !.pinReset = 0], 1, ends)
      PROVE  Requested(s, u)
  <2> DEFINE new == [row[u] EXCEPT !.pin = Fresh, !.pinReset = 0]
  <2>1. Load(s, u, op, new, 1, ends)
    BY <1>5
  <2>a. Fresh \in Secret
    BY <2>1, FreshIsSecret DEF Load
  <2>2. new \in Row /\ ends \in SUBSET Secret
    BY <1>2, <2>a, OneColumn, SecretFields
  <2>3. Access(op, row[u], new) /\ Dialled(op, row[u], new)
    BY <1>2, Keeps DEF Row
  <2>4. /\ \A c \in Secrets : new[c] = IF c = "pin" THEN Fresh
                                       ELSE IF c = "pinReset" THEN 0 ELSE row[u][c]
        /\ "pin" \in Secrets /\ row[u]["pin"] = row[u].pin
        /\ "pinReset" \in Secrets /\ row[u]["pinReset"] = row[u].pinReset
    BY <1>2 DEF Row, Secrets
  <2>5. op \in Operations \ Phoning
    BY DEF Operations, Phoning
  <2>6. Fresh # 0 /\ \A c \in Secrets : row[u][c] # Fresh
    BY <1>1, OldSecrets DEF Fresh
  <2> HIDE DEF new
  <2>7. QED
    BY <1>1, <2>1, <2>2, <2>3, <2>4, <2>5, <2>6, SecretLoads
<1>6. QED
  BY <1>4, <1>5 DEF PinSetup, PinChange, PinResetConfirm

LEMMA KeyLoads ==
    ASSUME AccountsInv, NEW s \in Sessions, NEW u \in Users,
           ApplyDeveloper(s, u) \/ GenerateKeys(s, u) \/ RevokeKeys(s, u)
    PROVE  Requested(s, u)
<1>1. row[u] # NoRow
  BY DEF ApplyDeveloper, GenerateKeys, RevokeKeys, Signed
<1>2. row[u] \in Row
  BY <1>1 DEF AccountsInv, TypeOK
<1>3. {row[u].key} \in SUBSET Secret
  BY <1>2, SecretFields
<1>4. CASE ApplyDeveloper(s, u)
  <2> DEFINE new == [row[u] EXCEPT !.status = "approved", !.developer = TRUE, !.key = Fresh,
                                   !.role = IF @ = "USER" THEN "RESELLER" ELSE @]
  <2>1. Load(s, u, "apply", new, 1, {row[u].key})
    BY <1>4 DEF ApplyDeveloper
  <2>2. Fresh \in Secret
    BY <2>1, FreshIsSecret DEF Load
  <2>3. new \in Row
    BY <1>2, <2>2 DEF Row
  <2>4. Access("apply", row[u], new) /\ Dialled("apply", row[u], new)
    BY <1>2 DEF Row, Access, Dialled, Enabling
  <2>5. /\ \A c \in Secrets : new[c] = IF c = "key" THEN Fresh ELSE row[u][c]
        /\ "key" \in Secrets /\ row[u]["key"] = row[u].key
    BY <1>2 DEF Row, Secrets
  <2>6. "apply" \in Operations \ Phoning
    BY DEF Operations, Phoning
  <2>7. \A c \in Secrets : row[u][c] # Fresh
    BY <1>1, OldSecrets DEF Fresh
  <2> HIDE DEF new
  <2>8. QED
    BY <1>1, <1>3, <2>1, <2>3, <2>4, <2>5, <2>6, <2>7, SecretLoads
<1>5. CASE GenerateKeys(s, u)
  <2> DEFINE new == [row[u] EXCEPT !.key = Fresh]
  <2>1. Load(s, u, "generate", new, 1, {row[u].key})
    BY <1>5 DEF GenerateKeys
  <2>2. Fresh \in Secret
    BY <2>1, FreshIsSecret DEF Load
  <2>3. new \in Row
    BY <1>2, <2>2, OneColumn
  <2>4. Access("generate", row[u], new) /\ Dialled("generate", row[u], new)
    BY <1>2, Keeps DEF Row
  <2>5. /\ \A c \in Secrets : new[c] = IF c = "key" THEN Fresh ELSE row[u][c]
        /\ "key" \in Secrets /\ row[u]["key"] = row[u].key
    BY <1>2 DEF Row, Secrets
  <2>6. "generate" \in Operations \ Phoning
    BY DEF Operations, Phoning
  <2>7. \A c \in Secrets : row[u][c] # Fresh
    BY <1>1, OldSecrets DEF Fresh
  <2> HIDE DEF new
  <2>8. QED
    BY <1>1, <1>3, <2>1, <2>3, <2>4, <2>5, <2>6, <2>7, SecretLoads
<1>6. CASE RevokeKeys(s, u)
  <2> DEFINE new == [row[u] EXCEPT !.key = 0]
  <2>1. Load(s, u, "revoke", new, 0, {row[u].key})
    BY <1>6 DEF RevokeKeys
  <2>2. new \in Row
    BY <1>2, SecretsAreNat, OneColumn
  <2>3. Access("revoke", row[u], new) /\ Dialled("revoke", row[u], new)
    BY <1>2, Keeps DEF Row
  <2>4. /\ \A c \in Secrets : new[c] = IF c = "key" THEN 0 ELSE row[u][c]
        /\ "key" \in Secrets /\ row[u]["key"] = row[u].key
    BY <1>2 DEF Row, Secrets
  <2>5. "revoke" \in Operations \ Phoning
    BY DEF Operations, Phoning
  <2>6. Fresh # 0 /\ \A c \in Secrets : row[u][c] # Fresh
    BY <1>1, OldSecrets DEF Fresh
  <2> HIDE DEF new
  <2>7. QED
    BY <1>1, <1>3, <2>1, <2>2, <2>3, <2>4, <2>5, <2>6, SecretLoads
<1>7. QED
  BY <1>4, <1>5, <1>6

\* An account that is deleted, by its user or the admin.
LEMMA DeletionLoads ==
    ASSUME AccountsInv, NEW s \in Sessions, NEW u \in Users, DeleteMe(s, u) \/ DeleteUser(s, u)
    PROVE  Requested(s, u)
<1> DEFINE new == Suffixed(row[u])
           ends == {row[u].reset, row[u].verify}
<1>1. row[u] # NoRow
  BY DEF DeleteMe, DeleteUser, Signed
<1>2. row[u] \in Row
  BY <1>1 DEF AccountsInv, TypeOK
<1>3. PICK op \in {"delete", "remove"} : Load(s, u, op, new, 0, ends)
  BY DEF DeleteMe, DeleteUser
<1>4. ends \in SUBSET Secret
  BY <1>2, SecretFields
<1>5. /\ new.phone = IF row[u].phone = NoPhone THEN NoPhone
                     ELSE [row[u].phone EXCEPT !.suffixed = TRUE]
      /\ ~new.active /\ new.status = row[u].status /\ new.developer = row[u].developer
      /\ new.role = row[u].role
  BY <1>2 DEF Suffixed, Row
<1>6. row[u].phone # NoPhone =>
          [row[u].phone EXCEPT !.suffixed = TRUE] \in Phone
          /\ [row[u].phone EXCEPT !.suffixed = TRUE].suffixed
  <2>1. row[u].phone # NoPhone => row[u].phone \in Phone
    BY <1>2, PhoneFields
  <2>2. QED
    BY <2>1 DEF Phone
<1>7. new \in Row
  <2>1. new.phone \in Phone \cup {NoPhone}
    BY <1>5, <1>6
  <2>2. QED
    BY <1>2, <1>6, SecretsAreNat DEF Suffixed, Row
<1>8. Access(op, row[u], new) /\ Dialled(op, row[u], new)
  BY <1>5, <1>6 DEF Access, Dialled
<1>9. /\ \A c \in Secrets : new[c] = IF c \in {"reset", "verify"} THEN 0 ELSE row[u][c]
      /\ "reset" \in Secrets /\ row[u]["reset"] = row[u].reset
      /\ "verify" \in Secrets /\ row[u]["verify"] = row[u].verify
  BY <1>2 DEF Row, Secrets, Suffixed
<1>10. op \in Operations \ Phoning
  BY DEF Operations, Phoning
<1>11. Fresh # 0 /\ \A c \in Secrets : row[u][c] # Fresh
  BY <1>1, OldSecrets DEF Fresh
<1> HIDE DEF new
<1>12. QED
  BY <1>1, <1>3, <1>4, <1>7, <1>8, <1>9, <1>10, <1>11, SecretLoads

\* The telephone number of a profile.
LEMMA PhoneLoads ==
    ASSUME AccountsInv, NEW s \in Sessions, NEW u \in Users,
           \/ \E phone \in Named \cup {NoPhone} : UpdateMe(s, u, phone)
           \/ \E phone \in Named : TransferPhone(s, u, phone)
    PROVE  Requested(s, u)
<1>1. row[u] # NoRow
  BY DEF UpdateMe, TransferPhone, Signed
<1>2. row[u] \in Row
  BY <1>1 DEF AccountsInv, TypeOK
<1>3. ASSUME NEW op \in {"profile", "transferPhone"}, NEW phone \in Phone \cup {NoPhone},
             Load(s, u, op, [row[u] EXCEPT !.phone = phone], 0, {}),
             phone # NoPhone => ~phone.suffixed,
             \A v \in Users \ {u} : row[v] # NoRow /\ phone # NoPhone => row[v].phone # phone
      PROVE  Requested(s, u)
  <2> DEFINE new == [row[u] EXCEPT !.phone = phone]
  <2>1. Load(s, u, op, new, 0, {})
    BY <1>3
  <2>2. new \in Row
    BY <1>2 DEF Row
  <2>3. /\ new.phone = phone /\ new.active = row[u].active /\ new.status = row[u].status
        /\ new.developer = row[u].developer /\ new.role = row[u].role
        /\ \A c \in Secrets : new[c] = row[u][c]
    BY <1>2 DEF Row, Secrets
  <2>4. op \in Operations \ {"register"} /\ op \in Phoning
    BY DEF Operations, Phoning
  <2> HIDE DEF new
  <2>5. Access(op, row[u], new) /\ Dialled(op, row[u], new) /\ FreePhone(u, op, new)
    BY <1>3, <2>3, <2>4 DEF Access, Dialled, FreePhone
  <2>6. QED
    BY <1>1, <2>1, <2>2, <2>3, <2>4, <2>5, PlainLoads
<1>4. \A phone \in Named : phone \in Phone /\ ~phone.suffixed
  BY SpellingsAreTwo DEF Named, Phone
<1>5. CASE \E phone \in Named \cup {NoPhone} : UpdateMe(s, u, phone)
  BY <1>3, <1>4, <1>5 DEF UpdateMe
<1>6. CASE \E phone \in Named : TransferPhone(s, u, phone)
  <2>1. PICK phone \in Named : TransferPhone(s, u, phone)
    BY <1>6
  <2> DEFINE canonical == [phone EXCEPT !.written = "0"]
  <2>2. canonical \in Phone /\ ~canonical.suffixed
    BY <1>4 DEF Phone
  <2>3. /\ ~TakenByVariant(u, canonical)
        /\ Load(s, u, "transferPhone", [row[u] EXCEPT !.phone = canonical], 0, {})
    BY <2>1 DEF TransferPhone
  <2> HIDE DEF canonical
  <2>4. \A v \in Users \ {u} :
            row[v] # NoRow /\ canonical # NoPhone => row[v].phone # canonical
    BY <2>2, <2>3 DEF TakenByVariant, Variant
  <2>5. QED
    BY <1>3, <2>2, <2>3, <2>4
<1>7. QED
  BY <1>5, <1>6

\* The switches of the admin.
LEMMA SwitchLoads ==
    ASSUME AccountsInv, NEW s \in Sessions, NEW u \in Users,
           \/ ApproveDeveloper(s, u) \/ SuspendDeveloper(s, u)
           \/ \E role \in {"USER", "RESELLER", "ADMIN"} : UpdateUserRole(s, u, role)
           \/ SuspendUser(s, u) \/ ActivateUser(s, u)
    PROVE  Requested(s, u)
<1>1. row[u] # NoRow
  BY DEF ApproveDeveloper, SuspendDeveloper, UpdateUserRole, SuspendUser, ActivateUser
<1>2. row[u] \in Row
  BY <1>1 DEF AccountsInv, TypeOK
<1>3. ASSUME NEW op \in Operations \ Phoning, NEW new \in Row, Load(s, u, op, new, 0, {}),
             new.phone = row[u].phone, \A c \in Secrets : new[c] = row[u][c],
             Access(op, row[u], new)
      PROVE  Requested(s, u)
  <2>1. Dialled(op, row[u], new) /\ FreePhone(u, op, new) /\ op # "register"
    BY <1>3 DEF Dialled, FreePhone, Phoning
  <2>2. QED
    BY <1>1, <1>3, <2>1, PlainLoads
<1>4. {"approve", "bar", "role", "suspend", "activate"} \subseteq Operations \ Phoning
  BY DEF Operations, Phoning
<1>5. CASE ApproveDeveloper(s, u)
  <2> DEFINE new == [row[u] EXCEPT !.status = "approved", !.developer = TRUE]
  <2>1. /\ new \in Row /\ new.phone = row[u].phone /\ \A c \in Secrets : new[c] = row[u][c]
        /\ Access("approve", row[u], new)
    BY <1>2 DEF Row, Secrets, Access, Enabling
  <2>2. Load(s, u, "approve", new, 0, {})
    BY <1>5 DEF ApproveDeveloper
  <2> HIDE DEF new
  <2>3. QED
    BY <1>3, <1>4, <2>1, <2>2
<1>6. CASE SuspendDeveloper(s, u)
  <2> DEFINE new == [row[u] EXCEPT !.status = "suspended", !.developer = FALSE]
  <2>1. /\ new \in Row /\ new.phone = row[u].phone /\ \A c \in Secrets : new[c] = row[u][c]
        /\ Access("bar", row[u], new)
    BY <1>2 DEF Row, Secrets, Access
  <2>2. Load(s, u, "bar", new, 0, {})
    BY <1>6 DEF SuspendDeveloper
  <2> HIDE DEF new
  <2>3. QED
    BY <1>3, <1>4, <2>1, <2>2
<1>7. CASE \E role \in {"USER", "RESELLER", "ADMIN"} : UpdateUserRole(s, u, role)
  <2>1. PICK role \in {"USER", "RESELLER", "ADMIN"} : UpdateUserRole(s, u, role)
    BY <1>7
  <2> DEFINE new == [row[u] EXCEPT !.role = role]
  <2>2. /\ new \in Row /\ new.phone = row[u].phone /\ \A c \in Secrets : new[c] = row[u][c]
        /\ Access("role", row[u], new)
    BY <1>2 DEF Row, Secrets, Access
  <2>3. Load(s, u, "role", new, 0, {})
    BY <2>1 DEF UpdateUserRole
  <2> HIDE DEF new
  <2>4. QED
    BY <1>3, <1>4, <2>2, <2>3
<1>8. CASE SuspendUser(s, u)
  <2> DEFINE new == [row[u] EXCEPT !.active = FALSE]
  <2>1. /\ new \in Row /\ new.phone = row[u].phone /\ \A c \in Secrets : new[c] = row[u][c]
        /\ Access("suspend", row[u], new)
    BY <1>2 DEF Row, Secrets, Access
  <2>2. Load(s, u, "suspend", new, 0, {})
    BY <1>8 DEF SuspendUser
  <2> HIDE DEF new
  <2>3. QED
    BY <1>3, <1>4, <2>1, <2>2
<1>9. CASE ActivateUser(s, u)
  <2> DEFINE new == [row[u] EXCEPT !.active = TRUE]
  <2>1. /\ new \in Row /\ new.phone = row[u].phone /\ \A c \in Secrets : new[c] = row[u][c]
        /\ Access("activate", row[u], new)
    BY <1>2 DEF Row, Secrets, Access
  <2>2. Load(s, u, "activate", new, 0, {})
    BY <1>9 DEF ActivateUser
  <2> HIDE DEF new
  <2>3. QED
    BY <1>3, <1>4, <2>1, <2>2
<1>10. QED
  BY <1>5, <1>6, <1>7, <1>8, <1>9

\* Whatever is asked of an account is asked this way.
LEMMA RequestsLoad ==
    ASSUME AccountsInv, NEW s \in Sessions, NEW u \in Users, Request(s, u) \/ Administer(s, u)
    PROVE  Requested(s, u)
<1>1. CASE Request(s, u)
  BY <1>1, RegisterLoads, PasswordLoads, PinLoads, KeyLoads, DeletionLoads, PhoneLoads
     DEF Request
<1>2. CASE Administer(s, u)
  BY <1>2, DeletionLoads, SwitchLoads DEF Administer
<1>3. QED
  BY <1>1, <1>2

-----------------------------------------------------------------------------
(***************************************************************************)
(* A request keeps AccountsInv.                                            *)
(***************************************************************************)
LEMMA JobFields ==
    ASSUME TypeOK, NEW s \in Sessions, job[s] # NoJob
    PROVE  /\ job[s] \in Job /\ job[s].u \in Users /\ job[s].op \in Operations
           /\ job[s].seen \in Row \cup {NoRow} /\ job[s].new \in Row
           /\ job[s].ends \in SUBSET Secret
<1>1. job[s] \in Job
  BY DEF TypeOK
<1>2. QED
  BY <1>1 DEF Job

\* What a session holds is numbered and has its home.
LEMMA HeldIsKnown ==
    ASSUME AccountsInv, NEW m \in Secret, NEW c \in Secrets
    PROVE  /\ \A u \in Users : InRow(m, u, c) => m <= issued
           /\ \A t \in Sessions : InSeen(t, m, c) \/ InNew(t, m, c) => m <= issued
<1>1. ASSUME NEW u \in Users, InRow(m, u, c) PROVE m <= issued
  <2>1. Occurs(m, u, c)
    BY <1>1 DEF Occurs
  <2>2. QED
    BY <2>1 DEF AccountsInv, Numbered
<1>2. ASSUME NEW t \in Sessions, InSeen(t, m, c) \/ InNew(t, m, c) PROVE m <= issued
  <2>1. job[t] # NoJob /\ job[t].u \in Users
    BY <1>2, JobFields DEF InSeen, InNew, AccountsInv
  <2>2. Occurs(m, job[t].u, c)
    BY <1>2, <2>1 DEF Occurs
  <2>3. QED
    BY <2>1, <2>2 DEF AccountsInv, Numbered
<1>3. QED
  BY <1>1, <1>2

LEMMA LoadFields ==
    ASSUME TypeOK, NEW s \in Sessions, NEW u \in Users, NEW op \in Operations, NEW new \in Row,
           NEW n \in Nat, NEW ends \in SUBSET Secret, Load(s, u, op, new, n, ends)
    PROVE  /\ job' \in [Sessions -> Job \cup {NoJob}]
           /\ \A t \in Sessions \ {s} : job'[t] = job[t]
           /\ job'[s].u = u /\ job'[s].op = op /\ job'[s].seen = row[u]
           /\ job'[s].new = new /\ job'[s].ends = ends \ {0}
           /\ row' = row /\ void' = void
           /\ issued' = issued + n /\ issued' \in Secret /\ begun' \in 0..MaxRequests
           /\ raced \subseteq raced' /\ raced' \in SUBSET Numbers
<1> DEFINE j == [u |-> u, op |-> op, seen |-> row[u], new |-> new, ends |-> ends \ {0}]
<1>1. j \in Job /\ j.u = u /\ j.op = op /\ j.seen = row[u] /\ j.new = new /\ j.ends = ends \ {0}
  BY DEF TypeOK, Job
<1>2. job' = [job EXCEPT ![s] = j]
  BY DEF Load
<1> HIDE DEF j
<1>3. /\ job' \in [Sessions -> Job \cup {NoJob}] /\ job'[s] = j
      /\ \A t \in Sessions \ {s} : job'[t] = job[t]
  BY <1>1, <1>2 DEF TypeOK
<1>4. /\ row' = row /\ void' = void /\ issued' = issued + n
      /\ issued + n <= MaxSecrets /\ begun < MaxRequests /\ begun' = begun + 1
  BY DEF Load
<1>5. issued' \in Secret /\ begun' \in 0..MaxRequests
  BY <1>4, BoundsAreNat DEF TypeOK, Secret
<1>6. raced \subseteq raced' /\ raced' \in SUBSET Numbers
  <2>1. new.phone # NoPhone => new.phone.number \in Numbers
    BY PhoneFields
  <2>2. QED
    BY <2>1 DEF Load, TypeOK
<1>7. QED
  BY <1>1, <1>3, <1>4, <1>5, <1>6

LEMMA LoadedSecrets ==
    ASSUME AccountsInv, NEW s \in Sessions, NEW u \in Users, NEW op \in Operations,
           NEW new \in Row, NEW n \in Nat, NEW ends \in SUBSET Secret,
           Loads(s, u, op, new, n, ends)
    PROVE  Homes' /\ Numbered' /\ Own'
<1>1. /\ \A t \in Sessions \ {s} : job'[t] = job[t]
      /\ job'[s].u = u /\ job'[s].op = op /\ job'[s].seen = row[u]
      /\ job'[s].new = new
      /\ row' = row /\ void' = void /\ issued' = issued + n
  BY LoadFields DEF Loads, AccountsInv
<1>2. issued \in Nat /\ Secret \subseteq Nat /\ void \subseteq Secret
  BY SecretsAreNat DEF AccountsInv, TypeOK
<1>3. /\ \A m \in Secret, v \in Users, c \in Secrets : InRow(m, v, c)' <=> InRow(m, v, c)
      /\ \A t \in Sessions \ {s}, m \in Secret, c \in Secrets :
            (InSeen(t, m, c)' <=> InSeen(t, m, c)) /\ (InNew(t, m, c)' <=> InNew(t, m, c))
  BY <1>1 DEF InRow, InSeen, InNew
<1>4. ASSUME NEW m \in Secret, NEW c \in Secrets
      PROVE  /\ InSeen(s, m, c)' => InRow(m, u, c)
             /\ InNew(s, m, c)' => /\ new[c] = m
                                   /\ \/ m = 0 \/ InRow(m, u, c)
                                      \/ m > issued /\ m <= issued'
  <2>1. InSeen(s, m, c)' => InRow(m, u, c)
    BY <1>1 DEF InSeen, InRow
  <2>2. InNew(s, m, c)' => new[c] = m
    BY <1>1 DEF InNew
  <2>3. op # "register" => row[u] # NoRow
    BY NoRowIsNoRow DEF Loads
  <2>4. \/ new[c] = 0
        \/ op # "register" /\ new[c] = row[u][c]
        \/ new[c] \in issued + 1..issued + n
    <3>1. Secretly(u, op, new, n, ends)
      BY DEF Loads
    <3>2. QED
      BY <3>1 DEF Secretly
  <2>5. QED
    BY <1>1, <1>2, <2>1, <2>2, <2>3, <2>4 DEF InRow
<1>5. ASSUME NEW m \in Secret \ {0}, NEW v \in Users, NEW c \in Secrets, Occurs(m, v, c)'
      PROVE  Occurs(m, v, c) \/ (v = u /\ m > issued /\ m <= issued' /\ new[c] = m)
  <2>1. CASE InRow(m, v, c)'
    BY <1>3, <2>1 DEF Occurs
  <2>2. CASE \E t \in Sessions : /\ job'[t] # NoJob /\ job'[t].u = v
                                 /\ InSeen(t, m, c)' \/ InNew(t, m, c)'
    <3>1. PICK t \in Sessions : /\ job'[t] # NoJob /\ job'[t].u = v
                                /\ InSeen(t, m, c)' \/ InNew(t, m, c)'
      BY <2>2
    <3>2. CASE t = s
      <4>1. v = u
        BY <1>1, <3>1, <3>2
      <4>2. InRow(m, u, c) \/ (m > issued /\ m <= issued' /\ new[c] = m)
        BY <1>4, <3>1, <3>2
      <4>3. QED
        BY <4>1, <4>2 DEF Occurs
    <3>3. CASE t # s
      BY <1>1, <1>3, <3>1, <3>3 DEF Occurs
    <3>4. QED
      BY <3>2, <3>3
  <2>3. QED
    BY <1>5, <2>1, <2>2 DEF Occurs
<1>6. \A m \in Secret, v \in Users, c \in Secrets : Occurs(m, v, c) => m <= issued
  BY DEF AccountsInv, Numbered
<1>7. Homes'
  <2> SUFFICES ASSUME NEW m \in Secret \ {0}, NEW v \in Users, NEW w \in Users,
                      NEW c \in Secrets, NEW d \in Secrets,
                      Occurs(m, v, c)', Occurs(m, w, d)'
               PROVE  v = w /\ c = d
    BY DEF Homes
  <2>1. CASE Occurs(m, v, c) /\ Occurs(m, w, d)
    BY <2>1 DEF AccountsInv, Homes
  <2>2. CASE ~Occurs(m, v, c)
    <3>1. v = u /\ m > issued /\ new[c] = m
      BY <1>5, <2>2
    <3>2. ~Occurs(m, w, d)
      BY <1>2, <1>6, <3>1
    <3>3. w = u /\ new[d] = m
      BY <1>5, <3>2
    <3>4. QED
      BY <3>1, <3>3 DEF Loads, Secretly
  <2>3. CASE ~Occurs(m, w, d)
    <3>1. w = u /\ m > issued /\ new[d] = m
      BY <1>5, <2>3
    <3>2. ~Occurs(m, v, c)
      BY <1>2, <1>6, <3>1
    <3>3. v = u /\ new[c] = m
      BY <1>5, <3>2
    <3>4. QED
      BY <3>1, <3>3 DEF Loads, Secretly
  <2>4. QED
    BY <2>1, <2>2, <2>3
<1>8. Numbered'
  <2>1. ASSUME NEW m \in Secret, NEW v \in Users, NEW c \in Secrets, Occurs(m, v, c)'
        PROVE  m <= issued'
    <3>1. CASE m = 0
      BY <1>1, <1>2, <3>1
    <3>2. CASE m # 0
      BY <1>1, <1>2, <1>5, <1>6, <2>1, <3>2
    <3>3. QED
      BY <3>1, <3>2
  <2>2. ASSUME NEW m \in void PROVE m # 0 /\ m <= issued'
    <3>1. m # 0 /\ m <= issued /\ m \in Nat
      BY <1>2 DEF AccountsInv, Numbered
    <3>2. QED
      BY <1>1, <1>2, <3>1
  <2>3. QED
    BY <1>1, <2>1, <2>2 DEF Numbered
<1>9. Own'
  <2> SUFFICES ASSUME NEW t \in Sessions, NEW m \in Secret, NEW c \in Secrets,
                      Brings(t, m, c)'
               PROVE  /\ m \notin void
                      /\ \A v \in Users, d \in Secrets : ~InRow(m, v, d)'
                      /\ \A q \in Sessions, d \in Secrets :
                            ~InSeen(q, m, d)' /\ (q # t => ~InNew(q, m, d)')
    BY <1>1 DEF Own
  <2>1. m # 0
    BY DEF Brings
  <2>2. CASE t # s
    <3>1. Brings(t, m, c)
      BY <1>1, <1>3, <2>2 DEF Brings, InNew
    <3>2. /\ m \notin void
          /\ \A v \in Users, d \in Secrets : ~InRow(m, v, d)
          /\ \A q \in Sessions, d \in Secrets :
                ~InSeen(q, m, d) /\ (q # t => ~InNew(q, m, d))
      BY <3>1 DEF AccountsInv, Own
    <3>3. m <= issued
      BY <3>1, HeldIsKnown DEF Brings
    <3>4. \A d \in Secrets : ~InSeen(s, m, d)' /\ ~InNew(s, m, d)'
      BY <1>2, <1>4, <2>1, <3>2, <3>3
    <3>5. QED
      BY <1>3, <3>2, <3>4
  <2>3. CASE t = s
    <3>1. m > issued
      <4>1. InNew(s, m, c)' /\ ~InRow(m, u, c)
        BY <1>1, <2>3 DEF Brings, InRow
      <4>2. QED
        BY <1>4, <2>1, <4>1
    <3>2. m \notin void
      BY <1>2, <3>1 DEF AccountsInv, Numbered
    <3>3. \A v \in Users, d \in Secrets : ~InRow(m, v, d)
      BY <1>2, <3>1, HeldIsKnown
    <3>4. \A q \in Sessions, d \in Secrets : ~InSeen(q, m, d) /\ ~InNew(q, m, d)
      BY <1>2, <3>1, HeldIsKnown
    <3>5. \A d \in Secrets : ~InSeen(s, m, d)'
      BY <1>4, <3>3
    <3>6. QED
      BY <1>3, <2>3, <3>2, <3>3, <3>4, <3>5
  <2>4. QED
    BY <2>2, <2>3
<1>10. QED
  BY <1>7, <1>8, <1>9

LEMMA LoadedPhones ==
    ASSUME AccountsInv, NEW s \in Sessions, NEW u \in Users, NEW op \in Operations,
           NEW new \in Row, NEW n \in Nat, NEW ends \in SUBSET Secret,
           Loads(s, u, op, new, n, ends)
    PROVE  NumbersAreFree'
<1>1. /\ \A t \in Sessions \ {s} : job'[t] = job[t]
      /\ job'[s].u = u /\ job'[s].op = op /\ job'[s].new = new
      /\ row' = row /\ raced \subseteq raced'
  BY LoadFields DEF Loads, AccountsInv
<1>2. \A t \in Sessions \ {s} : Writing(t)' = Writing(t) /\ (Calling(t)' <=> Calling(t))
  BY <1>1 DEF Writing, Calling
<1>3. Calling(s)' => op \in Phoning /\ new.phone # NoPhone
  BY <1>1 DEF Calling
<1>4. Writing(s)' = IF Calling(s)' THEN {new.phone.number} ELSE {}
  BY <1>1 DEF Writing, Calling, Phoning
<1>5. \A t \in Sessions : Writing(t) = IF Calling(t) THEN {job[t].new.phone.number} ELSE {}
  BY DEF Writing, Calling, Phoning
<1>6. ASSUME Calling(s)', new.phone.number \notin raced'
      PROVE  \A t \in Sessions \ {s} : new.phone.number \notin Writing(t)
  BY <1>3, <1>6 DEF Loads, Load, Phoning
<1> SUFFICES ASSUME NEW t \in Sessions, Calling(t)', job'[t].new.phone.number \notin raced'
             PROVE  /\ \A v \in Users \ {job'[t].u} :
                          row[v] # NoRow => row[v].phone # job'[t].new.phone
                    /\ \A q \in Sessions \ {t} : job'[t].new.phone.number \notin Writing(q)'
  BY <1>1 DEF NumbersAreFree
<1>7. CASE t = s
  <2>1. \A v \in Users \ {u} : row[v] # NoRow => row[v].phone # new.phone
    BY <1>3, <1>7 DEF Loads, FreePhone
  <2>2. QED
    BY <1>1, <1>2, <1>6, <1>7, <2>1
<1>8. CASE t # s
  <2>1. job'[t] = job[t] /\ Calling(t) /\ job[t].new.phone.number \notin raced
    BY <1>1, <1>2, <1>8
  <2>2. /\ \A v \in Users \ {job[t].u} : row[v] # NoRow => row[v].phone # job[t].new.phone
        /\ \A q \in Sessions \ {t} : job[t].new.phone.number \notin Writing(q)
    BY <2>1 DEF AccountsInv, NumbersAreFree
  <2>3. job[t].new.phone.number \notin Writing(s)'
    <3> SUFFICES ASSUME Calling(s)', new.phone.number = job[t].new.phone.number PROVE FALSE
      BY <1>4
    <3>1. new.phone.number \notin Writing(t)
      BY <1>6, <1>8, <2>1
    <3>2. QED
      BY <1>5, <2>1, <3>1
  <2>4. QED
    BY <1>2, <2>1, <2>2, <2>3
<1>9. QED
  BY <1>7, <1>8

LEMMA LoadKeeps ==
    ASSUME AccountsInv, NEW s \in Sessions, NEW u \in Users, Requested(s, u)
    PROVE  AccountsInv'
<1>1. PICK op \in Operations, new \in Row, n \in Nat, ends \in SUBSET Secret :
          Loads(s, u, op, new, n, ends)
  BY DEF Requested
<1>2. /\ job' \in [Sessions -> Job \cup {NoJob}]
      /\ \A t \in Sessions \ {s} : job'[t] = job[t]
      /\ job'[s].u = u /\ job'[s].op = op /\ job'[s].seen = row[u]
      /\ job'[s].new = new /\ job'[s].ends = ends \ {0}
      /\ row' = row /\ void' = void
      /\ issued' \in Secret /\ begun' \in 0..MaxRequests
      /\ raced \subseteq raced' /\ raced' \in SUBSET Numbers
  BY <1>1, LoadFields DEF Loads, AccountsInv
<1>3. TypeOK'
  BY <1>2 DEF AccountsInv, TypeOK
<1>4. Sound'
  <2> SUFFICES ASSUME NEW t \in Sessions, job'[t] # NoJob PROVE JobSound(t)'
    BY DEF Sound
  <2>1. CASE t # s
    <3>1. job'[t] = job[t] /\ JobSound(t)
      BY <1>2, <2>1 DEF AccountsInv, Sound
    <3>2. QED
      BY <1>2, <3>1 DEF JobSound
  <2>2. CASE t = s
    <3>1. op = "register" => /\ row[u] = NoRow /\ ends = {} /\ ~new.developer
                             /\ new.role # "ADMIN"
      BY <1>1 DEF Loads
    <3>2. op # "register" => /\ row[u] \in Row /\ row[u] # NoRow /\ Access(op, row[u], new)
                             /\ Dialled(op, row[u], new)
      BY <1>1, NoRowIsNoRow DEF Loads
    <3>3. op \in Phoning /\ new.phone # NoPhone => ~new.phone.suffixed
      BY <1>1 DEF Loads, FreePhone
    <3>4. \A e \in ends \ {0} : \E c \in Secrets : row[u][c] = e /\ new[c] # e
      BY <1>1 DEF Loads, Secretly
    <3>5. QED
      BY <1>2, <2>2, <3>1, <3>2, <3>3, <3>4 DEF JobSound
  <2>3. QED
    BY <2>1, <2>2
<1>5. Homes' /\ Numbered' /\ Own' /\ NumbersAreFree'
  BY <1>1, LoadedSecrets, LoadedPhones
<1>6. SecretsStayVoid' /\ PhoneNamesOneAccount'
  BY <1>2 DEF AccountsInv, SecretsStayVoid, PhoneNamesOneAccount
<1>7. QED
  BY <1>3, <1>4, <1>5, <1>6 DEF AccountsInv

-----------------------------------------------------------------------------
(***************************************************************************)
(* Commits.                                                                *)
(***************************************************************************)

\* A commit inserts the row, writes the columns that differ, or has no effect.
LEMMA CommitRow ==
    ASSUME AccountsInv, NEW s \in Sessions, Commit(s)
    PROVE  /\ job[s] \in Job /\ JobSound(s)
           /\ row' \in [Users -> Row \cup {NoRow}]
           /\ \A v \in Users \ {job[s].u} : row'[v] = row[v]
           /\ \/ job[s].op = "register" /\ row'[job[s].u] = row[job[s].u]
              \/ /\ job[s].op = "register" /\ row[job[s].u] = NoRow
                 /\ row'[job[s].u] = job[s].new
              \/ /\ job[s].op # "register" /\ row[job[s].u] \in Row
                 /\ row'[job[s].u] = Written(row[job[s].u], job[s].seen, job[s].new)
           /\ job' \in [Sessions -> Job \cup {NoJob}] /\ job'[s] = NoJob
           /\ \A t \in Sessions \ {s} : job'[t] = job[t]
           /\ void' = void \cup job[s].ends /\ job[s].ends \subseteq Secret
           /\ issued' = issued /\ begun' = begun /\ raced' = raced
<1>1. job[s] \in Job /\ JobSound(s)
  BY DEF Commit, AccountsInv, TypeOK, Sound
<1>2. /\ job[s].u \in Users /\ job[s].new \in Row /\ job[s].ends \subseteq Secret
  BY <1>1 DEF Job
<1>3. job[s].op # "register" => job[s].seen \in Row /\ row[job[s].u] \in Row
  BY <1>1, <1>2 DEF JobSound, AccountsInv, TypeOK
<1>4. CASE job[s].op = "register"
  <2> DEFINE r == IF row[job[s].u] = NoRow /\ EmailFree(job[s].u, job[s].new.email)
                  THEN job[s].new ELSE row[job[s].u]
  <2>1. row' = [row EXCEPT ![job[s].u] = r]
    BY <1>4 DEF Commit
  <2>2. r \in Row \cup {NoRow}
    BY <1>2 DEF AccountsInv, TypeOK
  <2>3. r = row[job[s].u] \/ (row[job[s].u] = NoRow /\ r = job[s].new)
    OBVIOUS
  <2> HIDE DEF r
  <2>4. /\ row' \in [Users -> Row \cup {NoRow}] /\ row'[job[s].u] = r
        /\ \A v \in Users \ {job[s].u} : row'[v] = row[v]
    BY <1>2, <2>1, <2>2 DEF AccountsInv, TypeOK
  <2>5. QED
    BY <1>1, <1>2, <1>4, <2>3, <2>4 DEF Commit, AccountsInv, TypeOK
<1>5. CASE job[s].op # "register"
  <2> DEFINE r == Written(row[job[s].u], job[s].seen, job[s].new)
  <2>1. row' = [row EXCEPT ![job[s].u] = r]
    BY <1>5 DEF Commit
  <2>2. r \in Row
    BY <1>2, <1>3, <1>5, WrittenIsRow
  <2>3. r = Written(row[job[s].u], job[s].seen, job[s].new)
    OBVIOUS
  <2> HIDE DEF r
  <2>4. /\ row' \in [Users -> Row \cup {NoRow}] /\ row'[job[s].u] = r
        /\ \A v \in Users \ {job[s].u} : row'[v] = row[v]
    BY <1>2, <2>1, <2>2 DEF AccountsInv, TypeOK
  <2>5. QED
    BY <1>1, <1>2, <1>3, <1>5, <2>3, <2>4 DEF Commit, AccountsInv, TypeOK
<1>6. QED
  BY <1>4, <1>5

\* Where the columns of the row come from.
LEMMA CommitFields ==
    ASSUME AccountsInv, NEW s \in Sessions, Commit(s), NEW u \in Users, job[s].u = u
    PROVE  /\ \A v \in Users : row[v] # NoRow => row'[v] # NoRow
           /\ row'[u] # NoRow => \A c \in Secrets :
                 \/ /\ row[u] # NoRow /\ row'[u][c] = row[u][c]
                    /\ job[s].op = "register" \/ job[s].new[c] = job[s].seen[c]
                 \/ /\ row'[u][c] = job[s].new[c]
                    /\ job[s].seen = NoRow \/ job[s].new[c] # job[s].seen[c]
           /\ row'[u] # NoRow =>
                 \/ row[u] # NoRow /\ row'[u].phone = row[u].phone
                 \/ /\ row'[u].phone = job[s].new.phone
                    /\ job[s].op = "register" \/ job[s].new.phone # job[s].seen.phone
<1>1. /\ job[s] \in Job /\ JobSound(s)
      /\ \A v \in Users \ {u} : row'[v] = row[v]
      /\ \/ job[s].op = "register" /\ row'[u] = row[u]
         \/ job[s].op = "register" /\ row[u] = NoRow /\ row'[u] = job[s].new
         \/ /\ job[s].op # "register" /\ row[u] \in Row
            /\ row'[u] = Written(row[u], job[s].seen, job[s].new)
  BY CommitRow
<1>2. CASE job[s].op = "register" /\ row'[u] = row[u]
  BY <1>1, <1>2
<1>3. CASE job[s].op = "register" /\ row[u] = NoRow /\ row'[u] = job[s].new
  BY <1>1, <1>3 DEF JobSound
<1>4. CASE /\ job[s].op # "register" /\ row[u] \in Row
           /\ row'[u] = Written(row[u], job[s].seen, job[s].new)
  <2>1. job[s].seen \in Row /\ job[s].new \in Row
    BY <1>1, <1>4 DEF JobSound, Job
  <2>2. /\ row'[u] \in Row
        /\ \A c \in Secrets : row'[u][c] = IF job[s].new[c] # job[s].seen[c]
                                            THEN job[s].new[c] ELSE row[u][c]
        /\ row'[u].phone = IF job[s].new.phone # job[s].seen.phone
                           THEN job[s].new.phone ELSE row[u].phone
    BY <1>4, <2>1, WrittenIsRow
  <2>3. row[u] # NoRow /\ row'[u] # NoRow
    BY <1>4, <2>2, NoRowIsNoRow
  <2>4. QED
    BY <1>1, <2>2, <2>3
<1>5. QED
  BY <1>1, <1>2, <1>3, <1>4

LEMMA CommittedSecrets ==
    ASSUME AccountsInv, NEW s \in Sessions, Commit(s), NEW u \in Users, job[s].u = u
    PROVE  Homes' /\ Numbered' /\ Own' /\ SecretsStayVoid'
<1>1. /\ job[s] \in Job /\ JobSound(s)
      /\ row' \in [Users -> Row \cup {NoRow}]
      /\ \A v \in Users \ {u} : row'[v] = row[v]
      /\ job'[s] = NoJob /\ \A t \in Sessions \ {s} : job'[t] = job[t]
      /\ void' = void \cup job[s].ends /\ issued' = issued
  BY CommitRow DEF Job
<1>2. job[s] # NoJob
  BY DEF Commit
<1>3. row'[u] # NoRow => \A c \in Secrets :
          \/ /\ row[u] # NoRow /\ row'[u][c] = row[u][c]
             /\ job[s].op = "register" \/ job[s].new[c] = job[s].seen[c]
          \/ /\ row'[u][c] = job[s].new[c]
             /\ job[s].seen = NoRow \/ job[s].new[c] # job[s].seen[c]
  BY <1>1, CommitFields
<1>4. ASSUME NEW m \in Secret, NEW v \in Users, NEW c \in Secrets, InRow(m, v, c)'
      PROVE  InRow(m, v, c) \/ (v = u /\ InNew(s, m, c))
  <2>1. CASE v = u
    BY <1>2, <1>3, <1>4, <2>1 DEF InRow, InNew
  <2>2. CASE v # u
    BY <1>1, <1>4, <2>2 DEF InRow
  <2>3. QED
    BY <2>1, <2>2
<1>5. \A t \in Sessions \ {s}, m \in Secret, c \in Secrets :
          (InSeen(t, m, c)' <=> InSeen(t, m, c)) /\ (InNew(t, m, c)' <=> InNew(t, m, c))
  BY <1>1 DEF InSeen, InNew
<1>6. \A m \in Secret, c \in Secrets : ~InSeen(s, m, c)' /\ ~InNew(s, m, c)'
  BY <1>1 DEF InSeen, InNew
<1>7. ASSUME NEW m \in Secret, NEW v \in Users, NEW c \in Secrets, Occurs(m, v, c)'
      PROVE  Occurs(m, v, c)
  <2>1. CASE InRow(m, v, c)'
    BY <1>2, <1>4, <2>1 DEF Occurs
  <2>2. CASE \E t \in Sessions : /\ job'[t] # NoJob /\ job'[t].u = v
                                 /\ InSeen(t, m, c)' \/ InNew(t, m, c)'
    BY <1>1, <1>5, <2>2 DEF Occurs
  <2>3. QED
    BY <1>7, <2>1, <2>2 DEF Occurs
<1>8. ASSUME NEW e \in job[s].ends
      PROVE  /\ e \in Secret \ {0}
             /\ \E c \in Secrets : InSeen(s, e, c) /\ job[s].seen[c] = e /\ job[s].new[c] # e
             /\ job[s].op # "register"
  <2>1. e \in Secret
    BY <1>1 DEF Job
  <2>2. e # 0 /\ \E c \in Secrets : job[s].seen[c] = e /\ job[s].new[c] # e
    BY <1>1 DEF JobSound
  <2>3. job[s].op # "register" /\ job[s].seen # NoRow
    BY <1>1, NoRowIsNoRow DEF JobSound
  <2>4. QED
    BY <1>2, <2>1, <2>2, <2>3 DEF InSeen
<1>9. Homes'
  BY <1>7 DEF AccountsInv, Homes
<1>10. Numbered'
  <2>1. \A e \in job[s].ends : e # 0 /\ e <= issued
    BY <1>8, HeldIsKnown
  <2>2. QED
    BY <1>1, <1>7, <2>1 DEF AccountsInv, Numbered
<1>11. Own'
  <2> SUFFICES ASSUME NEW t \in Sessions, NEW m \in Secret, NEW c \in Secrets,
                      Brings(t, m, c)'
               PROVE  /\ m \notin void'
                      /\ \A v \in Users, d \in Secrets : ~InRow(m, v, d)'
                      /\ \A q \in Sessions, d \in Secrets :
                            ~InSeen(q, m, d)' /\ (q # t => ~InNew(q, m, d)')
    BY DEF Own
  <2>1. t # s
    BY <1>6 DEF Brings
  <2>2. Brings(t, m, c)
    BY <1>1, <1>5, <2>1 DEF Brings
  <2>3. /\ m \notin void
        /\ \A v \in Users, d \in Secrets : ~InRow(m, v, d)
        /\ \A q \in Sessions, d \in Secrets :
              ~InSeen(q, m, d) /\ (q # t => ~InNew(q, m, d))
    BY <2>2 DEF AccountsInv, Own
  <2>4. m \notin job[s].ends
    BY <1>8, <2>3
  <2>5. \A v \in Users, d \in Secrets : ~InRow(m, v, d)'
    BY <1>4, <2>1, <2>3
  <2>6. \A q \in Sessions, d \in Secrets :
            ~InSeen(q, m, d)' /\ (q # t => ~InNew(q, m, d)')
    BY <1>5, <1>6, <2>3
  <2>7. QED
    BY <1>1, <2>3, <2>4, <2>5, <2>6
<1>12. SecretsStayVoid'
  <2> SUFFICES ASSUME NEW v \in Users, row'[v] # NoRow, NEW c \in Secrets
               PROVE  row'[v][c] \notin void \cup job[s].ends
    BY <1>1 DEF SecretsStayVoid
  <2> DEFINE m == row'[v][c]
  <2>1. m \in Secret
    BY <1>1, SecretFields
  <2>2. \A w \in Users : row[w] # NoRow => row[w][c] \notin void
    BY DEF AccountsInv, SecretsStayVoid
  <2>3. CASE v # u
    <3>1. row'[v] = row[v] /\ InRow(m, v, c)
      BY <1>1, <2>3 DEF InRow
    <3>2. m \notin job[s].ends
      <4> SUFFICES ASSUME m \in job[s].ends PROVE FALSE
        OBVIOUS
      <4>1. PICK d \in Secrets : InSeen(s, m, d)
        BY <1>8
      <4>2. Occurs(m, v, c) /\ Occurs(m, u, d) /\ m # 0
        BY <1>2, <1>8, <3>1, <4>1 DEF Occurs
      <4>3. QED
        BY <1>1, <2>1, <2>3, <4>2 DEF AccountsInv, Homes
    <3>3. QED
      BY <2>2, <3>1, <3>2
  <2>4. CASE /\ v = u /\ row[u] # NoRow /\ m = row[u][c]
             /\ job[s].op = "register" \/ job[s].new[c] = job[s].seen[c]
    <3>1. m \notin job[s].ends
      <4> SUFFICES ASSUME m \in job[s].ends PROVE FALSE
        OBVIOUS
      <4>1. PICK d \in Secrets : /\ InSeen(s, m, d) /\ job[s].seen[d] = m
                                 /\ job[s].new[d] # m
        BY <1>8
      <4>2. Occurs(m, u, c) /\ Occurs(m, u, d) /\ m # 0
        BY <1>2, <1>8, <2>4, <4>1 DEF Occurs, InRow
      <4>3. c = d
        BY <1>1, <2>1, <4>2 DEF AccountsInv, Homes
      <4>4. QED
        BY <1>8, <2>4, <4>1, <4>3
    <3>2. QED
      BY <2>2, <2>4, <3>1
  <2>5. CASE /\ v = u /\ m = job[s].new[c]
             /\ job[s].seen = NoRow \/ job[s].new[c] # job[s].seen[c]
    <3>1. CASE m = 0
      <4>1. 0 \notin void
        BY DEF AccountsInv, Numbered
      <4>2. QED
        BY <1>8, <3>1, <4>1
    <3>2. CASE m # 0
      <4>1. Brings(s, m, c)
        BY <1>2, <2>5, <3>2 DEF Brings, InNew
      <4>2. m \notin void /\ \A d \in Secrets : ~InSeen(s, m, d)
        BY <2>1, <4>1 DEF AccountsInv, Own
      <4>3. QED
        BY <1>8, <4>2
    <3>3. QED
      BY <3>1, <3>2
  <2>6. QED
    BY <1>3, <2>3, <2>4, <2>5
<1>13. QED
  BY <1>9, <1>10, <1>11, <1>12

LEMMA CommittedPhones ==
    ASSUME AccountsInv, NEW s \in Sessions, Commit(s), NEW u \in Users, job[s].u = u
    PROVE  NumbersAreFree' /\ PhoneNamesOneAccount'
<1>1. /\ job[s] \in Job /\ JobSound(s)
      /\ row' \in [Users -> Row \cup {NoRow}]
      /\ \A v \in Users \ {u} : row'[v] = row[v]
      /\ job'[s] = NoJob /\ \A t \in Sessions \ {s} : job'[t] = job[t]
      /\ raced' = raced /\ job[s] # NoJob
  BY CommitRow DEF Commit
<1>2. row'[u] # NoRow =>
          \/ row[u] # NoRow /\ row'[u].phone = row[u].phone
          \/ /\ row'[u].phone = job[s].new.phone
             /\ job[s].op = "register" \/ job[s].new.phone # job[s].seen.phone
  BY <1>1, CommitFields
<1>3. ASSUME row'[u] # NoRow, row'[u].phone # NoPhone, ~row'[u].phone.suffixed
      PROVE  \/ row[u] # NoRow /\ row'[u].phone = row[u].phone
             \/ Calling(s) /\ row'[u].phone = job[s].new.phone
  <2>1. CASE /\ row'[u].phone = job[s].new.phone
             /\ job[s].op = "register" \/ job[s].new.phone # job[s].seen.phone
    <3>1. job[s].op \in Phoning
      BY <1>1, <1>3, <2>1 DEF JobSound, Dialled, Phoning
    <3>2. QED
      BY <1>1, <1>3, <2>1, <3>1 DEF Calling
  <2>2. QED
    BY <1>2, <1>3, <2>1
<1>4. /\ \A t \in Sessions \ {s} : /\ Writing(t)' = Writing(t)
                                   /\ Calling(t)' <=> Calling(t)
      /\ Writing(s)' = {} /\ ~Calling(s)'
  BY <1>1 DEF Writing, Calling
<1>5. Calling(s) => Writing(s) = {job[s].new.phone.number}
  BY DEF Calling, Writing, Phoning
<1>6. NumbersAreFree'
  <2> SUFFICES ASSUME NEW t \in Sessions, Calling(t)', job'[t].new.phone.number \notin raced'
               PROVE  /\ \A v \in Users \ {job'[t].u} :
                            row'[v] # NoRow => row'[v].phone # job'[t].new.phone
                      /\ \A q \in Sessions \ {t} : job'[t].new.phone.number \notin Writing(q)'
    BY DEF NumbersAreFree
  <2>1. t # s /\ job'[t] = job[t] /\ Calling(t) /\ job[t].new.phone.number \notin raced
    BY <1>1, <1>4
  <2>2. /\ \A v \in Users \ {job[t].u} : row[v] # NoRow => row[v].phone # job[t].new.phone
        /\ \A q \in Sessions \ {t} : job[t].new.phone.number \notin Writing(q)
    BY <2>1 DEF AccountsInv, NumbersAreFree
  <2>3. job[t].new.phone # NoPhone /\ ~job[t].new.phone.suffixed
    BY <2>1 DEF Calling, AccountsInv, Sound, JobSound
  <2>4. ASSUME NEW v \in Users \ {job[t].u}, row'[v] # NoRow
        PROVE  row'[v].phone # job[t].new.phone
    <3>1. CASE v # u
      BY <1>1, <2>2, <2>4, <3>1
    <3>2. CASE v = u
      <4> SUFFICES ASSUME row'[u].phone = job[t].new.phone PROVE FALSE
        BY <3>2
      <4>1. CASE row[u] # NoRow /\ row'[u].phone = row[u].phone
        BY <2>2, <3>2, <4>1
      <4>2. CASE Calling(s) /\ row'[u].phone = job[s].new.phone
        BY <1>5, <2>1, <2>2, <4>2
      <4>3. QED
        BY <1>3, <2>3, <2>4, <3>2, <4>1, <4>2
    <3>3. QED
      BY <3>1, <3>2
  <2>5. \A q \in Sessions \ {t} : job[t].new.phone.number \notin Writing(q)'
    BY <1>4, <2>2
  <2>6. QED
    BY <2>1, <2>4, <2>5
<1>7. ASSUME NEW w \in Users \ {u}, row'[u] # NoRow, row'[w] # NoRow,
             row'[u].phone = row'[w].phone, row'[u].phone # NoPhone, ~row'[u].phone.suffixed
      PROVE  row'[u].phone.number \in raced
  <2>1. row'[w] = row[w]
    BY <1>1, <1>7
  <2>2. CASE row[u] # NoRow /\ row'[u].phone = row[u].phone
    BY <1>7, <2>1, <2>2 DEF AccountsInv, PhoneNamesOneAccount
  <2>3. CASE Calling(s) /\ row'[u].phone = job[s].new.phone
    BY <1>7, <2>1, <2>3 DEF AccountsInv, NumbersAreFree
  <2>4. QED
    BY <1>3, <1>7, <2>2, <2>3
<1>8. PhoneNamesOneAccount'
  <2> SUFFICES ASSUME NEW v \in Users, NEW w \in Users, v # w,
                      row'[v] # NoRow, row'[w] # NoRow, row'[v].phone = row'[w].phone,
                      row'[v].phone # NoPhone, ~row'[v].phone.suffixed
               PROVE  row'[v].phone.number \in raced
    BY <1>1 DEF PhoneNamesOneAccount
  <2>1. CASE v = u \/ w = u
    BY <1>7, <2>1
  <2>2. CASE v # u /\ w # u
    BY <1>1, <2>2 DEF AccountsInv, PhoneNamesOneAccount
  <2>3. QED
    BY <2>1, <2>2
<1>9. QED
  BY <1>6, <1>8

LEMMA CommitKeeps ==
    ASSUME AccountsInv, NEW s \in Sessions, Commit(s)
    PROVE  AccountsInv'
<1>1. /\ job[s] \in Job
      /\ row' \in [Users -> Row \cup {NoRow}]
      /\ job' \in [Sessions -> Job \cup {NoJob}] /\ job'[s] = NoJob
      /\ \A t \in Sessions \ {s} : job'[t] = job[t]
      /\ void' = void \cup job[s].ends /\ job[s].ends \subseteq Secret
      /\ issued' = issued /\ begun' = begun /\ raced' = raced
  BY CommitRow
<1>2. PICK u \in Users : job[s].u = u
  BY <1>1 DEF Job
<1>3. \A v \in Users : row[v] # NoRow => row'[v] # NoRow
  BY <1>2, CommitFields
<1>4. TypeOK'
  BY <1>1 DEF AccountsInv, TypeOK
<1>5. Sound'
  <2> SUFFICES ASSUME NEW t \in Sessions, job'[t] # NoJob PROVE JobSound(t)'
    BY DEF Sound
  <2>1. job'[t] = job[t] /\ JobSound(t) /\ job[t].u \in Users
    BY <1>1 DEF AccountsInv, Sound, TypeOK, Job
  <2>2. QED
    BY <1>3, <2>1 DEF JobSound
<1>6. Homes' /\ Numbered' /\ Own' /\ SecretsStayVoid' /\ NumbersAreFree' /\ PhoneNamesOneAccount'
  BY <1>2, CommittedSecrets, CommittedPhones
<1>7. QED
  BY <1>4, <1>5, <1>6 DEF AccountsInv

\* A request that comes to nothing leaves less to be known.
LEMMA AbortKeeps ==
    ASSUME AccountsInv, NEW s \in Sessions, Abort(s)
    PROVE  AccountsInv'
<1>1. /\ job'[s] = NoJob /\ \A t \in Sessions \ {s} : job'[t] = job[t]
      /\ job' \in [Sessions -> Job \cup {NoJob}]
      /\ row' = row /\ issued' = issued /\ begun' = begun /\ void' = void /\ raced' = raced
  BY DEF Abort, AccountsInv, TypeOK
<1>2. TypeOK'
  BY <1>1 DEF AccountsInv, TypeOK
<1>3. Sound'
  BY <1>1 DEF AccountsInv, Sound, JobSound
<1>4. \A m \in Secret, c \in Secrets :
          /\ \A v \in Users : InRow(m, v, c)' <=> InRow(m, v, c)
          /\ \A t \in Sessions : /\ InSeen(t, m, c)' => InSeen(t, m, c)
                                 /\ InNew(t, m, c)' => InNew(t, m, c)
  BY <1>1 DEF InRow, InSeen, InNew
<1>5. ASSUME NEW m \in Secret, NEW v \in Users, NEW c \in Secrets, Occurs(m, v, c)'
      PROVE  Occurs(m, v, c)
  BY <1>1, <1>4, <1>5 DEF Occurs
<1>6. ASSUME NEW t \in Sessions, NEW m \in Secret, NEW c \in Secrets, Brings(t, m, c)'
      PROVE  Brings(t, m, c)
  BY <1>1, <1>6 DEF Brings, InNew
<1>7. Homes' /\ Numbered'
  BY <1>1, <1>5 DEF AccountsInv, Homes, Numbered
<1>8. Own'
  <2> SUFFICES ASSUME NEW t \in Sessions, NEW m \in Secret, NEW c \in Secrets,
                      Brings(t, m, c)'
               PROVE  /\ m \notin void
                      /\ \A v \in Users, d \in Secrets : ~InRow(m, v, d)'
                      /\ \A q \in Sessions, d \in Secrets :
                            ~InSeen(q, m, d)' /\ (q # t => ~InNew(q, m, d)')
    BY <1>1 DEF Own
  <2>1. Brings(t, m, c)
    BY <1>6
  <2>2. QED
    BY <1>4, <2>1 DEF AccountsInv, Own
<1>9. NumbersAreFree'
  <2>1. \A t \in Sessions : /\ Writing(t)' \subseteq Writing(t)
                            /\ Calling(t)' => Calling(t) /\ job'[t] = job[t]
    BY <1>1 DEF Writing, Calling
  <2>2. QED
    BY <1>1, <2>1 DEF AccountsInv, NumbersAreFree
<1>10. SecretsStayVoid' /\ PhoneNamesOneAccount'
  BY <1>1 DEF AccountsInv, SecretsStayVoid, PhoneNamesOneAccount
<1>11. QED
  BY <1>2, <1>3, <1>7, <1>8, <1>9, <1>10 DEF AccountsInv

-----------------------------------------------------------------------------
(***************************************************************************)
(* Every step.                                                             *)
(***************************************************************************)
LEMMA InitKeeps == Init => AccountsInv
<1> SUFFICES ASSUME Init PROVE AccountsInv
  OBVIOUS
<1>1. /\ \A u \in Users : row[u] = NoRow
      /\ \A s \in Sessions : job[s] = NoJob
      /\ void = {}
  BY DEF Init
<1>2. TypeOK
  BY SecretsAreNat, BoundsAreNat DEF Init, TypeOK
<1>3. \A m \in Secret, c \in Secrets :
          /\ \A u \in Users : ~Occurs(m, u, c)
          /\ \A s \in Sessions : ~Brings(s, m, c)
  <2> SUFFICES ASSUME NEW m \in Secret, NEW c \in Secrets
               PROVE  /\ \A u \in Users : ~Occurs(m, u, c)
                      /\ \A s \in Sessions : ~Brings(s, m, c)
    OBVIOUS
  <2>1. \A u \in Users : ~InRow(m, u, c)
    BY <1>1 DEF InRow
  <2>2. \A s \in Sessions : ~InNew(s, m, c)
    BY <1>1 DEF InNew
  <2>3. QED
    BY <1>1, <2>1, <2>2 DEF Occurs, Brings
<1>4. Sound /\ Homes /\ Numbered /\ Own
  <2>1. Sound
    BY <1>1 DEF Sound
  <2>2. Homes /\ Numbered
    BY <1>1, <1>3 DEF Homes, Numbered
  <2>3. Own
    BY <1>3 DEF Own
  <2>4. QED
    BY <2>1, <2>2, <2>3
<1>5. SecretsStayVoid /\ NumbersAreFree /\ PhoneNamesOneAccount
  BY <1>1 DEF SecretsStayVoid, NumbersAreFree, PhoneNamesOneAccount, Calling
<1>6. QED
  BY <1>2, <1>4, <1>5 DEF AccountsInv

\* A fault, which only counts, and a step elsewhere.
LEMMA RestKeeps ==
    ASSUME AccountsInv, UNCHANGED <<row, issued, job, void, raced>>, begun' \in 0..MaxRequests
    PROVE  AccountsInv'
<1>1. TypeOK'
  BY DEF AccountsInv, TypeOK
<1>2. Sound' /\ Homes' /\ Numbered' /\ Own'
  <2>1. \A m \in Secret, u \in Users, c \in Secrets : Occurs(m, u, c)' <=> Occurs(m, u, c)
    BY DEF Occurs, InRow, InSeen, InNew
  <2>2. Sound' /\ Own'
    BY DEF AccountsInv, Sound, JobSound, Own, Brings, InRow, InSeen, InNew
  <2>3. QED
    BY <2>1, <2>2 DEF AccountsInv, Homes, Numbered
<1>3. NumbersAreFree'
  BY DEF AccountsInv, NumbersAreFree, Calling, Writing
<1>4. SecretsStayVoid' /\ PhoneNamesOneAccount'
  BY DEF AccountsInv, SecretsStayVoid, PhoneNamesOneAccount
<1>5. QED
  BY <1>1, <1>2, <1>3, <1>4 DEF AccountsInv

LEMMA AccountsStep ==
    ASSUME AccountsInv, [Next]_accounts
    PROVE  AccountsInv'
<1>1. CASE \E s \in Sessions, u \in Users : Request(s, u) \/ Administer(s, u)
  BY <1>1, RequestsLoad, LoadKeeps
<1>2. CASE \E s \in Sessions : Commit(s) \/ Abort(s)
  BY <1>2, CommitKeeps, AbortKeeps
<1>3. CASE UNCHANGED accounts
  BY <1>3, RestKeeps DEF accounts, AccountsInv, TypeOK
<1>4. QED
  BY <1>1, <1>2, <1>3 DEF Next

\* What a commit gives an account is its request's to give.
LEMMA CommitGrants ==
    ASSUME AccountsInv, NEW s \in Sessions, Commit(s)
    PROVE  Granted
<1>1. /\ job[s] \in Job /\ JobSound(s)
      /\ \A v \in Users \ {job[s].u} : row'[v] = row[v]
      /\ \/ job[s].op = "register" /\ row'[job[s].u] = row[job[s].u]
         \/ /\ job[s].op = "register" /\ row[job[s].u] = NoRow
            /\ row'[job[s].u] = job[s].new
         \/ /\ job[s].op # "register" /\ row[job[s].u] \in Row
            /\ row'[job[s].u] = Written(row[job[s].u], job[s].seen, job[s].new)
  BY CommitRow
<1>2. PICK u \in Users : u = job[s].u
  BY <1>1 DEF Job
<1>3. \A ops : job[s].op \in ops => By(u, ops)
  BY <1>2 DEF By, Commit
<1>4. CASE row'[u] = row[u]
  BY <1>1, <1>2, <1>4 DEF Granted, Open, Developer, Admin
<1>5. CASE job[s].op = "register" /\ row[u] = NoRow /\ row'[u] = job[s].new
  <2>1. ~job[s].new.developer /\ job[s].new.role # "ADMIN"
    BY <1>1, <1>5 DEF JobSound
  <2>2. By(u, {"register", "activate"})
    BY <1>3, <1>5
  <2>3. QED
    BY <1>1, <1>2, <1>5, <2>1, <2>2 DEF Granted, Open, Developer, Admin
<1>6. CASE /\ job[s].op # "register" /\ row[u] \in Row
           /\ row'[u] = Written(row[u], job[s].seen, job[s].new)
  <2>1. /\ job[s].seen \in Row /\ job[s].new \in Row
        /\ Access(job[s].op, job[s].seen, job[s].new)
    BY <1>1, <1>6 DEF JobSound, Job
  <2>2. /\ row'[u].active = IF job[s].new.active # job[s].seen.active
                            THEN job[s].new.active ELSE row[u].active
        /\ row'[u].status = IF job[s].new.status # job[s].seen.status
                            THEN job[s].new.status ELSE row[u].status
        /\ row'[u].developer = IF job[s].new.developer # job[s].seen.developer
                               THEN job[s].new.developer ELSE row[u].developer
        /\ row'[u].role = IF job[s].new.role # job[s].seen.role
                          THEN job[s].new.role ELSE row[u].role
    BY <1>6, <2>1, WrittenIsRow
  <2>3. row[u] # NoRow
    BY <1>6, NoRowIsNoRow
  <2>4. /\ job[s].seen.active \in BOOLEAN /\ job[s].seen.developer \in BOOLEAN
        /\ job[s].new.active \in BOOLEAN /\ job[s].new.developer \in BOOLEAN
    BY <2>1 DEF Row
  <2>5. Open(row'[u]) /\ ~Open(row[u]) => By(u, {"register", "activate"})
    <3>1. Open(row'[u]) /\ ~Open(row[u]) => job[s].op = "activate"
      BY <2>1, <2>2, <2>3, <2>4 DEF Open, Access
    <3>2. QED
      BY <1>3, <3>1
  <2>6. Developer(row'[u]) /\ ~Developer(row[u]) => By(u, {"apply", "approve"})
    <3>1. Developer(row'[u]) /\ ~Developer(row[u]) => job[s].op \in Enabling
      BY <2>1, <2>2, <2>3, <2>4 DEF Developer, Access
    <3>2. QED
      BY <1>3, <3>1 DEF Enabling
  <2>7. Admin(row'[u]) /\ ~Admin(row[u]) => By(u, {"role"})
    <3>1. Admin(row'[u]) /\ ~Admin(row[u]) => job[s].op = "role"
      BY <2>1, <2>2, <2>3 DEF Admin, Access
    <3>2. QED
      BY <1>3, <3>1
  <2>8. QED
    BY <1>1, <1>2, <2>5, <2>6, <2>7 DEF Granted, Open, Developer, Admin
<1>7. QED
  BY <1>1, <1>2, <1>4, <1>5, <1>6

LEMMA StepGrants ==
    ASSUME AccountsInv, [Next]_accounts
    PROVE  [Granted]_accounts
<1>1. CASE \E s \in Sessions, u \in Users : Request(s, u) \/ Administer(s, u)
  <2>1. row' = row
    BY <1>1, RequestsLoad DEF Requested, Loads, Load
  <2>2. QED
    BY <2>1 DEF Granted
<1>2. CASE \E s \in Sessions : Commit(s)
  BY <1>2, CommitGrants
<1>3. CASE \E s \in Sessions : Abort(s)
  BY <1>3 DEF Abort, Granted
<1>4. QED
  BY <1>1, <1>2, <1>3 DEF Next

LEMMA AccountsHold == Spec => []AccountsInv
<1>1. Init => AccountsInv
  BY InitKeeps
<1>2. AccountsInv /\ [Next]_accounts => AccountsInv'
  BY AccountsStep
<1>3. QED
  BY <1>1, <1>2, PTL DEF Spec

\* The columns of users, and what the handlers in flight have loaded and will
\* write, are of the types the models of endpoints/auth.py and admin.py declare.
THEOREM AccountTypes == Spec => []TypeOK
<1>1. AccountsInv => TypeOK
  BY DEF AccountsInv
<1>2. QED
  BY <1>1, AccountsHold, PTL

\* No commit brings a used token, a replaced password or PIN or a revoked key
\* back, for any number of handlers that loaded the row before: an UPDATE
\* writes only what its handler has changed, and that is new or NULL.
THEOREM VoidSecrets == Spec => []SecretsStayVoid
<1>1. AccountsInv => SecretsStayVoid
  BY DEF AccountsInv
<1>2. QED
  BY <1>1, AccountsHold, PTL

\* Two accounts have one telephone number only if two requests were writing it
\* at the same time: the checks of auth.py and wallet.py suffice otherwise.
THEOREM PhonesAreApart == Spec => []PhoneNamesOneAccount
<1>1. AccountsInv => PhoneNamesOneAccount
  BY DEF AccountsInv
<1>2. QED
  BY <1>1, AccountsHold, PTL

\* A closed account, a barred developer and a demoted admin come back only by
\* the commit of a request that is for it.
THEOREM AccessStaysGranted == Spec => AccessIsGranted
<1>1. AccountsInv /\ [Next]_accounts => [Granted]_accounts
  BY StepGrants
<1>2. QED
  BY <1>1, AccountsHold, PTL DEF Spec, AccessIsGranted

-----------------------------------------------------------------------------
(***************************************************************************)
(* Bank accounts.                                                          *)
(***************************************************************************)

\* The provider numbers its accounts, and the rows and calls name one.
BankTypeOK ==
    /\ provider \in Providers
    /\ \E k \in Number : opened \in [1..k -> Opened]
    /\ shown \in [Users -> Number]
    /\ failed \in SUBSET Users
    /\ call \in [Sessions -> Call \cup {NoCall}]
    /\ holders \in [1..MaxOpened -> SUBSET Users]

\* Monnify and Billstack have the account for the user who is to see it.
For(n, u) == n \in DOMAIN opened /\ (provider # "paystack" => opened[n].u = u)

Served(s) ==
    call[s] # NoCall =>
        /\ row[call[s].u] # NoRow
        /\ call[s].pc \in {"fetching", "opened"} => For(call[s].number, call[s].u)

BankInv ==
    /\ AccountsInv
    /\ BankTypeOK
    /\ \A s \in Sessions : Served(s)
    /\ \A n \in 1..MaxOpened : holders[n] # {} => \E u \in holders[n] : For(n, u)
    /\ \A u \in Users : shown[u] # 0 => u \in holders[shown[u]]

\* Accounts are opened one after the other, and not given to another user.
LEMMA OpenedGrows ==
    ASSUME BankTypeOK, BankTypeOK', provider' = provider,
           DOMAIN opened \subseteq DOMAIN opened',
           \A n \in DOMAIN opened : opened'[n].u = opened[n].u
    PROVE  \A n, u : For(n, u) => For(n, u)'
BY DEF For

\* What the steps of a call do to it.
LEMMA Answered ==
    ASSUME BankTypeOK, NEW s \in Sessions, call[s] # NoCall,
           NEW pc \in {"calling", "fetching", "opened", "failed"}, NEW n \in Number,
           Answer(s, pc, n)
    PROVE  /\ call' \in [Sessions -> Call \cup {NoCall}]
           /\ \A t \in Sessions \ {s} : call'[t] = call[t]
           /\ call'[s].u = call[s].u /\ call'[s].pc = pc /\ call'[s].number = n
           /\ call[s].u \in Users
<1> DEFINE c == [[call[s] EXCEPT !.pc = pc] EXCEPT !.number = n]
<1>1. call[s] \in Call
  BY DEF BankTypeOK
<1>2. c \in Call /\ c.u = call[s].u /\ c.pc = pc /\ c.number = n /\ call[s].u \in Users
  BY <1>1 DEF Call
<1>3. call' = [call EXCEPT ![s] = c]
  BY DEF Answer
<1> HIDE DEF c
<1>4. QED
  BY <1>2, <1>3 DEF BankTypeOK

LEMMA Called ==
    ASSUME BankTypeOK, NEW s \in Sessions, NEW u \in Users, NEW get \in BOOLEAN,
           Calls(s, u, "calling", get)
    PROVE  /\ call' \in [Sessions -> Call \cup {NoCall}]
           /\ \A t \in Sessions \ {s} : call'[t] = call[t]
           /\ call'[s].u = u /\ call'[s].pc = "calling"
<1> DEFINE c == [u |-> u, pc |-> "calling", get |-> get, number |-> 0]
<1>1. c \in Call /\ c.u = u /\ c.pc = "calling"
  BY MaxOpenedIsNat DEF Call, Number
<1>2. call' = [call EXCEPT ![s] = c]
  BY DEF Calls
<1> HIDE DEF c
<1>3. QED
  BY <1>1, <1>2 DEF BankTypeOK

\* The conjuncts of BankInv that a step can break.
Books ==
    /\ BankTypeOK
    /\ \A s \in Sessions : Served(s)
    /\ \A n \in 1..MaxOpened : holders[n] # {} => \E u \in holders[n] : For(n, u)
    /\ \A u \in Users : shown[u] # 0 => u \in holders[shown[u]]

\* A step of a call leaves the other calls alone, and the rows and books unless
\* it is the insert.
LEMMA CallKeeps ==
    ASSUME BankInv, BankTypeOK', provider' = provider, row' = row,
           NEW s \in Sessions, \A t \in Sessions \ {s} : call'[t] = call[t],
           Served(s)', \A n, u : For(n, u) => For(n, u)',
           holders' = holders,
           \A u \in Users : shown'[u] # 0 => shown'[u] = shown[u]
    PROVE  Books'
<1>1. \A t \in Sessions : Served(t)'
  BY DEF BankInv, Served
<1>2. QED
  BY <1>1 DEF BankInv, Books

LEMMA RequestBooks ==
    ASSUME BankInv, UNCHANGED banks, \A u \in Users : row[u] # NoRow => row'[u] # NoRow
    PROVE  Books'
<1>1. BankTypeOK'
  BY DEF BankInv, BankTypeOK, banks
<1>2. \A n, u : For(n, u) => For(n, u)'
  BY DEF For, banks
<1>3. ASSUME NEW t \in Sessions PROVE Served(t)'
  <2>1. call[t] # NoCall => call[t].u \in Users
    BY DEF BankInv, BankTypeOK, Call
  <2>2. QED
    BY <1>2, <2>1 DEF BankInv, Served, banks
<1>4. QED
  BY <1>1, <1>2, <1>3 DEF BankInv, Books, banks

LEMMA AskedBooks ==
    ASSUME BankInv, NEW s \in Sessions, NEW u \in Users,
           GetAccounts(s, u) \/ RefreshAccounts(s, u)
    PROVE  Books'
<1>1. \E get \in BOOLEAN : Calls(s, u, "calling", get)
  BY DEF GetAccounts, RefreshAccounts
<1>2. /\ call' \in [Sessions -> Call \cup {NoCall}]
      /\ \A t \in Sessions \ {s} : call'[t] = call[t]
      /\ call'[s].u = u /\ call'[s].pc = "calling"
  BY <1>1, Called DEF BankInv
<1>3. /\ row' = row /\ provider' = provider /\ opened' = opened /\ holders' = holders
      /\ row[u] # NoRow /\ failed' \in SUBSET Users
      /\ shown' \in [Users -> Number]
      /\ \A v \in Users : shown'[v] # 0 => shown'[v] = shown[v]
  <2>1. CASE GetAccounts(s, u)
    BY <2>1 DEF GetAccounts, Signed, accounts, BankInv, BankTypeOK
  <2>2. CASE RefreshAccounts(s, u)
    <3>1. 0 \in Number
      BY MaxOpenedIsNat DEF Number
    <3>2. /\ row' = row /\ provider' = provider /\ opened' = opened /\ holders' = holders
          /\ row[u] # NoRow /\ failed' = failed \ {u} /\ shown' = [shown EXCEPT ![u] = 0]
      BY <2>2 DEF RefreshAccounts, Signed, accounts
    <3>3. QED
      BY <3>1, <3>2 DEF BankInv, BankTypeOK
  <2>3. QED
    BY <2>1, <2>2
<1>4. BankTypeOK'
  BY <1>2, <1>3 DEF BankInv, BankTypeOK
<1>5. Served(s)'
  BY <1>2, <1>3 DEF Served
<1>6. \A n, v : For(n, v) => For(n, v)'
  BY <1>3 DEF For
<1>7. QED
  BY <1>2, <1>3, <1>4, <1>5, <1>6, CallKeeps

LEMMA ForgottenBooks ==
    ASSUME BankInv, NEW u \in Users, ForgetAccounts(u)
    PROVE  Books'
<1>1. /\ row' = row /\ provider' = provider /\ opened' = opened /\ holders' = holders
      /\ call' = call /\ failed' \in SUBSET Users
      /\ shown' \in [Users -> Number]
      /\ \A v \in Users : shown'[v] # 0 => shown'[v] = shown[v]
  BY MaxOpenedIsNat
     DEF ForgetAccounts, accounts, BankInv, BankTypeOK, Number
<1>2. BankTypeOK'
  BY <1>1 DEF BankInv, BankTypeOK
<1>3. \A n, v : For(n, v) => For(n, v)'
  BY <1>1 DEF For
<1>4. \A t \in Sessions : Served(t)'
  BY <1>1, <1>3 DEF BankInv, Served
<1>5. QED
  BY <1>1, <1>2, <1>3, <1>4 DEF BankInv, Books

\* A call that ends takes nothing with it.
LEMMA EndedBooks ==
    ASSUME BankInv, NEW s \in Sessions,
           call' = [call EXCEPT ![s] = NoCall],
           UNCHANGED <<row, provider, opened, shown, holders>>,
           failed' \in SUBSET Users
    PROVE  Books'
<1>1. /\ call' \in [Sessions -> Call \cup {NoCall}] /\ call'[s] = NoCall
      /\ \A t \in Sessions \ {s} : call'[t] = call[t]
  BY DEF BankInv, BankTypeOK
<1>2. BankTypeOK'
  BY <1>1 DEF BankInv, BankTypeOK
<1>3. \A n, v : For(n, v) => For(n, v)'
  BY DEF For
<1>4. Served(s)'
  BY <1>1 DEF Served
<1>5. QED
  BY <1>1, <1>2, <1>3, <1>4, CallKeeps

LEMMA RefusedBooks ==
    ASSUME BankInv, NEW s \in Sessions, Refuse(s)
    PROVE  Books'
<1>1. call[s] # NoCall /\ Answer(s, "failed", 0) /\ 0 \in Number
      /\ row' = row /\ provider' = provider /\ opened' = opened /\ shown' = shown
      /\ failed' = failed /\ holders' = holders
  BY MaxOpenedIsNat DEF Refuse, Number
<1>2. /\ call' \in [Sessions -> Call \cup {NoCall}]
      /\ \A t \in Sessions \ {s} : call'[t] = call[t]
      /\ call'[s].u = call[s].u /\ call'[s].pc = "failed"
  BY <1>1, Answered DEF BankInv
<1>3. BankTypeOK'
  BY <1>1, <1>2 DEF BankInv, BankTypeOK
<1>4. \A n, v : For(n, v) => For(n, v)'
  BY <1>1 DEF For
<1>5. Served(s)'
  BY <1>1, <1>2 DEF BankInv, Served
<1>6. QED
  BY <1>1, <1>2, <1>3, <1>4, <1>5, CallKeeps

\* The provider returns an account it has.
LEMMA ReturnedBooks ==
    ASSUME BankInv, NEW s \in Sessions, Return(s)
    PROVE  Books'
<1>1. PICK n \in Existing(call[s].u) :
          /\ Answer(s, IF provider = "monnify" THEN "fetching" ELSE "opened", n)
          /\ opened' = [opened EXCEPT ![n].phone =
                           IF provider = "paystack" /\ @ = NoPhone
                           THEN row[call[s].u].phone ELSE @]
  BY DEF Return
<1>2. /\ call[s] # NoCall /\ row' = row /\ provider' = provider /\ shown' = shown
      /\ failed' = failed /\ holders' = holders
  BY DEF Return, accounts
<1>3. call[s].u \in Users /\ row[call[s].u] # NoRow
  BY <1>2 DEF BankInv, BankTypeOK, Served, Call
<1>4. PICK k \in Number : opened \in [1..k -> Opened]
  BY DEF BankInv, BankTypeOK
<1>5. n \in 1..k /\ For(n, call[s].u)
  BY <1>4 DEF Existing, For, BankInv, BankTypeOK, Providers
<1>6. n \in Number
  BY <1>4, <1>5, MaxOpenedIsNat DEF Number
<1> DEFINE phone == IF provider = "paystack" /\ opened[n].phone = NoPhone
                    THEN row[call[s].u].phone ELSE opened[n].phone
           o == [opened[n] EXCEPT !.phone = phone]
<1>7. o \in Opened /\ o.u = opened[n].u
  <2>1. opened[n] \in Opened /\ row[call[s].u] \in Row
    BY <1>3, <1>4, <1>5 DEF BankInv, AccountsInv, TypeOK
  <2>2. phone \in Phone \cup {NoPhone}
    BY <2>1 DEF Opened, Row
  <2> HIDE DEF phone
  <2>3. QED
    BY <2>1, <2>2 DEF Opened
<1>8. opened' = [opened EXCEPT ![n] = o]
  BY <1>1
<1> HIDE DEF o
<1>9. /\ opened' \in [1..k -> Opened]
      /\ \A m \in 1..k : opened'[m].u = opened[m].u
  BY <1>4, <1>5, <1>7, <1>8
<1>10. /\ call' \in [Sessions -> Call \cup {NoCall}]
       /\ \A t \in Sessions \ {s} : call'[t] = call[t]
       /\ call'[s].u = call[s].u /\ call'[s].number = n
  <2>1. CASE provider = "monnify"
    BY <1>1, <1>2, <1>6, <2>1, Answered DEF BankInv
  <2>2. CASE provider # "monnify"
    BY <1>1, <1>2, <1>6, <2>2, Answered DEF BankInv
  <2>3. QED
    BY <2>1, <2>2
<1>11. BankTypeOK'
  BY <1>2, <1>4, <1>9, <1>10 DEF BankInv, BankTypeOK
<1>12. \A m, v : For(m, v) => For(m, v)'
  BY <1>2, <1>4, <1>9 DEF For
<1>13. Served(s)'
  BY <1>2, <1>3, <1>5, <1>10, <1>12 DEF Served
<1>14. QED
  BY <1>2, <1>10, <1>11, <1>12, <1>13, CallKeeps

LEMMA FetchedBooks ==
    ASSUME BankInv, NEW s \in Sessions, Fetch(s)
    PROVE  Books'
<1>1. /\ call[s] # NoCall /\ call[s].pc = "fetching"
      /\ Answer(s, "opened", call[s].number) /\ call[s].number \in Number
      /\ row' = row /\ provider' = provider /\ opened' = opened /\ shown' = shown
      /\ failed' = failed /\ holders' = holders
  BY DEF Fetch, accounts, BankInv, BankTypeOK, Call
<1>2. /\ call' \in [Sessions -> Call \cup {NoCall}]
      /\ \A t \in Sessions \ {s} : call'[t] = call[t]
      /\ call'[s].u = call[s].u /\ call'[s].number = call[s].number
  BY <1>1, Answered DEF BankInv
<1>3. BankTypeOK'
  BY <1>1, <1>2 DEF BankInv, BankTypeOK
<1>4. \A n, v : For(n, v) => For(n, v)'
  BY <1>1 DEF For
<1>5. Served(s)'
  BY <1>1, <1>2, <1>4 DEF BankInv, Served
<1>6. QED
  BY <1>1, <1>2, <1>3, <1>4, <1>5, CallKeeps

LEMMA OpenedBooks ==
    ASSUME BankInv, NEW s \in Sessions, OpenAccount(s)
    PROVE  Books'
<1> DEFINE n == Cardinality(DOMAIN opened) + 1
           o == [u |-> call[s].u, email |-> row[call[s].u].email,
                 phone |-> row[call[s].u].phone]
<1>1. /\ call[s] # NoCall /\ n <= MaxOpened
      /\ opened' = [m \in 1..n |-> IF m < n THEN opened[m] ELSE o]
      /\ Answer(s, "opened", n)
      /\ row' = row /\ provider' = provider /\ shown' = shown
      /\ failed' = failed /\ holders' = holders
  BY DEF OpenAccount, accounts
<1>2. PICK k \in Number : opened \in [1..k -> Opened]
  BY DEF BankInv, BankTypeOK
<1>3. n = k + 1 /\ k \in Nat
  <2>1. k \in Nat /\ DOMAIN opened = 1..k
    BY <1>2, MaxOpenedIsNat DEF Number
  <2>2. Cardinality(1..k) = k
    BY <2>1, FS_Interval
  <2>3. QED
    BY <2>1, <2>2
<1>4. call[s].u \in Users /\ row[call[s].u] # NoRow
  BY <1>1 DEF BankInv, BankTypeOK, Served, Call
<1>5. o \in Opened /\ o.u = call[s].u
  <2>1. row[call[s].u] \in Row
    BY <1>4 DEF BankInv, AccountsInv, TypeOK
  <2>2. QED
    BY <1>4, <2>1 DEF Opened, Row
<1> HIDE DEF n, o
<1>6. /\ n \in Number /\ opened' \in [1..n -> Opened]
      /\ \A m \in 1..k : m \in 1..n /\ opened'[m] = opened[m]
      /\ n \in 1..n /\ opened'[n] = o
  BY <1>1, <1>2, <1>3, <1>5, MaxOpenedIsNat DEF Number
<1>7. /\ call' \in [Sessions -> Call \cup {NoCall}]
      /\ \A t \in Sessions \ {s} : call'[t] = call[t]
      /\ call'[s].u = call[s].u /\ call'[s].number = n
  BY <1>1, <1>6, Answered DEF BankInv
<1>8. BankTypeOK'
  BY <1>1, <1>6, <1>7 DEF BankInv, BankTypeOK
<1>9. \A m, v : For(m, v) => For(m, v)'
  BY <1>1, <1>2, <1>6 DEF For
<1>10. Served(s)'
  BY <1>1, <1>4, <1>5, <1>6, <1>7 DEF Served, For
<1>11. QED
  BY <1>1, <1>7, <1>8, <1>9, <1>10, CallKeeps

\* The user is given the number, or another request was faster.
LEMMA InsertedBooks ==
    ASSUME BankInv, NEW s \in Sessions, Insert(s)
    PROVE  Books'
<1>a. PICK u \in Users, n \in Number : call[s].u = u /\ call[s].number = n
  BY DEF Insert, BankInv, BankTypeOK, Call
<1>1. call[s] # NoCall /\ For(n, u)
  BY <1>a DEF Insert, BankInv, Served
<1>2. CASE shown[u] # 0
  <2>1. /\ call' = [call EXCEPT ![s] = NoCall]
        /\ row' = row /\ provider' = provider /\ opened' = opened /\ shown' = shown
        /\ holders' = holders /\ failed' \in SUBSET Users
    BY <1>a, <1>2 DEF Insert, accounts, BankInv, BankTypeOK
  <2>2. QED
    BY <2>1, EndedBooks
<1>3. CASE shown[u] = 0
  <2>1. /\ call' = [call EXCEPT ![s] = NoCall]
        /\ row' = row /\ provider' = provider /\ opened' = opened /\ failed' = failed
        /\ shown' = [shown EXCEPT ![u] = n]
        /\ holders' = [holders EXCEPT ![n] = holders[n] \cup {u}]
    BY <1>a, <1>3 DEF Insert, accounts
  <2>2. n \in 1..MaxOpened
    <3>1. PICK k \in Number : DOMAIN opened = 1..k
      BY DEF BankInv, BankTypeOK
    <3>2. QED
      BY <1>1, <3>1, MaxOpenedIsNat DEF For, Number
  <2>3. /\ call' \in [Sessions -> Call \cup {NoCall}] /\ call'[s] = NoCall
        /\ \A t \in Sessions \ {s} : call'[t] = call[t]
    BY <2>1 DEF BankInv, BankTypeOK
  <2>4. BankTypeOK'
    BY <1>1, <2>1, <2>2, <2>3 DEF BankInv, BankTypeOK
  <2>5. \A m, v : For(m, v) => For(m, v)'
    BY <2>1 DEF For
  <2>6. \A t \in Sessions : Served(t)'
    BY <2>1, <2>3, <2>5 DEF BankInv, Served
  <2>7. /\ \A m \in 1..MaxOpened \ {n} : holders'[m] = holders[m]
        /\ holders'[n] = holders[n] \cup {u}
        /\ \A v \in Users \ {u} : shown'[v] = shown[v]
        /\ shown'[u] = n
    BY <1>1, <2>1, <2>2 DEF BankInv, BankTypeOK
  <2>8. \A m \in 1..MaxOpened : holders'[m] # {} => \E v \in holders'[m] : For(m, v)'
    <3>1. u \in holders'[n] /\ For(n, u)'
      BY <1>1, <2>5, <2>7
    <3>2. ASSUME NEW m \in 1..MaxOpened \ {n}, holders'[m] # {}
          PROVE  \E v \in holders'[m] : For(m, v)'
      BY <2>5, <2>7, <3>2 DEF BankInv
    <3>3. QED
      BY <3>1, <3>2
  <2>9. ASSUME NEW v \in Users, shown'[v] # 0 PROVE v \in holders'[shown'[v]]
    <3>1. CASE v = u
      BY <2>7, <3>1
    <3>2. CASE v # u
      <4>1. shown'[v] = shown[v] /\ v \in holders[shown[v]] /\ shown[v] \in Number \ {0}
        BY <2>7, <2>9, <3>2 DEF BankInv, BankTypeOK
      <4>2. shown[v] \in 1..MaxOpened
        BY <4>1, MaxOpenedIsNat DEF Number
      <4>3. QED
        BY <2>7, <4>1, <4>2
    <3>3. QED
      BY <3>1, <3>2
  <2>10. QED
    BY <2>4, <2>6, <2>8, <2>9 DEF Books
<1>4. QED
  BY <1>2, <1>3

LEMMA AdvanceBooks ==
    ASSUME BankInv, NEW s \in Sessions, Advance(s)
    PROVE  Books' /\ accounts' = accounts
<1>1. Return(s) \/ Fetch(s) \/ OpenAccount(s) \/ Insert(s) \/ GiveUp(s)
  BY DEF Advance, GetFromPaystack, GetFromBillstack, PostToPaystack, PostToMonnify,
         PostToBillstack, Outcome
<1>2. CASE GiveUp(s)
  <2>1. /\ call' = [call EXCEPT ![s] = NoCall]
        /\ row' = row /\ provider' = provider /\ opened' = opened /\ shown' = shown
        /\ holders' = holders /\ failed' \in SUBSET Users
    BY <1>2 DEF GiveUp, accounts, BankInv, BankTypeOK, Call
  <2>2. QED
    BY <1>2, <2>1, EndedBooks DEF GiveUp
<1>3. CASE Return(s)
  BY <1>3, ReturnedBooks DEF Return
<1>4. CASE Fetch(s)
  BY <1>4, FetchedBooks DEF Fetch
<1>5. CASE OpenAccount(s)
  BY <1>5, OpenedBooks DEF OpenAccount
<1>6. CASE Insert(s)
  BY <1>6, InsertedBooks DEF Insert
<1>7. QED
  BY <1>1, <1>2, <1>3, <1>4, <1>5, <1>6

LEMMA BankInitKeeps == BankInit => BankInv
<1> SUFFICES ASSUME BankInit PROVE BankInv
  OBVIOUS
<1>1. AccountsInv
  BY InitKeeps DEF BankInit
<1>2. /\ provider \in Providers /\ opened = <<>> /\ failed = {}
      /\ shown = [u \in Users |-> 0]
      /\ call = [s \in Sessions |-> NoCall]
      /\ holders = [n \in 1..MaxOpened |-> {}]
      /\ 0 \in Number
  BY MaxOpenedIsNat DEF BankInit, Number
<1>3. opened \in [1..0 -> Opened]
  BY <1>2
<1>4. BankTypeOK
  BY <1>2, <1>3 DEF BankTypeOK
<1>5. QED
  BY <1>1, <1>2, <1>4 DEF BankInv, Served

LEMMA BankStep ==
    ASSUME BankInv, [BankNext]_vars
    PROVE  BankInv' /\ ([Next]_accounts \/ row' = row)
<1>1. AccountsInv /\ begun \in 0..MaxRequests
  BY DEF BankInv, AccountsInv, TypeOK
<1>2. Books' /\ AccountsInv' => BankInv'
  BY DEF Books, BankInv
<1>3. CASE UNCHANGED banks /\ \E s \in Sessions, u \in Users :
               call[s] = NoCall /\ (Request(s, u) \/ Administer(s, u))
  <2>1. row' = row
    BY <1>1, <1>3, RequestsLoad DEF Requested, Loads, Load
  <2>2. [Next]_accounts
    BY <1>3 DEF Next
  <2>3. QED
    BY <1>1, <1>2, <1>3, <2>1, <2>2, AccountsStep, RequestBooks
<1>4. CASE UNCHANGED banks /\ \E s \in Sessions : Commit(s) \/ Abort(s)
  <2>1. [Next]_accounts
    BY <1>4 DEF Next
  <2>2. \A u \in Users : row[u] # NoRow => row'[u] # NoRow
    <3>1. CASE \E s \in Sessions : Commit(s)
      <4>1. PICK s \in Sessions : Commit(s)
        BY <3>1
      <4>2. job[s] \in Job
        BY <1>1, <4>1, CommitRow
      <4>3. PICK u \in Users : job[s].u = u
        BY <4>2 DEF Job
      <4>4. QED
        BY <1>1, <4>1, <4>3, CommitFields
    <3>2. CASE \E s \in Sessions : Abort(s)
      BY <3>2 DEF Abort
    <3>3. QED
      BY <1>4, <3>1, <3>2
  <2>3. QED
    BY <1>1, <1>2, <1>4, <2>1, <2>2, AccountsStep, RequestBooks
<1>5. CASE \E s \in Sessions, u \in Users : GetAccounts(s, u) \/ RefreshAccounts(s, u)
  <2>1. accounts' = accounts
    BY <1>5 DEF GetAccounts, RefreshAccounts
  <2>2. QED
    BY <1>1, <1>2, <1>5, <2>1, AskedBooks, RestKeeps DEF accounts
<1>6. CASE \E s \in Sessions : Advance(s)
  BY <1>1, <1>2, <1>6, AdvanceBooks, RestKeeps DEF accounts
<1>7. CASE \E s \in Sessions : Refuse(s)
  <2>1. UNCHANGED <<row, issued, job, void, raced>> /\ begun' \in 0..MaxRequests
    BY <1>1, <1>7, BoundsAreNat DEF Refuse, Fault
  <2>2. QED
    BY <1>1, <1>2, <1>7, <2>1, RefusedBooks, RestKeeps
<1>8. CASE \E s \in Sessions : Die(s)
  <2>1. UNCHANGED <<row, issued, job, void, raced>> /\ begun' \in 0..MaxRequests
    BY <1>1, <1>8, BoundsAreNat DEF Die, Fault
  <2>2. Books'
    <3>1. PICK s \in Sessions : Die(s)
      BY <1>8
    <3>2. failed' \in SUBSET Users
      BY <3>1 DEF Die, BankInv, BankTypeOK
    <3>3. QED
      BY <3>1, <3>2, EndedBooks DEF Die
  <2>3. QED
    BY <1>1, <1>2, <2>1, <2>2, RestKeeps
<1>9. CASE \E u \in Users : ForgetAccounts(u)
  <2>1. accounts' = accounts
    BY <1>9 DEF ForgetAccounts
  <2>2. QED
    BY <1>1, <1>2, <1>9, <2>1, ForgottenBooks, RestKeeps DEF accounts
<1>10. CASE UNCHANGED vars
  BY <1>1, <1>2, <1>10, RequestBooks, RestKeeps DEF vars, accounts
<1>11. QED
  BY <1>3, <1>4, <1>5, <1>6, <1>7, <1>8, <1>9, <1>10 DEF BankNext

LEMMA BankStepGrants ==
    ASSUME BankInv, [BankNext]_vars
    PROVE  [Granted]_accounts
<1>1. CASE [Next]_accounts
  BY <1>1, StepGrants DEF BankInv
<1>2. CASE row' = row
  BY <1>2 DEF Granted
<1>3. QED
  BY <1>1, <1>2, BankStep

LEMMA HoldersAreCredited == BankInv => HolderIsCredited
<1> SUFFICES ASSUME BankInv, NEW n \in DOMAIN opened, NEW sender \in Named \cup {NoPhone},
                    holders[n] # {}
             PROVE  IF provider = "paystack"
                    THEN LET reached == /\ opened[n].email \notin Capitals
                                        /\ ByEmail(opened[n].email) # {}
                         IN  reached => PaystackFinds(n, sender) \subseteq holders[n] \cup Heirs(n)
                    ELSE /\ ReferenceFinds(n, TRUE) \subseteq holders[n]
                         /\ ReferenceFinds(n, FALSE) \subseteq holders[n] \cup Heirs(n)
  BY DEF HolderIsCredited
<1>1. ByEmail(opened[n].email) \subseteq Heirs(n)
  BY DEF ByEmail, Heirs
<1>2. n \in 1..MaxOpened
  <2>1. PICK k \in Number : DOMAIN opened = 1..k
    BY DEF BankInv, BankTypeOK
  <2>2. QED
    BY <2>1, MaxOpenedIsNat DEF Number
<1>3. CASE provider = "paystack"
  BY <1>1, <1>3 DEF PaystackFinds
<1>4. CASE provider # "paystack"
  <2>1. opened[n].u \in holders[n]
    BY <1>2, <1>4 DEF BankInv, For
  <2>2. {u \in Users : shown[u] = n} \subseteq holders[n]
    BY <1>2 DEF BankInv
  <2>3. QED
    BY <1>1, <1>4, <2>1, <2>2 DEF ReferenceFinds
<1>5. QED
  BY <1>3, <1>4

LEMMA BanksHold == BankSpec => []BankInv
<1>1. BankInv /\ [BankNext]_vars => BankInv'
  BY BankStep
<1>2. QED
  BY <1>1, BankInitKeeps, PTL DEF BankSpec

\* A transfer into an account is credited to a user who was given its number,
\* or, as the webhooks look for users, to whoever has the e-mail address
\* by now, for any number of users, requests and accounts.
THEOREM TransfersFindHolders == BankSpec => []HolderIsCredited
<1>1. QED
  BY HoldersAreCredited, BanksHold, PTL

\* The calls for bank accounts change nothing in what Accounts proves of the
\* users table.
THEOREM BanksLeaveAccounts ==
    BankSpec => [](SecretsStayVoid /\ PhoneNamesOneAccount) /\ AccessIsGranted
<1>1. BankInv => SecretsStayVoid /\ PhoneNamesOneAccount
  BY DEF BankInv, AccountsInv
<1>2. BankInv /\ [BankNext]_vars => [Granted]_accounts
  BY BankStepGrants
<1>3. QED
  BY <1>1, <1>2, BanksHold, PTL DEF BankSpec, AccessIsGranted
=============================================================================
