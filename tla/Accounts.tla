------------------------------ MODULE Accounts ------------------------------
(***************************************************************************)
(* The users table: registration, tokens, passwords, PINs, developer       *)
(* access and the admin's switches (endpoints/auth.py, security.py,        *)
(* developer.py, wallet.py, admin.py; services/transaction_pin.py).        *)
(*                                                                         *)
(* Every handler loads a row, decides, and commits.  In between other      *)
(* handlers commit the same row.  What a commit writes is what SQLAlchemy  *)
(* puts into its UPDATE: the columns whose new value differs from the      *)
(* loaded one.  Every password, PIN, key and token is a number of its own, *)
(* 0 for NULL.  That a token expires only keeps its handler from running,  *)
(* which it need not do anyway; rate limits likewise.                      *)
(***************************************************************************)
EXTENDS Naturals, FiniteSets

CONSTANTS
    Users,       \* rows of the users table
    Emails,
    Numbers,     \* telephone numbers
    Spellings,   \* how clients write them: with 234 or with 0 in front
    Sessions,    \* requests in flight
    NoRow,       \* a row that does not exist yet
    NoPhone,     \* users.phone_number is NULL
    NoJob,       \* what an idle session does
    Offered,     \* the operations an instance has
    MaxSecrets,  \* bound: secrets made in a run
    MaxRequests  \* bound: requests made in a run

Operations ==
    {"register", "verify", "forgot", "reset", "password", "profile", "delete",
     "setup", "change", "pinRequest", "pinReset", "transferPhone",
     "apply", "generate", "revoke", "approve", "bar", "role",
     "suspend", "activate", "remove"}

ASSUME SpellingsAreTwo == Spellings \subseteq {"234", "0"}
ASSUME OfferedAreOperations == Offered \subseteq Operations
ASSUME BoundsAreNat == {MaxSecrets, MaxRequests} \subseteq Nat

Secret == 0..MaxSecrets

\* A number is stored as the client wrote it, with 234 or with 0 in front, and
\* a deleted account keeps it with a suffix.
Phone == [number : Numbers, written : {"234", "0"}, suffixed : BOOLEAN]

Row == [email : Emails, suffixed : BOOLEAN, phone : Phone \cup {NoPhone},
        active : BOOLEAN, password : Secret, reset : Secret, verify : Secret,
        pin : Secret, pinReset : Secret, key : Secret,
        status : {"none", "approved", "suspended"}, developer : BOOLEAN,
        role : {"USER", "RESELLER", "ADMIN"}]

ASSUME NoRowIsNoRow == NoRow \notin Row

Secrets == {"password", "reset", "verify", "pin", "pinReset", "key"}

Job == [u : Users, op : Operations, seen : Row \cup {NoRow}, new : Row,
        ends : SUBSET Secret]

VARIABLES
    row,     \* users
    issued,  \* how many secrets were made
    begun,   \* how many requests were made
    job,     \* what each session does
    void,    \* history: secrets that were used up, replaced or withdrawn
    raced    \* history: numbers that two sessions were writing at once

accounts == <<row, issued, begun, job, void, raced>>

Init ==
    /\ row = [u \in Users |-> NoRow]
    /\ issued = 0
    /\ begun = 0
    /\ job = [s \in Sessions |-> NoJob]
    /\ void = {}
    /\ raced = {}

-----------------------------------------------------------------------------
(***************************************************************************)
(* Requests.                                                               *)
(***************************************************************************)
Fresh == issued + 1

\* The telephone number a session is about to write, if any.
Writing(s) ==
    IF job[s] # NoJob /\ job[s].op \in {"register", "profile", "transferPhone"}
                      /\ job[s].new.phone # NoPhone
    THEN {job[s].new.phone.number} ELSE {}

\* A session has loaded the row of u and will commit it as new, with n new
\* secrets.  It puts an end to those in ends.
Load(s, u, op, new, n, ends) ==
    /\ job[s] = NoJob /\ op \in Offered
    /\ issued + n <= MaxSecrets
    /\ issued' = issued + n
    /\ begun < MaxRequests /\ begun' = begun + 1
    /\ job' = [job EXCEPT ![s] = [u |-> u, op |-> op, seen |-> row[u], new |-> new,
                                  ends |-> ends \ {0}]]
    /\ raced' = raced \cup
           IF op \in {"register", "profile", "transferPhone"} /\ new.phone # NoPhone
           THEN {new.phone.number} \cap UNION {Writing(t) : t \in Sessions \ {s}}
           ELSE {}
    /\ UNCHANGED <<row, void>>

Signed(u) == row[u] # NoRow /\ row[u].active

\* The phone number a client names, as _normalize_phone leaves it.
Named == [number : Numbers, written : Spellings, suffixed : {FALSE}]

Registered(phone) == \E u \in Users : row[u] # NoRow /\ row[u].phone = phone

Register(s, u, email, phone) ==
    /\ row[u] = NoRow
    /\ \A v \in Users : row[v] # NoRow => row[v].email # email \/ row[v].suffixed
    /\ phone # NoPhone => ~Registered(phone)
    /\ Load(s, u, "register",
            [email |-> email, suffixed |-> FALSE, phone |-> phone, active |-> TRUE,
             password |-> Fresh, reset |-> 0, verify |-> Fresh + 1, pin |-> 0,
             pinReset |-> 0, key |-> 0, status |-> "none", developer |-> FALSE,
             role |-> "USER"], 2, {})

VerifyEmail(s, u) ==
    /\ row[u] # NoRow /\ row[u].verify # 0
    /\ Load(s, u, "verify", [row[u] EXCEPT !.verify = 0], 0, {row[u].verify})

ForgotPassword(s, u) ==
    /\ row[u] # NoRow /\ ~row[u].suffixed
    /\ Load(s, u, "forgot", [row[u] EXCEPT !.reset = Fresh], 1, {row[u].reset})

\* Mutant: the token is not cleared.
ResetPassword_KeepsToken(s, u) ==
    /\ row[u] # NoRow /\ row[u].reset # 0
    /\ Load(s, u, "reset", [row[u] EXCEPT !.password = Fresh],
            1, {row[u].password, row[u].reset})

ResetPassword(s, u) ==
    /\ row[u] # NoRow /\ row[u].reset # 0
    /\ Load(s, u, "reset", [row[u] EXCEPT !.password = Fresh, !.reset = 0],
            1, {row[u].password, row[u].reset})

ChangePassword(s, u) ==
    /\ Signed(u)
    /\ Load(s, u, "password", [row[u] EXCEPT !.password = Fresh, !.reset = 0],
            1, {row[u].password, row[u].reset})

\* Mutant: the number may be another account's.
UpdateMe_AnyPhone(s, u, phone) ==
    /\ Signed(u)
    /\ Load(s, u, "profile", [row[u] EXCEPT !.phone = phone], 0, {})

\* update_me: the number may not be another account's, as it is written.
UpdateMe(s, u, phone) ==
    /\ Signed(u)
    /\ \A v \in Users \ {u} : row[v] # NoRow /\ phone # NoPhone => row[v].phone # phone
    /\ Load(s, u, "profile", [row[u] EXCEPT !.phone = phone], 0, {})

Suffixed(r) ==
    [r EXCEPT !.suffixed = TRUE, !.active = FALSE, !.reset = 0, !.verify = 0,
              !.phone = IF r.phone = NoPhone THEN NoPhone
                        ELSE [r.phone EXCEPT !.suffixed = TRUE]]

DeleteMe(s, u) ==
    /\ Signed(u)
    /\ Load(s, u, "delete", Suffixed(row[u]), 0, {row[u].reset, row[u].verify})

-----------------------------------------------------------------------------
(***************************************************************************)
(* The transaction PIN.  set_pin withdraws an outstanding reset token.     *)
(***************************************************************************)
PinSetup(s, u) ==
    /\ Signed(u) /\ row[u].pin = 0
    /\ Load(s, u, "setup", [row[u] EXCEPT !.pin = Fresh, !.pinReset = 0],
            1, {row[u].pinReset})

PinChange(s, u) ==
    /\ Signed(u) /\ row[u].pin # 0
    /\ Load(s, u, "change", [row[u] EXCEPT !.pin = Fresh, !.pinReset = 0],
            1, {row[u].pin, row[u].pinReset})

PinResetRequest(s, u) ==
    /\ Signed(u) /\ row[u].pin # 0
    /\ Load(s, u, "pinRequest", [row[u] EXCEPT !.pinReset = Fresh],
            1, {row[u].pinReset})

PinResetConfirm(s, u) ==
    /\ row[u] # NoRow /\ row[u].pinReset # 0
    /\ Load(s, u, "pinReset", [row[u] EXCEPT !.pin = Fresh, !.pinReset = 0],
            1, {row[u].pin, row[u].pinReset})

-----------------------------------------------------------------------------
(***************************************************************************)
(* The number given with a request for bank accounts: stored with a 0, and *)
(* compared with all others however they are written (_phone_variants).    *)
(* The digits of a suffix are part of the stored number, but 234 and ten   *)
(* digits in front of it still match.                                      *)
(***************************************************************************)
Variant(p, q) ==
    /\ p.number = q.number
    /\ p.suffixed => p.written = "234"

TakenByVariant(u, phone) ==
    \E v \in Users \ {u} :
        row[v] # NoRow /\ row[v].phone # NoPhone /\ Variant(row[v].phone, phone)

TransferPhone(s, u, phone) ==
    LET canonical == [phone EXCEPT !.written = "0"]
    IN  /\ Signed(u)
        /\ canonical # row[u].phone
        /\ ~TakenByVariant(u, canonical)
        /\ Load(s, u, "transferPhone", [row[u] EXCEPT !.phone = canonical], 0, {})

-----------------------------------------------------------------------------
(***************************************************************************)
(* Developers, and the admin.                                              *)
(***************************************************************************)
ApplyDeveloper(s, u) ==
    /\ Signed(u) /\ row[u].status = "none"
    /\ Load(s, u, "apply",
            [row[u] EXCEPT !.status = "approved", !.developer = TRUE, !.key = Fresh,
                           !.role = IF @ = "USER" THEN "RESELLER" ELSE @],
            1, {row[u].key})

GenerateKeys(s, u) ==
    /\ Signed(u) /\ row[u].status = "approved" /\ row[u].developer
    /\ Load(s, u, "generate", [row[u] EXCEPT !.key = Fresh], 1, {row[u].key})

RevokeKeys(s, u) ==
    /\ Signed(u)
    /\ Load(s, u, "revoke", [row[u] EXCEPT !.key = 0], 0, {row[u].key})

ApproveDeveloper(s, u) ==
    /\ row[u] # NoRow
    /\ Load(s, u, "approve",
            [row[u] EXCEPT !.status = "approved", !.developer = TRUE], 0, {})

SuspendDeveloper(s, u) ==
    /\ row[u] # NoRow
    /\ Load(s, u, "bar",
            [row[u] EXCEPT !.status = "suspended", !.developer = FALSE], 0, {})

UpdateUserRole(s, u, role) ==
    /\ row[u] # NoRow
    /\ Load(s, u, "role", [row[u] EXCEPT !.role = role], 0, {})

SuspendUser(s, u) ==
    /\ row[u] # NoRow
    /\ Load(s, u, "suspend", [row[u] EXCEPT !.active = FALSE], 0, {})

ActivateUser(s, u) ==
    /\ row[u] # NoRow
    /\ Load(s, u, "activate", [row[u] EXCEPT !.active = TRUE], 0, {})

\* delete_user: any account, also one that is deleted already.
DeleteUser(s, u) ==
    /\ row[u] # NoRow
    /\ Load(s, u, "remove", Suffixed(row[u]), 0, {row[u].reset, row[u].verify})

-----------------------------------------------------------------------------
(***************************************************************************)
(* Commits.                                                                *)
(***************************************************************************)

\* Mutant: every column is written back, changed or not.
Written_Everything(now, seen, new) == new

\* The row after an UPDATE of the columns that differ.
Written(now, seen, new) ==
    [column \in DOMAIN now |-> IF new[column] # seen[column] THEN new[column]
                               ELSE now[column]]

\* users.email is unique.
EmailFree(u, email) ==
    \A v \in Users \ {u} : row[v] # NoRow => row[v].email # email \/ row[v].suffixed

\* The session commits, or (a second registration of one email) fails.
Commit(s) ==
    /\ job[s] # NoJob
    /\ LET j == job[s]
       IN  IF j.op = "register"
           THEN row' = [row EXCEPT ![j.u] = IF @ = NoRow /\ EmailFree(j.u, j.new.email)
                                            THEN j.new ELSE @]
           ELSE row' = [row EXCEPT ![j.u] = Written(@, j.seen, j.new)]
    /\ void' = void \cup job[s].ends
    /\ job' = [job EXCEPT ![s] = NoJob]
    /\ UNCHANGED <<issued, begun, raced>>

\* The request fails or its process dies before the commit.
Abort(s) ==
    /\ job[s] # NoJob
    /\ job' = [job EXCEPT ![s] = NoJob]
    /\ UNCHANGED <<row, issued, begun, void, raced>>

Request(s, u) ==
    \/ \E email \in Emails, phone \in Named \cup {NoPhone} : Register(s, u, email, phone)
    \/ VerifyEmail(s, u) \/ ForgotPassword(s, u) \/ ResetPassword(s, u)
    \/ ChangePassword(s, u) \/ DeleteMe(s, u)
    \/ \E phone \in Named \cup {NoPhone} : UpdateMe(s, u, phone)
    \/ \E phone \in Named : TransferPhone(s, u, phone)
    \/ PinSetup(s, u) \/ PinChange(s, u) \/ PinResetRequest(s, u) \/ PinResetConfirm(s, u)
    \/ ApplyDeveloper(s, u) \/ GenerateKeys(s, u) \/ RevokeKeys(s, u)

Administer(s, u) ==
    \/ ApproveDeveloper(s, u) \/ SuspendDeveloper(s, u)
    \/ \E role \in {"USER", "RESELLER", "ADMIN"} : UpdateUserRole(s, u, role)
    \/ SuspendUser(s, u) \/ ActivateUser(s, u) \/ DeleteUser(s, u)

Next ==
    \/ \E s \in Sessions, u \in Users : Request(s, u) \/ Administer(s, u)
    \/ \E s \in Sessions : Commit(s) \/ Abort(s)

Spec == Init /\ [][Next]_accounts

-----------------------------------------------------------------------------
(***************************************************************************)
(* Properties                                                              *)
(***************************************************************************)
\* The values the variables take.
TypeOK ==
    /\ row \in [Users -> Row \cup {NoRow}]
    /\ issued \in Secret
    /\ begun \in 0..MaxRequests
    /\ job \in [Sessions -> Job \cup {NoJob}]
    /\ void \in SUBSET Secret
    /\ raced \in SUBSET Numbers

\* A token that was used or withdrawn, a password or PIN that was replaced and
\* a key that was revoked never work again, however late a handler that loaded
\* the row before commits it (reset_password, change_password, set_pin,
\* keys/revoke).
SecretsStayVoid ==
    \A u \in Users :
        row[u] # NoRow => \A column \in Secrets : row[u][column] \notin void

\* A login by telephone finds one account: two have the same number, written
\* the same way, only if two requests were writing it at once (the column is
\* not unique).
PhoneNamesOneAccount ==
    \A u, v \in Users :
        u # v /\ row[u] # NoRow /\ row[v] # NoRow
              /\ row[u].phone = row[v].phone /\ row[u].phone # NoPhone =>
            row[u].phone.suffixed \/ row[u].phone.number \in raced

Open(r) == r # NoRow /\ r.active
Developer(r) == r # NoRow /\ r.status = "approved" /\ r.developer
Admin(r) == r # NoRow /\ r.role = "ADMIN"

By(u, ops) == \E s \in Sessions : job[s] # NoJob /\ job[s].u = u /\ job[s].op \in ops
                                  /\ Commit(s)

\* A closed account, a barred developer and a demoted admin come back only by
\* the requests that are for it, never because another handler commits a row it
\* had loaded before.
Granted ==
    \A u \in Users :
        /\ Open(row'[u]) /\ ~Open(row[u]) => By(u, {"register", "activate"})
        /\ Developer(row'[u]) /\ ~Developer(row[u]) => By(u, {"apply", "approve"})
        /\ Admin(row'[u]) /\ ~Admin(row[u]) => By(u, {"role"})
AccessIsGranted == [][Granted]_accounts
=============================================================================
