---------------------------- MODULE BankAccounts ----------------------------
(***************************************************************************)
(* The bank accounts through which users fund their wallets, and whose     *)
(* wallet a transfer into one of them is credited to: endpoints/wallet.py  *)
(* (bank-transfer-accounts), the webhooks' search for a user, and the      *)
(* clients of Paystack, Monnify and Billstack.                             *)
(*                                                                         *)
(* The users are those of Accounts, who register, delete their accounts    *)
(* and change their numbers meanwhile.  The blocks of the endpoint for the *)
(* three providers follow one another and touch rows of their own, so that *)
(* a request is one block, for the one provider an instance is about.      *)
(* Deposits models how the credit itself is made, and made once.           *)
(***************************************************************************)
EXTENDS Accounts

CONSTANTS
    Capitals,    \* the e-mail addresses written with capital letters
    NoCall,      \* what an idle session does
    MaxOpened    \* bound: bank accounts opened

Providers == {"paystack", "monnify", "billstack"}

ASSUME CapitalsAreEmails == Capitals \subseteq Emails
ASSUME MaxOpenedIsNat == MaxOpened \in Nat

\* A bank account is known by its number, 0 for none.
Number == 0..MaxOpened

Opened == [u : Users, email : Emails, phone : Phone \cup {NoPhone}]

Call == [u : Users, pc : {"calling", "fetching", "opened", "failed"},
         get : BOOLEAN, number : Number]

VARIABLES
    provider,  \* the provider the instance is about
    opened,    \* the accounts at the provider, by number, as it knows them
    shown,     \* virtual_accounts: the ACTIVE row of a user, 0 for none
    failed,    \* virtual_accounts: users with an INACTIVE row
    call,      \* what each session does at the provider
    holders    \* history: users an account number was given to

banks == <<provider, opened, shown, failed, call, holders>>
vars == <<accounts, banks>>

BankInit ==
    /\ Init
    /\ provider \in Providers
    /\ opened = <<>>
    /\ shown = [u \in Users |-> 0]
    /\ failed = {}
    /\ call = [s \in Sessions |-> NoCall]
    /\ holders = [n \in 1..MaxOpened |-> {}]

-----------------------------------------------------------------------------
(***************************************************************************)
(* The accounts of a user.                                                 *)
(***************************************************************************)
Calls(s, u, pc, get) ==
    /\ call[s] = NoCall /\ job[s] = NoJob
    /\ call' = [call EXCEPT ![s] = [u |-> u, pc |-> pc, get |-> get, number |-> 0]]

\* get_bank_transfer_accounts: no row of the provider, so that one is asked
\* for.  Monnify wants to know a BVN or NIN first, and is not asked.
GetAccounts(s, u) ==
    /\ Signed(u) /\ provider # "monnify"
    /\ shown[u] = 0 /\ u \notin failed
    /\ Calls(s, u, "calling", TRUE)
    /\ UNCHANGED <<accounts, provider, opened, shown, failed, holders>>

\* create_bank_transfer_accounts: the rows are deleted, and that is committed,
\* before the provider is asked.
RefreshAccounts(s, u) ==
    /\ Signed(u)
    /\ shown' = [shown EXCEPT ![u] = 0]
    /\ failed' = failed \ {u}
    /\ Calls(s, u, "calling", FALSE)
    /\ UNCHANGED <<accounts, provider, opened, holders>>

\* delete_bank_transfer_accounts and the admin's two resets.
ForgetAccounts(u) ==
    /\ row[u] # NoRow
    /\ provider # "paystack"
    /\ shown' = [shown EXCEPT ![u] = 0]
    /\ failed' = failed \ {u}
    /\ UNCHANGED <<accounts, provider, opened, call, holders>>

Answer(s, pc, number) == call' = [call EXCEPT ![s].pc = pc, ![s].number = number]

\* The account the provider has for what identifies the customer there: the
\* e-mail address for Paystack, the reference with the user's id for Monnify.
Existing(u) ==
    {n \in DOMAIN opened :
        CASE provider = "paystack" -> opened[n].email = row[u].email
          [] provider = "monnify" -> opened[n].u = u
          [] OTHER -> FALSE}

\* Paystack returns the account of the customer, who gets a telephone if it
\* has none; Monnify answers that it exists already and is asked for it.
Return(s) ==
    /\ call[s] # NoCall /\ call[s].pc = "calling"
    /\ \E n \in Existing(call[s].u) :
           /\ Answer(s, IF provider = "monnify" THEN "fetching" ELSE "opened", n)
           /\ opened' = [opened EXCEPT ![n].phone =
                            IF provider = "paystack" /\ @ = NoPhone
                            THEN row[call[s].u].phone ELSE @]
    /\ UNCHANGED <<accounts, provider, shown, failed, holders>>

\* Mutant: that the account exists is an error like any other.
Fetch_Fails(s) ==
    /\ call[s] # NoCall /\ call[s].pc = "fetching"
    /\ Answer(s, "failed", 0)
    /\ UNCHANGED <<accounts, provider, opened, shown, failed, holders>>

\* get_reserved_account_details
Fetch(s) ==
    /\ call[s] # NoCall /\ call[s].pc = "fetching"
    /\ Answer(s, "opened", call[s].number)
    /\ UNCHANGED <<accounts, provider, opened, shown, failed, holders>>

\* A new account, as Billstack opens with every reference.
OpenAccount(s) ==
    LET u == call[s].u
        n == Cardinality(DOMAIN opened) + 1
    IN  /\ call[s] # NoCall /\ call[s].pc = "calling"
        /\ Existing(u) = {} /\ n <= MaxOpened
        /\ opened' = [m \in 1..n |-> IF m < n THEN opened[m]
                                     ELSE [u |-> u, email |-> row[u].email,
                                           phone |-> row[u].phone]]
        /\ Answer(s, "opened", n)
        /\ UNCHANGED <<accounts, provider, shown, failed, holders>>

\* A fault counts as a request, so that MaxRequests bounds the faults too.
Fault == begun < MaxRequests /\ begun' = begun + 1

\* The provider refuses, or does not answer.
Refuse(s) ==
    /\ call[s] # NoCall /\ call[s].pc \in {"calling", "fetching"}
    /\ Fault
    /\ Answer(s, "failed", 0)
    /\ UNCHANGED <<row, issued, job, void, raced,
                   provider, opened, shown, failed, holders>>

\* The row is inserted.  Its reference is unique: if another request was
\* faster, the insert is rolled back, and a GET leaves a row that says failed.
Insert(s) ==
    LET u == call[s].u
        n == call[s].number
    IN  /\ call[s] # NoCall /\ call[s].pc = "opened"
        /\ IF shown[u] = 0
           THEN /\ shown' = [shown EXCEPT ![u] = n]
                /\ holders' = [holders EXCEPT ![n] = @ \cup {u}]
                /\ UNCHANGED failed
           ELSE /\ failed' = IF call[s].get THEN failed \cup {u} ELSE failed
                /\ UNCHANGED <<shown, holders>>
        /\ call' = [call EXCEPT ![s] = NoCall]
        /\ UNCHANGED <<accounts, provider, opened>>

\* A GET remembers a failure, so as not to try again.
GiveUp(s) ==
    /\ call[s] # NoCall /\ call[s].pc = "failed"
    /\ failed' = IF call[s].get THEN failed \cup {call[s].u} ELSE failed
    /\ call' = [call EXCEPT ![s] = NoCall]
    /\ UNCHANGED <<accounts, provider, opened, shown, holders>>

\* The process dies.
Die(s) ==
    /\ call[s] # NoCall
    /\ Fault
    /\ call' = [call EXCEPT ![s] = NoCall]
    /\ UNCHANGED <<row, issued, job, void, raced, provider, opened, shown, failed, holders>>

-----------------------------------------------------------------------------
(***************************************************************************)
(* Whom the webhooks credit a transfer into account n to.  It comes at any *)
(* time, and is looked up then; what a provider reports of the payee is    *)
(* what it knows of the account.                                           *)
(***************************************************************************)
ByEmail(email) ==
    {u \in Users : row[u] # NoRow /\ row[u].email = email /\ ~row[u].suffixed}

ByPhone(phone) ==
    {u \in Users : phone # NoPhone /\ row[u] # NoRow /\ row[u].phone # NoPhone
                   /\ Variant(row[u].phone, phone)}

\* Mutant: the telephone is looked for before the e-mail address.
PaystackFinds_PhoneFirst(n, sender) ==
    LET known == IF opened[n].phone # NoPhone THEN opened[n].phone ELSE sender
    IN  IF ByPhone(known) # {} THEN ByPhone(known) ELSE ByEmail(opened[n].email)

\* _resolve_paystack_transfer_user: by the customer's e-mail address in small
\* letters, else by the customer's telephone, or the payer's if there is none.
PaystackFinds(n, sender) ==
    LET found == IF opened[n].email \in Capitals THEN {} ELSE ByEmail(opened[n].email)
    IN  IF found # {} THEN found
        ELSE ByPhone(IF opened[n].phone # NoPhone THEN opened[n].phone ELSE sender)

\* monnify_webhook and billstack_webhook: by the user's id in the reference, if
\* it is given, else by the account number, else by the e-mail address.
ReferenceFinds(n, referenced) ==
    LET byNumber == {u \in Users : shown[u] = n}
    IN  IF referenced THEN {opened[n].u}
        ELSE IF byNumber # {} THEN byNumber
        ELSE IF opened[n].email \in Capitals THEN {} ELSE ByEmail(opened[n].email)

-----------------------------------------------------------------------------
(***************************************************************************)
(* The blocks of the endpoint's GET and POST.                              *)
(***************************************************************************)
Serves(s, by, get) == call[s] # NoCall /\ provider = by /\ call[s].get = get

Outcome(s) == OpenAccount(s) \/ Insert(s) \/ GiveUp(s)

GetFromPaystack(s) == Serves(s, "paystack", TRUE) /\ (Return(s) \/ Outcome(s))
GetFromBillstack(s) == Serves(s, "billstack", TRUE) /\ Outcome(s)
PostToPaystack(s) == Serves(s, "paystack", FALSE) /\ (Return(s) \/ Outcome(s))
PostToMonnify(s) ==
    Serves(s, "monnify", FALSE) /\ (Return(s) \/ Fetch(s) \/ Outcome(s))
PostToBillstack(s) == Serves(s, "billstack", FALSE) /\ Outcome(s)

Advance(s) ==
    \/ GetFromPaystack(s) \/ GetFromBillstack(s)
    \/ PostToPaystack(s) \/ PostToMonnify(s) \/ PostToBillstack(s)

BankNext ==
    \/ UNCHANGED banks /\ \E s \in Sessions, u \in Users :
           call[s] = NoCall /\ (Request(s, u) \/ Administer(s, u))
    \/ UNCHANGED banks /\ \E s \in Sessions : Commit(s) \/ Abort(s)
    \/ \E s \in Sessions, u \in Users : GetAccounts(s, u) \/ RefreshAccounts(s, u)
    \/ \E s \in Sessions : Advance(s) \/ Refuse(s) \/ Die(s)
    \/ \E u \in Users : ForgetAccounts(u)

BankSpec == BankInit /\ [][BankNext]_vars

\* Requests run on and are answered, refusals and deaths having an end, and a
\* user without an account asks for one again and again.
BankFairness ==
    /\ \A s \in Sessions : WF_vars(Advance(s)) /\ WF_vars(UNCHANGED banks /\ Commit(s))
    /\ \A u \in Users :
           SF_vars(shown[u] = 0 /\ \E s \in Sessions : RefreshAccounts(s, u))

FairBankSpec == BankSpec /\ BankFairness

-----------------------------------------------------------------------------
(***************************************************************************)
(* Properties                                                              *)
(***************************************************************************)
\* Whoever has by now the e-mail address the account was opened for.
Heirs(n) == {u \in Users : row[u] # NoRow /\ row[u].email = opened[n].email}

\* A transfer is credited to a user who was given the account number.  There
\* are two exceptions.  If no reference is given it may be the account that has
\* the e-mail address by now.  And Paystack's may go to whoever has the
\* telephone, but only while no account has the address as Paystack writes it.
HolderIsCredited ==
    \A n \in DOMAIN opened, sender \in Named \cup {NoPhone} :
        holders[n] # {} =>
            IF provider = "paystack"
            THEN LET reached == opened[n].email \notin Capitals /\ ByEmail(opened[n].email) # {}
                 IN  reached => PaystackFinds(n, sender) \subseteq holders[n] \cup Heirs(n)
            ELSE /\ ReferenceFinds(n, TRUE) \subseteq holders[n]
                 /\ ReferenceFinds(n, FALSE) \subseteq holders[n] \cup Heirs(n)

\* An account that a failed refresh has removed from the table is shown again
\* when the user asks again: Paystack and Monnify know it under the customer.
AccountIsShownAgain ==
    \A u \in Users :
        Signed(u) /\ Existing(u) # {} ~> shown[u] # 0 \/ ~Signed(u)
=============================================================================
