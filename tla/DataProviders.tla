---------------------------- MODULE DataProviders ----------------------------
(***************************************************************************)
(* How the answers of the sellers of data are read: SMEPlug's and          *)
(* Autosync's by their clients, Amigo's by the purchase and again by the   *)
(* reconcile worker, ClubKonnect's by services/bills.py (BillProviders).   *)
(*                                                                         *)
(* An answer is a record of what the readers look at: a status, and        *)
(* whether the message holds one of the words they look for.  A call that  *)
(* fails, an HTTP error and a page that is no JSON have the status "none": *)
(* whatever status the client makes up for them is not the seller's.       *)
(***************************************************************************)
EXTENDS BillProviders

Sellers == {"smeplug", "autosync", "amigo", "clubkonnect"}

Decided == {"open", "delivered", "rejected"}

-----------------------------------------------------------------------------
\* SMEPlug: status is true or false; "waits" stands for "processing",
\* "pending" or one of the ambiguous hints in the message.
SMEPlugAnswer == [status : {"yes", "no", "none"}, waits : BOOLEAN]

\* Mutant: the message is not looked at.
SMEPlugVerdict_StatusOnly(a) == IF a.status = "yes" THEN "success" ELSE "failed"

\* SMEPlugProvider.purchase_network_data
SMEPlugVerdict(a) ==
    IF a.status = "yes" THEN "success" ELSE IF a.waits THEN "pending" ELSE "failed"

\* A status that its message does not contradict is true.
SMEPlugKnows(a) == a.status = "no" \/ (a.status = "yes" /\ ~a.waits)
SMEPlugTells(fate) ==
    {a \in SMEPlugAnswer :
        SMEPlugKnows(a) => fate = IF a.status = "yes" THEN "delivered"
                                  ELSE IF a.waits THEN "open" ELSE "rejected"}

-----------------------------------------------------------------------------
\* Autosync: "waits" matters only for an exception.
AutosyncAnswer == [status : Words \cup {"none"}, waits : BOOLEAN]

\* AutosyncProvider.purchase_network_data: any other word has failed.
AutosyncVerdict(a) ==
    IF a.status # "none" THEN a.status ELSE IF a.waits THEN "pending" ELSE "failed"

AutosyncTells(fate) ==
    {a \in AutosyncAnswer : a.status \in {"none", WordFor[fate]}}

-----------------------------------------------------------------------------
\* Amigo: "queued" and "done" stand for the words that only the worker knows;
\* "raised" is an AmigoApiError.
AmigoAnswer ==
    [raised : BOOLEAN, flag : BOOLEAN, status : Words \cup {"queued", "done", "none"},
     says : SUBSET {"success", "failed", "definitive", "waits"}]

\* _execute_provider's branch for Amigo.
AmigoVerdict(a) ==
    CASE a.raised -> IF "waits" \in a.says THEN "pending" ELSE "failed"
      [] ~a.raised /\ (a.flag \/ a.status = "success") -> "success"
      [] ~a.raised /\ ~a.flag /\ a.status = "pending" -> "pending"
      [] OTHER -> "failed"

\* Mutant: the message is read before the status.
RecheckOutcome_MessageFirst(a) ==
    IF a.flag \/ "success" \in a.says \/ a.status \in {"success", "done"} THEN "success"
    ELSE IF a.status = "failed" \/ "failed" \in a.says THEN "failed"
    ELSE "pending"

\* _classify_outcome
RecheckOutcome(a) ==
    IF a.flag \/ a.status \in {"success", "done"} THEN "success"
    ELSE IF a.status = "failed" THEN "failed"
    ELSE IF a.status \in {"pending", "queued"} THEN "pending"
    ELSE IF "success" \in a.says THEN "success"
    ELSE IF "failed" \in a.says THEN "failed"
    ELSE "pending"

\* What the worker does about an answer: with _is_definitive_failure a failure
\* is refunded; without, one that was answered stays as it is, and one that was
\* raised is as undecided as a pending order.
RecheckVerdict(a) ==
    CASE a.raised -> IF "definitive" \in a.says THEN "failed" ELSE "undecided"
      [] ~a.raised /\ RecheckOutcome(a) = "success" -> "success"
      [] ~a.raised /\ RecheckOutcome(a) = "pending" -> "undecided"
      [] OTHER -> IF "definitive" \in a.says THEN "failed" ELSE "stays"

AmigoWords == [open |-> {"pending", "queued"}, delivered |-> {"success", "done"},
               rejected |-> {"failed"}]

\* A status is true, and so is a success flag without one.
SaidOf(a, fate) ==
    \/ a.raised
    \/ a.status \in AmigoWords[fate]
    \/ a.status = "none" /\ (a.flag => fate = "delivered")
AmigoTells(fate) == {a \in AmigoAnswer : SaidOf(a, fate)}

\* Whether the reader that knows these words knows what is meant.
AmigoKnows(a, words) ==
    /\ ~a.raised
    /\ IF a.flag THEN a.status \in {"success", "done", "none"} ELSE a.status \in words

-----------------------------------------------------------------------------
\* ClubKonnect, or VTpass where get_bills_provider chooses it: a ProviderResult,
\* as _execute_provider sorts it, or an exception.
ResultVerdict(r) ==
    IF r.success THEN "success" ELSE IF IsPending(r) THEN "pending" ELSE "failed"

\* What a purchase may hear from a seller, as a verdict, and whether it is
\* clear: said with a status its reader knows.
Heard ==
    [x \in Sellers |-> [fate \in Decided |->
        CASE x = "smeplug" ->
               {[verdict |-> SMEPlugVerdict(a), clear |-> SMEPlugKnows(a)] :
                    a \in SMEPlugTells(fate)}
          [] x = "autosync" ->
               {[verdict |-> AutosyncVerdict(a), clear |-> a.status # "none"] :
                    a \in AutosyncTells(fate)}
          [] x = "amigo" ->
               {[verdict |-> AmigoVerdict(a), clear |-> AmigoKnows(a, Words)] :
                    a \in AmigoTells(fate)}
          [] x = "clubkonnect" ->
               {[verdict |-> ResultVerdict(a.result), clear |-> a.clear] :
                    a \in Answers("clubkonnect", fate) \cup Answers("vtpass", fate)}
               \cup {[verdict |-> v, clear |-> FALSE] : v \in {"pending", "failed"}}]]

\* What the worker may hear from Amigo.
Rechecked ==
    [fate \in Decided |->
        {[verdict |-> RecheckVerdict(a),
          clear |-> AmigoKnows(a, Words \cup {"queued", "done"})] :
             a \in AmigoTells(fate)}]
=============================================================================
