---------------------------- MODULE BillProviders ----------------------------
(***************************************************************************)
(* services/bills.py: how the answers of VTpass and ClubKonnect are read.  *)
(*                                                                         *)
(* An answer is a record of the classes of words and codes the parsers     *)
(* look for, and a parsed answer (ProviderResult) is the record of what    *)
(* the callers look at: success, pending, whether the message says         *)
(* "pending", the status kept under meta, and whether a token was found.   *)
(***************************************************************************)
EXTENDS Naturals

Providers == {"vtpass", "clubkonnect", "mock"}

\* get_bills_provider: what the configuration asks for, among the providers
\* that have credentials.
Chosen(choice, configured, clubkonnectEnabled) ==
    CASE choice \in Providers \ {"mock"} ->
           IF choice \in configured THEN choice ELSE "mock"
      [] choice = "mock" -> "mock"
      [] OTHER ->
           IF clubkonnectEnabled /\ "clubkonnect" \in configured THEN "clubkonnect"
           ELSE IF "vtpass" \in configured THEN "vtpass"
           ELSE IF "clubkonnect" \in configured THEN "clubkonnect"
           ELSE "mock"

\* What became of an order at the provider.
Fate == {"none", "open", "delivered", "rejected"}
Words == {"pending", "success", "failed"}
WordFor == [open |-> "pending", delivered |-> "success", rejected |-> "failed"]

ProviderResult == [success : BOOLEAN, pending : BOOLEAN, saysPending : BOOLEAN,
                   status : Words \cup {"none"}, token : BOOLEAN]

\* ProviderResult.is_pending
IsPending(r) == r.pending \/ r.saysPending \/ r.status = "pending"

-----------------------------------------------------------------------------
(***************************************************************************)
(* VTpass                                                                  *)
(***************************************************************************)
VTpassAnswer == [status : Words \cup {"none"}, code000 : BOOLEAN, says : SUBSET Words]

\* VTPassBillsProvider._parse_result.  The message of a failure is the
\* description, unless that speaks of success.
VTpassParse(a) ==
    LET failing == a.status = "failed" \/ "failed" \in a.says
        ok == \/ a.status = "success"
              \/ a.code000 /\ a.status # "pending" /\ ~failing
        pending == a.status = "pending" \/ "pending" \in a.says
    IN  [success |-> ok,
         pending |-> FALSE,
         saysPending |-> /\ ~ok
                         /\ \/ pending /\ ~failing
                            \/ "pending" \in a.says
                               /\ ("success" \in a.says => "failed" \in a.says),
         status |-> a.status,
         token |-> FALSE]

\* What VTpass may answer for an order.  A status the parser knows is true;
\* without one ("none") the answer may say anything, code 000 included, which
\* VTpass sends for what it is still processing, too.
VTpassTells(fate) == {a \in VTpassAnswer : a.status \in {"none", WordFor[fate]}}

-----------------------------------------------------------------------------
(***************************************************************************)
(* ClubKonnect                                                             *)
(***************************************************************************)
\* The code sets overlap: 100, 201 and 300 are both success and pending.
ClubKonnectCodes == {"none", "success", "both", "pending", "failure"}

ClubKonnectAnswer ==
    [code : ClubKonnectCodes, text : Words \cup {"none"}, remark : {"none", "pending"}]

\* Mutant: what is not yet a success has failed.
ClubKonnectParse_PendingFails(a) ==
    LET success == a.code = "success" \/ a.text = "success"
    IN  [success |-> success, pending |-> FALSE, saysPending |-> FALSE,
         status |-> IF success THEN "success" ELSE "failed", token |-> FALSE]

\* ClubKonnectBillsProvider._parse_result
ClubKonnectParse(a) ==
    LET pending == \/ a.code \in {"both", "pending"}
                   \/ a.text = "pending" \/ a.remark = "pending"
        success == a.code \in {"success", "both"} \/ a.text = "success"
        failed == a.code = "failure" \/ a.text = "failed"
    IN  [success |-> success /\ ~pending /\ ~failed,
         pending |-> pending /\ ~failed,
         saysPending |-> pending /\ (failed => a.remark = "pending"),
         status |-> IF pending THEN "pending"
                    ELSE IF success /\ ~failed THEN "success" ELSE "failed",
         token |-> FALSE]

CodesFor == [open |-> {"none", "both", "pending"}, delivered |-> {"none", "success"},
             rejected |-> {"none", "failure"}]

\* A code or status that the parser knows is true.  An answer may have neither:
\* words the parser has never seen, or a page that is no JSON.
ClubKonnectTells(fate) ==
    {a \in ClubKonnectAnswer :
        a.code \in CodesFor[fate] /\ a.text \in {"none", WordFor[fate]}}

ClubKonnectKnows(a) == a.code # "none" \/ a.text # "none" \/ a.remark # "none"

-----------------------------------------------------------------------------
\* MockBillsProvider: success, or failure for a customer that starts with 0000.
MockResult(fate) ==
    [success |-> fate = "delivered", pending |-> FALSE, saysPending |-> FALSE,
     status |-> "none", token |-> fate = "delivered"]

\* The answers a provider may give for an order: what the parser makes of them,
\* and whether there was a status in them that it knows.
Answers(provider, fate) ==
    CASE provider = "vtpass" ->
           {[result |-> VTpassParse(a), clear |-> a.status # "none"] : a \in VTpassTells(fate)}
      [] provider = "clubkonnect" ->
           {[result |-> ClubKonnectParse(a), clear |-> ClubKonnectKnows(a)] :
                a \in ClubKonnectTells(fate)}
      [] provider = "mock" -> {[result |-> MockResult(fate), clear |-> TRUE]}
=============================================================================
