---------------------------- MODULE LeaveCharge ----------------------------
(***************************************************************************)
(* What the time ledger promises about one leave request, whatever the     *)
(* workflow around it does: the request is charged at most once, a refund  *)
(* answers a charge, and it is paid at most once.  Nothing is promised of  *)
(* a request any more once it was written on reads that another            *)
(* transaction had overtaken.                                              *)
(* (leaves/ledger/service.py: "Record time usage on approval", "Reverse    *)
(* usage on cancellation", "Idempotent operations".)                       *)
(***************************************************************************)
CONSTANT Requests

VARIABLE account    \* per request: where its charge stands

Account == {"uncharged", "charged", "refunded", "disputed"}

TypeOK == account \in [Requests -> Account]

Init == account = [r \in Requests |-> "uncharged"]

\* The USAGE entries of the request enter the ledger.
Charge(r) ==
    /\ account[r] = "uncharged"
    /\ account' = [account EXCEPT ![r] = "charged"]

\* The entries that reverse them enter the ledger.
Refund(r) ==
    /\ account[r] = "charged"
    /\ account' = [account EXCEPT ![r] = "refunded"]

\* A handler writes the request on stale reads.
Dispute(r) ==
    /\ account[r] # "disputed"
    /\ account' = [account EXCEPT ![r] = "disputed"]

Next == \E r \in Requests : Charge(r) \/ Refund(r) \/ Dispute(r)

Spec == Init /\ [][Next]_account
=============================================================================
