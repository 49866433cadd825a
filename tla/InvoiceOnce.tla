---------------------------- MODULE InvoiceOnce ----------------------------
(***************************************************************************)
(* What the durable record of a supplier invoice promises, without saying  *)
(* how: a request to create the invoice is sent from an open operation and *)
(* not again until it was reopened, nothing follows a request whose result *)
(* is uncertain, and what is done or closed stays so. It does not promise  *)
(* a single invoice: what was given up for lost may still be applied.      *)
(*                                                                         *)
(* SupplierInvoice, the model of the confirmation handler and of the       *)
(* milestones in the audit database, is shown to implement this module     *)
(* when confirmations do not overlap.                                      *)
(***************************************************************************)
EXTENDS Naturals

VARIABLES
    phase,  \* where the operation is
    sent,   \* create requests sent for it
    made    \* invoices of this number that exist in Dolibarr

ovars == <<phase, sent, made>>

Phases == {"none", "open", "sending", "uncertain", "made", "done", "closed"}

OInit == phase = "none" /\ sent = 0 /\ made = 0

Go(from, to) ==
    /\ phase \in from
    /\ phase' = to
    /\ UNCHANGED <<sent, made>>

Propose == Go({"none"}, "open")
Doubt   == Go({"sending"}, "uncertain")
Learn   == made > 0 /\ Go({"sending"}, "made")
Reopen  == Go({"sending", "made"}, "open")
Finish  == Go({"made"}, "done")
Close   == Go({"open", "made"}, "closed")

Send ==
    /\ phase = "open"
    /\ phase' = "sending"
    /\ sent' = sent + 1
    /\ UNCHANGED made

\* Dolibarr applies a request that was sent, however late.
Land ==
    /\ made < sent
    /\ made' = made + 1
    /\ UNCHANGED <<phase, sent>>

ONext ==
    \/ Propose \/ Send \/ Doubt \/ Learn \/ Reopen \/ Finish \/ Close \/ Land

OSpec == OInit /\ [][ONext]_ovars
=============================================================================
