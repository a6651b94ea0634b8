--------------------------- MODULE MCInvoiceSync ---------------------------
(* Instances of InvoiceSync for TLC. *)
EXTENDS InvoiceSync, TLC

\* Request slots are interchangeable, and so are invoices.
Symmetric == Permutations(Request) \cup Permutations(Invoice)
=============================================================================
