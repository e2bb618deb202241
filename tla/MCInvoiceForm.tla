--------------------------- MODULE MCInvoiceForm ---------------------------
(***************************************************************************)
(* A form with two lines, one product in two warehouses and two requests   *)
(* open at once.                                                           *)
(***************************************************************************)
EXTENDS InvoiceForm
=============================================================================
