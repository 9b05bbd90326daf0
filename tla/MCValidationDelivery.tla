------------------------ MODULE MCValidationDelivery ------------------------
(* A bounded instance of ValidationDelivery for TLC. *)
EXTENDS ValidationDelivery
=============================================================================
