------------------------------ MODULE MCDriver ------------------------------
(***************************************************************************)
(* One KMS and one web listener, and a budget the web share is half of.    *)
(***************************************************************************)
EXTENDS Driver
=============================================================================
