------------------------------- MODULE MCVault -------------------------------
(* A small instance of Vault.                                              *)
EXTENDS Vault

MCInitPort == [ state |-> CLOSED, switch |-> 2, interval |-> 2,
                required |-> 2, current |-> 0 ]
=============================================================================
