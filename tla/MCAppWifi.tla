------------------------------ MODULE MCAppWifi ------------------------------
(* Small instances of AppWifi.                                             *)
EXTENDS AppWifi
=============================================================================
