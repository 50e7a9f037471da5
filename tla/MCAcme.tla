------------------------------- MODULE MCAcme -------------------------------
(* Instances of Acme for TLC.                                              *)
EXTENDS Acme

\* HTTP-01 with a pool that needs the files to start, DNS-01 without.
Two == {[dns01 |-> b, tls |-> ~ b] : b \in BOOLEAN}
=============================================================================
