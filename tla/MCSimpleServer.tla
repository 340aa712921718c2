---------------------------- MODULE MCSimpleServer ----------------------------
(* The run of SimpleServer; its constants are given in the cfg.             *)
EXTENDS SimpleServer
===============================================================================
