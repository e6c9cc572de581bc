------------------------------ MODULE MCReport ------------------------------
(* All three ways to call the command; an exception may come from anywhere. *)
EXTENDS Report

Anywhere == {"launch", "section"} \cup SamplerSet
=============================================================================
