------------------------------- MODULE Optional -------------------------------
(* An optional value is a sequence of length at most one.                     *)
EXTENDS Sequences

Declared(optional) == optional # <<>>
Content(optional)  == optional[1]
===============================================================================
