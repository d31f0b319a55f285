---------------------------- MODULE MCUserEndPoint ----------------------------
(* Values for model checking UserEndPoint. *)
EXTENDS UserEndPoint

TwoSlow == <<"Color", "Battery">>
=============================================================================
