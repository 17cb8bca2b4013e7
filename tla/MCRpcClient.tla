------------------------------ MODULE MCRpcClient ------------------------------
(***************************************************************************)
(* Instance: two timed requests and a prompt, so that answers can overtake  *)
(* each other, come late, or never; up to two lines wait in the pipe.       *)
(***************************************************************************)
EXTENDS RpcClient
CONSTANTS r1, r2, p1
=============================================================================
