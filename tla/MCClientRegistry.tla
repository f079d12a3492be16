-------------------------- MODULE MCClientRegistry --------------------------
(***************************************************************************)
(* ClientRegistry for TLC.  Two leases share an identity, as the old and   *)
(* the new app of a reload that keeps the client do; the third has its     *)
(* own, as after a changed token.                                          *)
(***************************************************************************)
EXTENDS ClientRegistry, TLC

CONSTANTS l1, l2, l3, same, other

MCLease == {l1, l2, l3}
MCIdentityOf == (l1 :> same) @@ (l2 :> same) @@ (l3 :> other)
=============================================================================
