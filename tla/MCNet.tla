------------------------------- MODULE MCNet -------------------------------
(***************************************************************************)
(* A gateway, a host of the subnet and one behind the gateway; a name that  *)
(* has an address, one that has none, and one with other records only.      *)
(***************************************************************************)
EXTENDS Net
CONSTANTS near, far, known, unknown, alias
MCHosts == {Gateway, near, far}
MCLocal == {Gateway, near}
MCNames == {known, unknown, alias}
MCAddress ==
    [n \in MCNames |-> CASE n = known -> far [] n = unknown -> Nobody [] n = alias -> Elsewhere]
=============================================================================
