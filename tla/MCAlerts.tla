------------------------------ MODULE MCAlerts ------------------------------
(***************************************************************************)
(* An instance of module Alerts: values on both sides of every threshold   *)
(* of the code, sides of both signs, and a feed that may be ahead of the   *)
(* host's clock.                                                           *)
(***************************************************************************)
EXTENDS Alerts

MCDomain ==
    [x \in {"native", "members"} |-> {0}]
    @@ [usdt |-> {0, 1, 2}, count |-> {0, 5, 6}, delay |-> {59, 60}, flag |-> {0, 1}]
    @@ [m \in Markets |-> {0, 1000, 1001}] @@ [bank |-> {0, 1}]
    @@ [x \in {"long", "short"} |-> {-10, 0, 1, 10}]
    @@ [now |-> {1000, 1001, 1002}, updated |-> {399, 400, 401, 1001, 1003}]

=============================================================================
