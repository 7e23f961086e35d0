------------------------------ MODULE ServerMC ------------------------------
(* Every configuration, with the requests that matter under it.            *)
EXTENDS Server, TLC

(* One route of each kind, but both of the list checks, which share a      *)
(* limiter; every token and origin, the listed ones where their being      *)
(* listed matters.                                                         *)
RouteTraffic ==
  {m \in Messages :
     /\ m.route \in CheckRoutes \cup {"/stats", "/livez", Preflight}
     /\ m.origin = "listed" => m.route = Preflight
     /\ m.connection = m.client /\ m.forwarded = None}

(* List checks, from each client, directly or through a proxy, with every  *)
(* header.                                                                 *)
CheckTraffic ==
  {m \in Messages : m.route \in CheckRoutes /\ m.origin = "none" /\ m.token}

(* Who sends a request matters to the limiter only, and what it carries    *)
(* besides to the other guards.                                            *)
LimiterOnly == [cors |-> FALSE, rate |-> "given", jwt |-> FALSE]
MCTraffic == [o \in Options |-> IF o = LimiterOnly THEN CheckTraffic ELSE RouteTraffic]

Interchangeable == Permutations(Requests) \cup Permutations(Clients)
=============================================================================
