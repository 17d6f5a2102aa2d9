------------------------------ MODULE MCClients ------------------------------
(***************************************************************************)
(* The client side: python's RPC connection (PyRpcConn) and its two caches *)
(* (PersistentCache, CachingGuest), and the connection of the web client   *)
(* (WebConn).  They share no state, so each behaviour follows one of them. *)
(***************************************************************************)
EXTENDS PyRpcConn, PersistentCache, WebConn, CachingGuest

VARIABLE part

all == <<part, vars, cacheVars, webVars, guestVars>>

(* Bound: one thread calls up to MaxCalls times, the other once.             *)
Budget == calls'["u"] <= 1

InConn(A) ==
  part = "conn" /\ A /\ Budget /\ UNCHANGED <<part, cacheVars, webVars, guestVars>>
InCache(A) == part = "cache" /\ A /\ UNCHANGED <<part, vars, webVars, guestVars>>
InWeb(A) == part = "web" /\ A /\ UNCHANGED <<part, vars, cacheVars, guestVars>>
InGuest(A) == part = "guest" /\ A /\ UNCHANGED <<part, vars, cacheVars, webVars>>

(* Two threads of one process and one of another.                            *)
Processes == [t \in {"a", "b", "c"} |-> IF t = "c" THEN "q" ELSE "p"]

(* Values that the other parts do not look at are not varied.                *)
ClientsInit ==
  /\ part \in {"conn", "cache", "web", "guest"}
  /\ Init /\ CacheInit /\ WebInit /\ GuestInit
  /\ part # "guest" => memory = [a \in Addrs |-> 0] /\ ~imaginary
  /\ part # "cache" => file = <<>> /\ key = [t \in Getters |-> CHOOSE k \in Keys : TRUE]

ClientsNext ==
  InConn(Next) \/ InCache(CacheNext) \/ InWeb(WebNext) \/ InGuest(GuestNext)

(* Whoever is inside get goes on, if he can; calls are bounded, so that      *)
(* nobody keeps a lock from others for ever by calling again.                *)
ClientsSpec ==
  /\ ClientsInit /\ [][ClientsNext]_all
  /\ WF_all(InCache(\E t \in Getters : Steps(t)))
  /\ WF_all(InWeb(Working))

-----------------------------------------------------------------------------
(* Properties.                                                               *)

(* Every get and every rawRequest ends, the first with its value unless a    *)
(* thread of its process overtook it and the second unless it was killed     *)
(* before it could subscribe, and after a kill the socket closes             *)
(* (guest_access.py:171-188, client.html:803-811, 908-942).                  *)
ClientsSettle == GetsReturn /\ CallsEnd /\ KilledCloses
=============================================================================
