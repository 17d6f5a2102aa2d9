------------------------------ MODULE MCReporter ------------------------------
(***************************************************************************)
(* The reporters of main.cpp, with the web client that reads them: one     *)
(* behaviour follows one of five instances.  "picture": two colliders,     *)
(* flags that come and go, a hose that loses packets and its connection.   *)
(* "dumps": two sensor colliders for one slot.  "order": backpressure, and *)
(* flags that are never cleared.  "full": the same with three colliders    *)
(* for two slots.  "hitboxes": hitboxes of two worlds.                     *)
(***************************************************************************)
EXTENDS CollReport, HitboxReport

MCWorldOf == [h \in Hitboxes |-> IF h = "z" THEN 1 ELSE 0]

VARIABLES part

collVars == <<live, tableVars, all, history, client>>
boxVars == <<gameVars, page>>
reporterVars == <<part, hoseVars, todo, on, collVars, boxVars>>

In(p, A) == part = p /\ A /\ UNCHANGED <<part, boxVars>>
FlagKept == on => on'
OrderKept == all => all' \/ todo' # todo

ReporterInit ==
  /\ Init /\ HitboxInit
  /\ part \in {"picture", "dumps", "order", "full", "hitboxes"}
  /\ part \in {"dumps", "hitboxes"} => live = {}
  /\ part \in {"picture", "order"} => live \subseteq {"c", "d"}

PictureStep == Steps({"c", "d"}, {}, {})
DumpsStep == Steps({}, Scols, Values) /\ Len(stream') <= 1 /\ FlagKept
OrderStep(A) == A /\ ~lastOverrun' /\ FlagKept /\ OrderKept

ReporterNext ==
  \/ In("picture", PictureStep) \/ In("dumps", DumpsStep)
  \/ In("order", OrderStep(Steps({"c", "d"}, {"s"}, {"v"})))
  \/ In("full", OrderStep(Steps(Colliders, {}, {})))
  \/ part = "hitboxes" /\ HitboxNext /\ Len(stream') <= 1 /\ UNCHANGED <<part, collVars>>

(* The game thread keeps running and the hose thread keeps sending.          *)
ReporterSpec ==
  /\ ReporterInit /\ [][ReporterNext]_reporterVars
  /\ WF_reporterVars(In("order", OrderStep(Working)))
  /\ SF_reporterVars(In("order", OrderStep(FrameStart)))

-----------------------------------------------------------------------------
(* A full dump ordered while a connection is current reaches its client or   *)
(* the connection ends (main.cpp:657); the flag stays on in this instance.   *)
DumpArrives == (part = "order" /\ DumpOrdered) ~> (part = "order" /\ DumpSettled)
=============================================================================
