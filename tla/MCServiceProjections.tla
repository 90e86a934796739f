------------------------- MODULE MCServiceProjections -------------------------
(***************************************************************************)
(* Small instances of ServiceProjections.  The events of one service meet  *)
(* in one environment with equal and with decreasing timestamps; others    *)
(* have no environment, another day or another organization, or are not    *)
(* about a service.                                                        *)
(***************************************************************************)
EXTENDS ServiceProjections, TLC

CONSTANTS o1, o2, pay, v1, v2, none

\* "service/pay": SQL and Go agree on a subject with a single slash.
Plain == pay :> "pay"

ASSUME PlainAssumption == PlainNames

Made(o, s, type, kind, env, ts, artifact) ==
  [org |-> o, subject |-> s, type |-> type, kind |-> kind, env |-> env, ts |-> ts,
   artifact |-> artifact]

PlainEvents ==
  {Made(o1, pay, "service", "deployed",   "prod",    2, v1),
   Made(o1, pay, "service", "rolledback", "prod",    2, v2),
   Made(o1, pay, "service", "removed",    "prod",    1, none),
   Made(o1, pay, "service", "deployed",   none,      3, v2),
   Made(o2, pay, "service", "deployed",   "prod",    1, v2)}

RebuildEvents ==
  {Made(o1, pay, "service", "deployed",   "prod", 2, v1),
   Made(o1, pay, "service", "rolledback", "prod", 1, v2),
   Made(o2, pay, "service", "deployed",   none,   1, v1),
   Made(o1, pay, "change",  "other",      none,   2, v1)}
=============================================================================
