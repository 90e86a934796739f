---------------------------- MODULE MCServicePages ----------------------------
(***************************************************************************)
(* Small instances of ServicePages.  Events of one service meet in one     *)
(* environment with equal and with decreasing timestamps and in one        *)
(* minute with other statuses; one has no environment, one is another      *)
(* service's, one another organization's, and changes come before and      *)
(* after the deployments they led to.                                      *)
(***************************************************************************)
EXTENDS ServicePages, TLC

CONSTANTS o1, o2, v1, v2, none

\* The second subject has no slash.
Name == "service/pay" :> "pay" @@ "web" :> "web"

ASSUME PlainAssumption == PlainNames /\ PlainEnvs /\ AskedByName

Made(o, s, type, kind, env, ts, artifact) ==
  [org |-> o, subject |-> s, type |-> type, kind |-> kind, env |-> env, ts |-> ts,
   artifact |-> artifact]

PayVersions == v1 :> "pay" @@ v2 :> "pay" @@ none :> none

PageEvents ==
  {Made(o1, "service/pay", "service", "deployed",   "prod", 5, v1),
   Made(o1, "service/pay", "service", "rolledback", "prod", 5, v2),
   Made(o1, "service/pay", "service", "removed",    "prod", 2, none),
   Made(o1, "service/pay", "service", "deployed",   none,   6, v2),
   Made(o1, "web",         "service", "upgraded",   "prod", 4, none),
   Made(o2, "service/pay", "service", "deployed",   "prod", 4, v2),
   Made(o1, "service/pay", "change",  "other",      none,   3, v1),
   Made(o1, "service/pay", "change",  "other",      none,   5, v2)}

\* A dependency, and a service's own name spelled otherwise.
Typed ==
  {[org |-> o1, service |-> "pay", on |-> "web"], [org |-> o1, service |-> "pay", on |-> "Pay"]}

LowerCase == "pay" :> "pay" @@ "Pay" :> "pay" @@ "web" :> "web"

AnyFilter == {[env |-> "", service |-> "pay"], [env |-> "prod", service |-> "all"]}
=============================================================================
