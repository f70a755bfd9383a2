----------------------------- MODULE NacosBase -----------------------------
(***************************************************************************)
(* What the parts of the package nacos have in common: who calls it, the   *)
(* services they ask for and the instances that serve these.               *)
(***************************************************************************)

CONSTANTS
  Goroutines,  \* callers of the package
  Services,    \* serviceKeys, "serviceName:groupName"
  Hosts        \* instances, by "ip:port"
=============================================================================
