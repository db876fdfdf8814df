-------------------------- MODULE MCRegistryScripts --------------------------
(***************************************************************************)
(* Two executions: any script beside one of the short ones, which differ   *)
(* in how they find the address they announce, retry, and pay.             *)
(***************************************************************************)
EXTENDS RegistryScripts

BesideShort ==
    <<DOMAIN Source, {"deploy_registry_only", "deploy_nowait", "deploy_simple_registry"}>>
=============================================================================
