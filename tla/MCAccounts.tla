------------------------------ MODULE MCAccounts ------------------------------
(* Instances of Accounts for TLC.                                          *)
EXTENDS Accounts, TLC
MCSandboxTenant == "root" :> "sandbox-root" @@ "ana" :> "sandbox-ana" @@ "eva" :> "sandbox-eva"
===============================================================================
