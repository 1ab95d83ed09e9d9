---------------------------- MODULE UpdateService ----------------------------
(***************************************************************************)
(* What the update service promises, with no network in it: a table from   *)
(* domains to addresses that only trusted clients change, and runs of the  *)
(* client program that end "ok" only when the run's own request has been   *)
(* applied.  The table is in memory only, so it may be wiped at any time.  *)
(***************************************************************************)
CONSTANTS
    Clients,   \* cron lines that run dns_update
    Domains,   \* domain names
    DomainOf,  \* the domain each client updates
    Trusted,   \* the clients that hold the server's key
    Ips,       \* address texts
    NoIp       \* the table's value for a domain it does not hold

VARIABLES
    table,     \* domain -> address
    run,       \* client -> how its latest run stands
    applied    \* client -> the latest run's request was applied

svars == <<table, run, applied>>

SInit ==
    /\ table = [d \in Domains |-> NoIp]
    /\ run = [c \in Clients |-> "idle"]
    /\ applied = [c \in Clients |-> FALSE]

\* A run starts; nothing is applied on its behalf yet.
SBegin(c) ==
    /\ run[c] # "wait"
    /\ run' = [run EXCEPT ![c] = "wait"]
    /\ applied' = [applied EXCEPT ![c] = FALSE]
    /\ UNCHANGED table

\* A run ends before it has asked for anything.
SRefuse(c) ==
    /\ run[c] # "wait"
    /\ run' = [run EXCEPT ![c] = "failed"]
    /\ applied' = [applied EXCEPT ![c] = FALSE]
    /\ UNCHANGED table

\* A request of c, of this run or of an earlier one, is applied.
SApply(c) ==
    /\ c \in Trusted
    /\ \E ip \in Ips : table' = [table EXCEPT ![DomainOf[c]] = ip]
    /\ applied' \in {applied, [applied EXCEPT ![c] = TRUE]}
    /\ UNCHANGED run

SConfirm(c) ==
    /\ run[c] = "wait"
    /\ applied[c]
    /\ run' = [run EXCEPT ![c] = "ok"]
    /\ UNCHANGED <<table, applied>>

SFail(c) ==
    /\ run[c] = "wait"
    /\ run' = [run EXCEPT ![c] = "failed"]
    /\ UNCHANGED <<table, applied>>

SWipe ==
    /\ table' = [d \in Domains |-> NoIp]
    /\ UNCHANGED <<run, applied>>

SNext ==
    \/ SWipe
    \/ \E c \in Clients :
          SBegin(c) \/ SRefuse(c) \/ SApply(c) \/ SConfirm(c) \/ SFail(c)

SSpec == SInit /\ [][SNext]_svars
=============================================================================
