--------------------------- MODULE UpdateProtocol ---------------------------
(***************************************************************************)
(* dns_update and dns_srv over UDP: the client program's main (src/        *)
(* dns_update.c), run again and again by cron, and the server's handler of *)
(* update packets, proc_cmd (src/dns.c).  The network loses, delays,       *)
(* reorders and (when Duplicates) duplicates datagrams; the server may     *)
(* crash, and keeps its table of domains in memory only.                   *)
(*                                                                         *)
(* Time passes in ticks of one second.  A datagram carries two ghosts the  *)
(* program does not have: life, the seconds it has been under way, and     *)
(* old, set when its client has started another run since.                 *)
(***************************************************************************)
EXTENDS UpdatePacket, FiniteSets

CONSTANTS
    Clients,      \* one per cron line that runs dns_update
    Domains,      \* domain names, lower-cased
    DomainOf,     \* client -> argv[3], the domain it updates
    Ips,          \* address texts
    DottedIps,    \* dotted ones, the addresses datagrams can come from
    NoIp,         \* no address: a domain not in the table, no argv[4]
    ArgIp,        \* client -> argv[4], or NoIp when it is not given
    Ports,        \* ephemeral ports the kernel gives a client's socket
    NoPort,       \* the port of a client that has not run yet
    Keys,         \* authentication keys
    KeyOf,        \* client -> argv[2]
    ServerKey,    \* the server's auth_key
    Skew,         \* client -> its clock minus the server's
    CronPeriod,   \* least number of seconds between two runs of a client
    Shared,       \* TRUE: clients may share an address (one home router)
    PortReuse,    \* TRUE: the kernel may give a port used shortly before
    Duplicates,   \* TRUE: the network may deliver a datagram again
    MaxLife,      \* seconds after which a datagram has left the network
    MaxNet,       \* bound: datagrams under way at a time
    MaxMoves,     \* bound: changes of a client's address
    MaxCrashes    \* bound: crashes of the server

ASSUME ProtocolAssumption ==
    /\ DomainOf \in [Clients -> Domains]
    /\ DottedIps \subseteq Ips
    /\ NoIp \notin Ips
    /\ ArgIp \in [Clients -> Ips \cup {NoIp}]
    /\ NoPort \notin Ports
    /\ KeyOf \in [Clients -> Keys]
    /\ ServerKey \in Keys
    /\ Skew \in [Clients -> Int]
    /\ CronPeriod \in Nat
    /\ MaxLife \in Nat \ {0}
    /\ MaxNet \in Nat
    /\ MaxMoves \in Nat
    /\ MaxCrashes \in Nat
    /\ Shared \in BOOLEAN
    /\ PortReuse \in BOOLEAN
    /\ Duplicates \in BOOLEAN
    \* No packet under way is old enough for the unsigned clocks to wrap.
    /\ \A c \in Clients : /\ 2 * (MaxLife - 1 + Skew[c]) < UIntModulus
                          /\ 2 * (MaxLife - 1 - Skew[c]) < UIntModulus

VARIABLES
    now,       \* the server's clock, an unsigned int
    up,        \* the server process is running
    registry,  \* domain -> ip text, the server's rbtree of dns_node
    addr,      \* client -> the address its datagrams leave from
    pc,        \* client -> "idle", "wait", "ok" or "failed"
    port,      \* client -> port of the latest run's socket
    waited,    \* client -> ticks since the latest run began to wait
    since,     \* client -> ticks since the latest run, up to CronPeriod
    net,       \* datagrams under way
    served,    \* ghost: the latest run's request has been applied
    moves,     \* number of changes of address so far
    crashes    \* number of crashes so far

clientVars == <<pc, port, waited, since>>
vars == <<now, up, registry, addr, pc, port, waited, since, net, served,
          moves, crashes>>

Request == [kind : {"req"}, owner : Clients, addr : DottedIps, port : Ports,
            seal : [key : Keys, ts : UInt],
            life : 0 .. (MaxLife - 1), old : BOOLEAN]

Response == [kind : {"rsp"}, owner : Clients, addr : Ips, port : Ports,
             seal : [key : Keys, ts : UInt], retcode : {0, 1},
             life : 0 .. (MaxLife - 1), old : BOOLEAN]

TypeOK ==
    /\ now \in UInt
    /\ up \in BOOLEAN
    /\ registry \in [Domains -> Ips \cup {NoIp}]
    /\ addr \in [Clients -> DottedIps]
    /\ pc \in [Clients -> {"idle", "wait", "ok", "failed"}]
    /\ port \in [Clients -> Ports \cup {NoPort}]
    /\ waited \in [Clients -> {0, 1}]
    /\ since \in [Clients -> 0 .. CronPeriod]
    /\ net \subseteq Request \cup Response
    /\ served \in [Clients -> BOOLEAN]
    /\ moves \in 0 .. MaxMoves
    /\ crashes \in 0 .. MaxCrashes

Init ==
    /\ now \in UInt
    /\ up = TRUE
    /\ registry = [d \in Domains |-> NoIp]
    /\ addr \in {a \in [Clients -> DottedIps] :
                    Shared \/ \A c, e \in Clients : c # e => a[c] # a[e]}
    /\ pc = [c \in Clients |-> "idle"]
    /\ port = [c \in Clients |-> NoPort]
    /\ waited = [c \in Clients |-> 0]
    /\ since = [c \in Clients |-> CronPeriod]
    /\ net = {}
    /\ served = [c \in Clients |-> FALSE]
    /\ moves = 0
    /\ crashes = 0

-----------------------------------------------------------------------------
(* The network *)

\* What is left of the datagrams in ms when m has been delivered.
Delivered(m) == {net \ {m}} \cup (IF Duplicates THEN {net} ELSE {})

\* The datagrams under way when m is sent while those in ms are: all of
\* them, or m is lost because the network is full.
Sent(ms, m) == IF Cardinality(ms) < MaxNet THEN ms \cup {m} ELSE ms

\* c starts another run: its datagrams are now those of an earlier run.
Aged(c) == {[m EXCEPT !.old = @ \/ m.owner = c] : m \in net}

ClientClock(c) == (now + Skew[c]) % UIntModulus

-----------------------------------------------------------------------------
(* The client program *)

\* The ports the kernel may bind for c.
FreePorts(c) ==
    {p \in Ports :
        /\ \A e \in Clients : pc[e] = "wait" /\ addr[e] = addr[c] => port[e] # p
        /\ \/ PortReuse
           \/ /\ \A m \in net : m.port # p
              /\ \A e \in Clients : pc[e] = "wait" => port[e] # p}

UpdateRequest(c, p) ==
    [kind |-> "req", owner |-> c, addr |-> addr[c], port |-> p,
     seal |-> Pack(KeyOf[c], ClientClock(c)), life |-> 0, old |-> FALSE]

\* A run up to its poll: make the socket, pack and send the request.
Start(c) ==
    /\ pc[c] # "wait"
    /\ since[c] = CronPeriod
    /\ \E p \in FreePorts(c) :
          /\ port' = [port EXCEPT ![c] = p]
          /\ net' = Sent(Aged(c), UpdateRequest(c, p))
    /\ pc' = [pc EXCEPT ![c] = "wait"]
    /\ waited' = [waited EXCEPT ![c] = 0]
    /\ since' = [since EXCEPT ![c] = 0]
    /\ served' = [served EXCEPT ![c] = FALSE]
    /\ UNCHANGED <<now, up, registry, addr, moves, crashes>>

\* No socket, no address for the server's name, or sendto fails.
StartFails(c) ==
    /\ pc[c] # "wait"
    /\ since[c] = CronPeriod
    /\ pc' = [pc EXCEPT ![c] = "failed"]
    /\ port' = [port EXCEPT ![c] = NoPort]
    /\ waited' = [waited EXCEPT ![c] = 0]
    /\ since' = [since EXCEPT ![c] = 0]
    /\ net' = Aged(c)
    /\ served' = [served EXCEPT ![c] = FALSE]
    /\ UNCHANGED <<now, up, registry, addr, moves, crashes>>

\* Variant: the client does not look at retcode.
Receive_IgnoresRetcode(c, m) ==
    /\ pc[c] = "wait"
    /\ m.kind = "rsp"
    /\ m.addr = addr[c]
    /\ m.port = port[c]
    /\ \E ok \in Unpack(KeyOf[c], ClientClock(c), m.seal) :
          pc' = [pc EXCEPT ![c] = IF ok THEN "ok" ELSE "failed"]
    /\ net' \in Delivered(m)
    /\ UNCHANGED <<now, up, registry, addr, port, waited, since, served,
                   moves, crashes>>

\* poll returns a datagram: the response is unpacked, its retcode read.
\* Nothing in it names the run, the domain or the request it answers.
Receive(c, m) ==
    /\ pc[c] = "wait"
    /\ m.kind = "rsp"
    /\ m.addr = addr[c]
    /\ m.port = port[c]
    /\ \E ok \in Unpack(KeyOf[c], ClientClock(c), m.seal) :
          pc' = [pc EXCEPT ![c] = IF ok /\ m.retcode = 0
                                    THEN "ok" ELSE "failed"]
    /\ net' \in Delivered(m)
    /\ UNCHANGED <<now, up, registry, addr, port, waited, since, served,
                   moves, crashes>>

\* poll times out or fails, or recvfrom does.  There is no second attempt.
GiveUp(c) ==
    /\ pc[c] = "wait"
    /\ pc' = [pc EXCEPT ![c] = "failed"]
    /\ UNCHANGED <<now, up, registry, addr, port, waited, since, net, served,
                   moves, crashes>>

-----------------------------------------------------------------------------
(* The server: proc_cmd *)

\* The ip text the domain is set to: the json "ip", else the sender's.
SetTo(m) == IF ArgIp[m.owner] = NoIp THEN m.addr ELSE ArgIp[m.owner]

\* Where the answer goes.  ip points at the json "ip" when there is one, and
\* the final udp_send reads it after cJSON_Delete: the freed text may still
\* be there, or be one no address is made of.
ReplyTo(m) == IF ArgIp[m.owner] = NoIp THEN {m.addr}
                                         ELSE {ArgIp[m.owner], NoIp}

\* Variant: every answer says "ok".
Reply_AlwaysOk(m, dest, rc) ==
    [kind |-> "rsp", owner |-> m.owner, addr |-> dest, port |-> m.port,
     seal |-> Pack(ServerKey, now), retcode |-> 0, life |-> 0,
     old |-> m.old]

Reply(m, dest, rc) ==
    [kind |-> "rsp", owner |-> m.owner, addr |-> dest, port |-> m.port,
     seal |-> Pack(ServerKey, now), retcode |-> rc, life |-> 0,
     old |-> m.old]

Answered(ms, m, dest, rc) ==
    IF dest = NoIp THEN ms ELSE Sent(ms, Reply(m, dest, rc))

\* Variant: a domain found in the table keeps its ip.
HandleUpdate_InsertsOnly(m) ==
    /\ up
    /\ m.kind = "req"
    /\ TRUE \in Unpack(ServerKey, now, m.seal)
    /\ registry' = [registry EXCEPT ![DomainOf[m.owner]] =
                       IF @ = NoIp THEN SetTo(m) ELSE @]
    /\ served' = [served EXCEPT ![m.owner] = @ \/ ~m.old]
    /\ \E left \in Delivered(m), dest \in ReplyTo(m) :
          net' = Answered(left, m, dest, 0)
    /\ UNCHANGED <<now, up, addr, clientVars, moves, crashes>>

\* The request unpacks: insert the domain or overwrite its ip, and answer.
HandleUpdate(m) ==
    /\ up
    /\ m.kind = "req"
    /\ TRUE \in Unpack(ServerKey, now, m.seal)
    /\ registry' = [registry EXCEPT ![DomainOf[m.owner]] = SetTo(m)]
    /\ served' = [served EXCEPT ![m.owner] = @ \/ ~m.old]
    /\ \E left \in Delivered(m), dest \in ReplyTo(m) :
          net' = Answered(left, m, dest, 0)
    /\ UNCHANGED <<now, up, addr, clientVars, moves, crashes>>

\* No memory for the node of a new domain; the answer is sent before the
\* json is freed.
MallocFails(m) ==
    /\ up
    /\ m.kind = "req"
    /\ TRUE \in Unpack(ServerKey, now, m.seal)
    /\ registry[DomainOf[m.owner]] = NoIp
    /\ \E left \in Delivered(m) : net' = Answered(left, m, SetTo(m), 1)
    /\ UNCHANGED <<now, up, registry, addr, clientVars, served, moves, crashes>>

\* "recv invalid cmd pack!": no answer.
RejectUpdate(m) ==
    /\ up
    /\ m.kind = "req"
    /\ FALSE \in Unpack(ServerKey, now, m.seal)
    /\ net' \in Delivered(m)
    /\ UNCHANGED <<now, up, registry, addr, clientVars, served, moves, crashes>>

-----------------------------------------------------------------------------
(* The environment *)

\* The server ends, for whatever reason.  One is in fill_binary_ip: a query
\* for a domain set to a text without dots makes it follow a NULL.
Crash ==
    /\ up
    /\ crashes < MaxCrashes
    /\ up' = FALSE
    /\ registry' = [d \in Domains |-> NoIp]
    /\ crashes' = crashes + 1
    /\ UNCHANGED <<now, addr, clientVars, net, served, moves>>

Restart ==
    /\ ~up
    /\ up' = TRUE
    /\ UNCHANGED <<now, registry, addr, clientVars, net, served, moves, crashes>>

\* A dynamic address changes; the new one may have been another client's.
Move(c) ==
    /\ moves < MaxMoves
    /\ \E a \in DottedIps \ {addr[c]} :
          /\ Shared \/ \A e \in Clients : addr[e] # a
          /\ addr' = [addr EXCEPT ![c] = a]
    /\ moves' = moves + 1
    /\ UNCHANGED <<now, up, registry, clientVars, net, served, crashes>>

\* A second passes.  A client whose poll has waited a second acts first.
Tick ==
    /\ \A c \in Clients : pc[c] = "wait" => waited[c] = 0
    /\ now' = UAdd(now, 1)
    /\ waited' = [c \in Clients |-> IF pc[c] = "wait" THEN 1 ELSE waited[c]]
    /\ since' = [c \in Clients |->
                    IF since[c] < CronPeriod THEN since[c] + 1 ELSE CronPeriod]
    /\ net' = {[m EXCEPT !.life = @ + 1] :
                  m \in {n \in net : n.life + 1 < MaxLife}}
    /\ UNCHANGED <<up, registry, addr, pc, port, served, moves, crashes>>

-----------------------------------------------------------------------------
ClientStep(c) ==
    \/ Start(c)
    \/ StartFails(c)
    \/ \E m \in net : Receive(c, m)
    \/ GiveUp(c)

ServerStep ==
    \E m \in net : HandleUpdate(m) \/ MallocFails(m) \/ RejectUpdate(m)

Environment ==
    \/ Crash
    \/ Restart
    \/ Tick
    \/ \E c \in Clients : Move(c)

Next == ServerStep \/ Environment \/ \E c \in Clients : ClientStep(c)

Spec == Init /\ [][Next]_vars

\* Of the requests c sends from its present address, not all are lost or
\* late for ever.
Heard(c) == \E m \in net : m.owner = c /\ m.addr = addr[c] /\ HandleUpdate(m)

\* Time passes, an operator restarts the server, a run that waits ends, cron
\* starts runs again and again and not every one fails to send, and the
\* network is fair to each client.
Fairness ==
    /\ WF_vars(Tick)
    /\ WF_vars(Restart)
    /\ \A c \in Clients : /\ WF_vars(GiveUp(c))
                          /\ SF_vars(Start(c))
                          /\ SF_vars(Heard(c))

FairSpec == Spec /\ Fairness

-----------------------------------------------------------------------------
(* Properties *)

\* When dns_update says "update domain ... ok!" the server has applied the
\* request of that very run, although the answer it took names no run.
ConfirmedIsApplied == \A c \in Clients : pc[c] = "ok" => served[c]

\* A request that was under way for so long that the two clocks differ by
\* more than TIME_DIFF when it arrives, or that is sealed with another key,
\* never sets an address.
WithinWindow(m) == /\ m.life - Skew[m.owner] <= TIME_DIFF
                   /\ Skew[m.owner] - m.life <= TIME_DIFF

AppliedInTime ==
    [][\A d \in Domains : registry'[d] # registry[d] /\ registry'[d] # NoIp =>
          \E m \in net : /\ m.kind = "req"
                         /\ DomainOf[m.owner] = d
                         /\ registry'[d] = SetTo(m)
                         /\ m.seal.key = ServerKey
                         /\ WithinWindow(m)]_vars

\* The detailed protocol does only what the abstract service may do.
Trusted == {c \in Clients : KeyOf[c] = ServerKey}

Service == INSTANCE UpdateService
    WITH table <- registry, run <- pc, applied <- served

ImplementsService == Service!SSpec

\* Once addresses stop changing and the server stops crashing, every domain
\* a single trusted client updates comes to hold that client's address for
\* good: late, repeated and reordered requests from an earlier address are
\* overwritten, and a restarted server is filled again.
OwnsDomain(c) == /\ c \in Trusted
                 /\ \A e \in Trusted \ {c} : DomainOf[e] # DomainOf[c]

Target(c) == IF ArgIp[c] = NoIp THEN addr[c] ELSE ArgIp[c]

Converges ==
    \A c \in Clients :
        OwnsDomain(c) => <>[](registry[DomainOf[c]] = Target(c))

\* An answer goes back to the client that asked: while no address changes,
\* every answer under way is addressed to its client.
AnswersReturn ==
    \A m \in net : m.kind = "rsp" => m.addr = addr[m.owner]
=============================================================================
