------------------------ MODULE UpdateProtocolProofs ------------------------
(***************************************************************************)
(* Proofs about UpdateProtocol, for every value of its constants.          *)
(***************************************************************************)
EXTENDS UpdateProtocol, TLAPS

-----------------------------------------------------------------------------
(* The clock test of unpack_update_pkg does what it is meant to, for every
   width of unsigned int and every TIME_DIFF *)

\* An unsigned int is what % UIntModulus returns.
LEMMA ModUInt ==
    ASSUME NEW x \in Int
    PROVE  x % UIntModulus \in UInt
  BY PacketAssumption DEF UInt

\* One subtraction of unsigned ints wraps at most once.
LEMMA ModSmall ==
    ASSUME NEW x \in Int, -UIntModulus < x, x < UIntModulus
    PROVE  x % UIntModulus = IF x >= 0 THEN x ELSE x + UIntModulus
  BY PacketAssumption

\* One addition of unsigned ints wraps at most once.
LEMMA ModLarge ==
    ASSUME NEW x \in Int, UIntModulus <= x, x < 2 * UIntModulus
    PROVE  x % UIntModulus = x - UIntModulus
  BY PacketAssumption

\* A clock that ticks wraps to 0 after the largest unsigned int.
LEMMA TickWraps ==
    ASSUME NEW t \in UInt
    PROVE  UAdd(t, 1) = IF t + 1 = UIntModulus THEN 0 ELSE t + 1
  <1>1. /\ t + 1 \in Int /\ 0 <= t + 1 /\ t + 1 <= UIntModulus
        /\ UIntModulus \in Nat \ {0}
    BY PacketAssumption DEF UInt
  <1>2. CASE t + 1 = UIntModulus
    BY <1>1, <1>2, ModLarge DEF UAdd
  <1>3. CASE t + 1 < UIntModulus
    BY <1>1, <1>3, ModSmall DEF UAdd
  <1> QED
    BY <1>1, <1>2, <1>3

\* cur is d ahead of ts (behind it when d < 0) on the circle of clocks.
Ahead(cur, ts, d) == cur - ts \in {d, d + UIntModulus, d - UIntModulus}

\* Less than half the circle, the difference comes back with its sign.
LEMMA SignedDifference ==
    ASSUME NEW cur \in UInt, NEW ts \in UInt, NEW d \in Int,
           Ahead(cur, ts, d), 2 * d < UIntModulus, -UIntModulus < 2 * d
    PROVE  ToInt(USub(cur, ts)) = d
  <1> USE PacketAssumption
  <1>1. /\ cur - ts \in Int
        /\ -UIntModulus < cur - ts
        /\ cur - ts < UIntModulus
    BY DEF UInt
  <1>2. USub(cur, ts) =
            IF cur - ts >= 0 THEN cur - ts ELSE cur - ts + UIntModulus
    BY <1>1, ModSmall DEF USub
  <1> QED
    BY <1>1, <1>2 DEF ToInt, Ahead

\* The answer of the clock test for clocks d apart.
LEMMA WindowOfDifference ==
    ASSUME NEW cur \in UInt, NEW ts \in UInt, NEW d \in Int,
           Ahead(cur, ts, d), 2 * d < UIntModulus, -UIntModulus < 2 * d
    PROVE  InTime(cur, ts) = {(IF d < 0 THEN -d ELSE d) <= TIME_DIFF}
  <1>1. ToInt(USub(cur, ts)) = d
    BY SignedDifference
  <1>2. AbsResults(d) = {IF d < 0 THEN -d ELSE d}
    BY PacketAssumption DEF AbsResults
  <1> QED
    BY <1>1, <1>2 DEF InTime

\* The clock test of unpack_update_pkg, done in wrapping unsigned arithmetic
\* and abs(), accepts exactly the packets whose clock is within TIME_DIFF.
THEOREM WindowIsExact ==
    \A cur, ts \in UInt : ExactWindow(cur, ts)
  <1> SUFFICES ASSUME NEW cur \in UInt, NEW ts \in UInt, ~Antipodal(cur, ts)
               PROVE  InTime(cur, ts) = {ClockDistance(cur, ts) <= TIME_DIFF}
    BY DEF ExactWindow
  <1> USE PacketAssumption
  <1> DEFINE diff == cur - ts
             d == IF 2 * diff > UIntModulus THEN diff - UIntModulus
                  ELSE IF 2 * diff < -UIntModulus THEN diff + UIntModulus
                  ELSE diff
  <1>1. /\ diff \in Int
        /\ -UIntModulus < diff
        /\ diff < UIntModulus
    BY DEF UInt
  <1>2. d \in Int /\ Ahead(cur, ts, d)
    BY <1>1 DEF Ahead
  <1>3. 2 * d < UIntModulus /\ -UIntModulus < 2 * d
    BY <1>1 DEF Antipodal, ClockDistance, UInt
  <1>4. ClockDistance(cur, ts) = IF d < 0 THEN -d ELSE d
    BY <1>1 DEF ClockDistance, UInt
  <1>5. InTime(cur, ts) = {(IF d < 0 THEN -d ELSE d) <= TIME_DIFF}
    BY <1>2, <1>3, WindowOfDifference
  <1> QED
    BY <1>4, <1>5

-----------------------------------------------------------------------------
(* What the network operators return *)

USE PacketAssumption, ProtocolAssumption

\* Sending adds at most the datagram that is sent.
LEMMA SentAdds ==
    ASSUME NEW ms, NEW m
    PROVE  Sent(ms, m) \subseteq ms \cup {m}
  BY DEF Sent

\* Delivery adds nothing.
LEMMA DeliveredKeeps ==
    ASSUME NEW m, NEW left \in Delivered(m)
    PROVE  left \subseteq net
  BY DEF Delivered

\* Answering adds at most the answer, and only if it has somewhere to go.
LEMMA AnsweredAdds ==
    ASSUME NEW ms, NEW m, NEW dest, NEW rc
    PROVE  \A n \in Answered(ms, m, dest, rc) :
               n \in ms \/ (dest # NoIp /\ n = Reply(m, dest, rc))
  BY SentAdds DEF Answered

-----------------------------------------------------------------------------
(* Type correctness *)

\* The datagrams a step of the server's answer adds are well typed.
LEMMA ReplyType ==
    ASSUME TypeOK, NEW m \in net, m.kind = "req",
           NEW dest \in Ips, NEW rc \in {0, 1}
    PROVE  Reply(m, dest, rc) \in Response
  <1>1. m \in Request
    BY DEF TypeOK, Request, Response
  <1> QED
    BY <1>1 DEF TypeOK, Reply, Request, Response, Pack

\* The datagrams a run sends are well typed.
LEMMA RequestType ==
    ASSUME TypeOK, NEW c \in Clients, NEW p \in Ports
    PROVE  UpdateRequest(c, p) \in Request
  <1>1. now + Skew[c] \in Int
    BY DEF TypeOK, UInt
  <1>2. ClientClock(c) \in UInt
    BY <1>1, ModUInt DEF ClientClock
  <1> QED
    BY <1>2 DEF TypeOK, UpdateRequest, Request, Pack

\* Ageing a run's datagrams leaves them well typed.
LEMMA AgedType ==
    ASSUME TypeOK, NEW c \in Clients
    PROVE  Aged(c) \subseteq Request \cup Response
  <1>1. ASSUME NEW m \in net
        PROVE  [m EXCEPT !.old = @ \/ m.owner = c] \in Request \cup Response
    <2>1. CASE m \in Request
      BY <2>1 DEF Request
    <2>2. CASE m \in Response
      BY <2>2 DEF Response
    <2> QED
      BY <2>1, <2>2 DEF TypeOK
  <1> QED
    BY <1>1 DEF Aged

\* The address a request sets, and where its answer goes.
LEMMA SetToType ==
    ASSUME TypeOK, NEW m \in net, m.kind = "req"
    PROVE  /\ SetTo(m) \in Ips
           /\ ReplyTo(m) \subseteq Ips \cup {NoIp}
           /\ m.owner \in Clients
           /\ DomainOf[m.owner] \in Domains
  <1>1. m \in Request
    BY DEF TypeOK, Request, Response
  <1> QED
    BY <1>1 DEF SetTo, ReplyTo, Request

\* The state is well typed when the program starts.
LEMMA InitType == Init => TypeOK
  BY DEF Init, TypeOK, UInt

\* Every step leaves the state well typed.
LEMMA NextType == TypeOK /\ [Next]_vars => TypeOK'
  <1> SUFFICES ASSUME TypeOK, [Next]_vars
               PROVE  TypeOK'
    OBVIOUS
  <1>1. ASSUME NEW c \in Clients, Start(c)
        PROVE  TypeOK'
    <2>1. PICK p \in FreePorts(c) : /\ port' = [port EXCEPT ![c] = p]
                                    /\ net' = Sent(Aged(c), UpdateRequest(c, p))
      BY <1>1 DEF Start
    <2>2. p \in Ports
      BY <2>1 DEF FreePorts
    <2>3. net' \subseteq Request \cup Response
      BY <2>1, <2>2, SentAdds, AgedType, RequestType
    <2> QED
      BY <1>1, <2>1, <2>2, <2>3 DEF Start, TypeOK
  <1>2. ASSUME NEW c \in Clients, StartFails(c)
        PROVE  TypeOK'
    BY <1>2, AgedType DEF StartFails, TypeOK
  <1>3. ASSUME NEW c \in Clients, NEW m \in net, Receive(c, m)
        PROVE  TypeOK'
    <2>1. net' \subseteq net
      BY <1>3, DeliveredKeeps DEF Receive
    <2> QED
      BY <1>3, <2>1 DEF Receive, TypeOK
  <1>4. ASSUME NEW c \in Clients, GiveUp(c)
        PROVE  TypeOK'
    BY <1>4 DEF GiveUp, TypeOK
  <1>5. ASSUME NEW m \in net, HandleUpdate(m)
        PROVE  TypeOK'
    <2>1. m.kind = "req"
      BY <1>5 DEF HandleUpdate
    <2>2. PICK left \in Delivered(m), dest \in ReplyTo(m) :
              net' = Answered(left, m, dest, 0)
      BY <1>5 DEF HandleUpdate
    <2>3. net' \subseteq Request \cup Response
      BY <2>1, <2>2, AnsweredAdds, DeliveredKeeps, ReplyType, SetToType
         DEF TypeOK
    <2>4. registry' \in [Domains -> Ips \cup {NoIp}]
      BY <1>5, <2>1, SetToType DEF HandleUpdate, TypeOK
    <2>5. served' \in [Clients -> BOOLEAN]
      <3>1. m.old \in BOOLEAN
        BY DEF TypeOK, Request, Response
      <3> QED
        BY <1>5, <3>1 DEF HandleUpdate, TypeOK
    <2> QED
      BY <1>5, <2>3, <2>4, <2>5 DEF HandleUpdate, TypeOK, clientVars
  <1>6. ASSUME NEW m \in net, MallocFails(m)
        PROVE  TypeOK'
    <2>1. m.kind = "req"
      BY <1>6 DEF MallocFails
    <2>2. PICK left \in Delivered(m) : net' = Answered(left, m, SetTo(m), 1)
      BY <1>6 DEF MallocFails
    <2>3. net' \subseteq Request \cup Response
      BY <2>1, <2>2, AnsweredAdds, DeliveredKeeps, ReplyType, SetToType
         DEF TypeOK
    <2> QED
      BY <1>6, <2>3 DEF MallocFails, TypeOK, clientVars
  <1>7. ASSUME NEW m \in net, RejectUpdate(m)
        PROVE  TypeOK'
    <2>1. net' \subseteq net
      BY <1>7, DeliveredKeeps DEF RejectUpdate
    <2> QED
      BY <1>7, <2>1 DEF RejectUpdate, TypeOK, clientVars
  <1>8. CASE Crash
    <2>1. crashes' \in 0 .. MaxCrashes
      BY <1>8 DEF Crash, TypeOK
    <2>2. registry' \in [Domains -> Ips \cup {NoIp}]
      BY <1>8 DEF Crash
    <2> QED
      BY <1>8, <2>1, <2>2 DEF Crash, TypeOK, clientVars
  <1>9. CASE Restart
    BY <1>9 DEF Restart, TypeOK, clientVars
  <1>10. ASSUME NEW c \in Clients, Move(c)
         PROVE  TypeOK'
    BY <1>10 DEF Move, TypeOK, clientVars
  <1>11. CASE Tick
    <2>1. now' \in UInt
      BY <1>11, ModUInt DEF Tick, TypeOK, UAdd, UInt
    <2>2. ASSUME NEW m \in net, m.life + 1 < MaxLife
          PROVE  [m EXCEPT !.life = @ + 1] \in Request \cup Response
      <3>1. CASE m \in Request
        BY <2>2, <3>1 DEF Request
      <3>2. CASE m \in Response
        BY <2>2, <3>2 DEF Response
      <3> QED
        BY <3>1, <3>2 DEF TypeOK
    <2>3. net' \subseteq Request \cup Response
      BY <1>11, <2>2 DEF Tick
    <2>4. since' \in [Clients -> 0 .. CronPeriod]
      BY <1>11 DEF Tick, TypeOK
    <2>5. waited' \in [Clients -> {0, 1}]
      BY <1>11 DEF Tick, TypeOK
    <2> QED
      BY <1>11, <2>1, <2>3, <2>4, <2>5 DEF Tick, TypeOK
  <1>12. CASE UNCHANGED vars
    BY <1>12 DEF vars, TypeOK
  <1> QED
    BY <1>1, <1>2, <1>3, <1>4, <1>5, <1>6, <1>7, <1>8, <1>9, <1>10,
       <1>11, <1>12 DEF Next, ClientStep, ServerStep, Environment

\* Every state of the protocol is well typed.
THEOREM TypeCorrect == Spec => []TypeOK
  BY InitType, NextType, PTL DEF Spec

-----------------------------------------------------------------------------
(* What each step makes of the datagrams under way *)

\* n is m, except perhaps for its ghosts.
SameDatagram(n, m) ==
    /\ n.kind = m.kind
    /\ n.owner = m.owner
    /\ n.addr = m.addr
    /\ n.port = m.port
    /\ n.seal = m.seal
    /\ n.kind = "rsp" => n.retcode = m.retcode

\* n is m with the flag old it has once c has started another run.
AgedFlag(n, m, c) == /\ m.owner = c => n.old = TRUE
                     /\ m.owner # c => n.old = m.old

\* Ageing changes nothing but old.
LEMMA AgedDatagram ==
    ASSUME TypeOK, NEW c \in Clients, NEW n \in Aged(c)
    PROVE  \E m \in net : /\ SameDatagram(n, m)
                          /\ n.life = m.life
                          /\ AgedFlag(n, m, c)
  <1>1. PICK m \in net : n = [m EXCEPT !.old = @ \/ m.owner = c]
    BY DEF Aged
  <1>2. CASE m \in Request
    BY <1>1, <1>2 DEF Request, SameDatagram, AgedFlag
  <1>3. CASE m \in Response
    BY <1>1, <1>3 DEF Response, SameDatagram, AgedFlag
  <1> QED
    BY <1>2, <1>3 DEF TypeOK

\* A tick changes nothing but life.
LEMMA TickedDatagram ==
    ASSUME TypeOK, Tick, NEW n \in net'
    PROVE  \E m \in net : /\ SameDatagram(n, m)
                          /\ n.life = m.life + 1
                          /\ n.old = m.old
                          /\ m.life + 1 < MaxLife
  <1>1. PICK m \in net : /\ n = [m EXCEPT !.life = @ + 1]
                         /\ m.life + 1 < MaxLife
    BY DEF Tick
  <1>2. CASE m \in Request
    BY <1>1, <1>2 DEF Request, SameDatagram
  <1>3. CASE m \in Response
    BY <1>1, <1>3 DEF Response, SameDatagram
  <1> QED
    BY <1>2, <1>3 DEF TypeOK

\* The fields of a request and of an answer as they are sent.
LEMMA SentFields ==
    /\ \A c, p : LET n == UpdateRequest(c, p)
                 IN  /\ n.kind = "req" /\ n.owner = c /\ n.addr = addr[c]
                     /\ n.port = p /\ n.life = 0 /\ n.old = FALSE
                     /\ n.seal = Pack(KeyOf[c], ClientClock(c))
    /\ \A m, dest, rc : LET n == Reply(m, dest, rc)
                        IN  /\ n.kind = "rsp" /\ n.owner = m.owner
                            /\ n.addr = dest /\ n.port = m.port
                            /\ n.life = 0 /\ n.old = m.old
                            /\ n.retcode = rc
                            /\ n.seal = Pack(ServerKey, now)
  BY DEF UpdateRequest, Reply

\* After a handled or refused request, what is new is an answer to it.
LEMMA HandledDatagram ==
    ASSUME NEW m, HandleUpdate(m), NEW n \in net'
    PROVE  n \in net \/ \E dest \in ReplyTo(m) \ {NoIp} : n = Reply(m, dest, 0)
  BY AnsweredAdds, DeliveredKeeps DEF HandleUpdate

LEMMA FailedDatagram ==
    ASSUME NEW m, MallocFails(m), NEW n \in net'
    PROVE  n \in net \/ n = Reply(m, SetTo(m), 1)
  BY AnsweredAdds, DeliveredKeeps DEF MallocFails

\* After a run starts, what is new is its request, on a port that was free.
LEMMA StartedDatagram ==
    ASSUME NEW c \in Clients, Start(c), TypeOK
    PROVE  \E p \in FreePorts(c) :
              /\ port' = [port EXCEPT ![c] = p]
              /\ \A n \in net' : n \in Aged(c) \/ n = UpdateRequest(c, p)
  <1>1. PICK p \in FreePorts(c) : /\ port' = [port EXCEPT ![c] = p]
                                  /\ net' = Sent(Aged(c), UpdateRequest(c, p))
    BY DEF Start
  <1>2. Sent(Aged(c), UpdateRequest(c, p)) \subseteq
            Aged(c) \cup {UpdateRequest(c, p)}
    BY SentAdds
  <1>3. \A n \in net' : n \in Aged(c) \/ n = UpdateRequest(c, p)
    BY <1>1, <1>2
  <1> QED
    BY <1>1, <1>3

-----------------------------------------------------------------------------
(* A run that ends "ok" was served, when ports are not given again soon *)

\* A confirmed run was served; so was one a confirmation is under way for;
\* whatever names a waiting client's port belongs to its present run; and
\* two clients do not wait on the same port.
PortInv ==
    /\ \A c \in Clients : pc[c] = "ok" => served[c]
    /\ \A m \in net : m.kind = "rsp" /\ m.retcode = 0 /\ ~m.old
                          => served[m.owner]
    /\ \A c \in Clients, m \in net :
          pc[c] = "wait" /\ m.port = port[c] => m.owner = c /\ ~m.old
    /\ \A c, e \in Clients :
          pc[c] = "wait" /\ pc[e] = "wait" /\ c # e => port[c] # port[e]

LEMMA PortInit == Init => PortInv
  BY DEF Init, PortInv

LEMMA PortNext ==
    ASSUME ~PortReuse, TypeOK, PortInv, [Next]_vars
    PROVE  PortInv'
  <1>1. ASSUME NEW c \in Clients, Start(c)
        PROVE  PortInv'
    <2>1. PICK p \in FreePorts(c) :
              /\ port' = [port EXCEPT ![c] = p]
              /\ \A n \in net' : n \in Aged(c) \/ n = UpdateRequest(c, p)
      BY <1>1, StartedDatagram
    <2>2. /\ \A m \in net : m.port # p
          /\ \A e \in Clients : pc[e] = "wait" => port[e] # p
      BY <2>1 DEF FreePorts
    <2>3. /\ pc' = [pc EXCEPT ![c] = "wait"]
          /\ served' = [served EXCEPT ![c] = FALSE]
      BY <1>1 DEF Start
    <2>4. \A n \in net' :
              \/ \E m \in net : SameDatagram(n, m) /\ AgedFlag(n, m, c)
              \/ n = UpdateRequest(c, p)
      BY <2>1, AgedDatagram
    <2>5. \A e \in Clients : pc'[e] = "ok" => served'[e]
      BY <2>3 DEF TypeOK, PortInv
    <2>6. \A n \in net' : n.kind = "rsp" /\ n.retcode = 0 /\ ~n.old
                              => served'[n.owner]
      BY <2>3, <2>4, SentFields DEF TypeOK, PortInv, SameDatagram, AgedFlag
    <2>7. \A e \in Clients, n \in net' :
              pc'[e] = "wait" /\ n.port = port'[e] => n.owner = e /\ ~n.old
      BY <2>1, <2>2, <2>3, <2>4, SentFields
         DEF TypeOK, PortInv, SameDatagram, AgedFlag
    <2>8. \A b, e \in Clients :
              pc'[b] = "wait" /\ pc'[e] = "wait" /\ b # e => port'[b] # port'[e]
      BY <2>1, <2>2, <2>3 DEF TypeOK, PortInv
    <2> QED
      BY <2>5, <2>6, <2>7, <2>8 DEF PortInv
  <1>2. ASSUME NEW c \in Clients, StartFails(c)
        PROVE  PortInv'
    <2>1. /\ pc' = [pc EXCEPT ![c] = "failed"]
          /\ port' = [port EXCEPT ![c] = NoPort]
          /\ served' = [served EXCEPT ![c] = FALSE]
      BY <1>2 DEF StartFails
    <2>2. \A n \in net' :
              \E m \in net : SameDatagram(n, m) /\ AgedFlag(n, m, c)
      BY <1>2, AgedDatagram DEF StartFails
    <2> QED
      BY <2>1, <2>2 DEF TypeOK, PortInv, SameDatagram, AgedFlag
  <1>3. ASSUME NEW c \in Clients, NEW m \in net, Receive(c, m)
        PROVE  PortInv'
    <2>1. net' \subseteq net
      BY <1>3, DeliveredKeeps DEF Receive
    <2>2. pc' = [pc EXCEPT ![c] = "failed"]
              \/ (pc' = [pc EXCEPT ![c] = "ok"] /\ m.retcode = 0)
      BY <1>3 DEF Receive
    <2>3. m.retcode = 0 => served[c]
      BY <1>3 DEF Receive, PortInv
    <2> QED
      BY <1>3, <2>1, <2>2, <2>3 DEF Receive, TypeOK, PortInv
  <1>4. ASSUME NEW c \in Clients, GiveUp(c)
        PROVE  PortInv'
    BY <1>4 DEF GiveUp, TypeOK, PortInv
  <1>5. ASSUME NEW m \in net, HandleUpdate(m)
        PROVE  PortInv'
    <2>1. m.owner \in Clients /\ m.old \in BOOLEAN
      BY DEF TypeOK, Request, Response
    <2>2. served' = [served EXCEPT ![m.owner] = @ \/ ~m.old]
      BY <1>5 DEF HandleUpdate
    <2>3. UNCHANGED <<pc, port>>
      BY <1>5 DEF HandleUpdate, clientVars
    <2>4. \A e \in Clients : served[e] => served'[e]
      BY <2>1, <2>2 DEF TypeOK
    <2>5. ~m.old => served'[m.owner]
      BY <2>1, <2>2 DEF TypeOK
    <2>6. \A n \in net : n.owner \in Clients
      BY DEF TypeOK, Request, Response
    <2>7. \A n \in net' :
              n \in net \/ (n.port = m.port /\ n.owner = m.owner /\ n.old = m.old)
      BY <1>5, HandledDatagram, SentFields
    <2> QED
      BY <2>3, <2>4, <2>5, <2>6, <2>7 DEF PortInv
  <1>6. ASSUME NEW m \in net, MallocFails(m)
        PROVE  PortInv'
    <2>1. UNCHANGED <<pc, port, served>>
      BY <1>6 DEF MallocFails, clientVars
    <2>2. \A n \in net' :
              n \in net \/ (n.port = m.port /\ n.owner = m.owner
                              /\ n.old = m.old /\ n.retcode = 1)
      BY <1>6, FailedDatagram, SentFields
    <2> QED
      BY <2>1, <2>2 DEF PortInv
  <1>7. ASSUME NEW m \in net, RejectUpdate(m)
        PROVE  PortInv'
    BY <1>7, DeliveredKeeps DEF RejectUpdate, PortInv, clientVars
  <1>8. CASE Crash
    BY <1>8 DEF Crash, PortInv, clientVars
  <1>9. CASE Restart
    BY <1>9 DEF Restart, PortInv, clientVars
  <1>10. ASSUME NEW c \in Clients, Move(c)
         PROVE  PortInv'
    BY <1>10 DEF Move, PortInv, clientVars
  <1>11. CASE Tick
    <2>1. UNCHANGED <<pc, port, served>>
      BY <1>11 DEF Tick
    <2>2. \A n \in net' :
              \E m \in net : SameDatagram(n, m) /\ n.old = m.old
      BY <1>11, TickedDatagram
    <2> QED
      BY <2>1, <2>2 DEF PortInv, SameDatagram
  <1>12. CASE UNCHANGED vars
    BY <1>12 DEF vars, PortInv
  <1> QED
    BY <1>1, <1>2, <1>3, <1>4, <1>5, <1>6, <1>7, <1>8, <1>9, <1>10,
       <1>11, <1>12 DEF Next, ClientStep, ServerStep, Environment

\* If the kernel gives no port a datagram under way still names, "update
\* domain ... ok!" is said only of a request the server has applied.
THEOREM ConfirmedWithFreshPorts ==
    ASSUME ~PortReuse
    PROVE  Spec => []ConfirmedIsApplied
  <1>1. TypeOK /\ PortInv /\ [Next]_vars => PortInv'
    BY PortNext
  <1>2. PortInv => ConfirmedIsApplied
    BY DEF PortInv, ConfirmedIsApplied
  <1> QED
    BY <1>1, <1>2, PortInit, InitType, NextType, PTL DEF Spec

-----------------------------------------------------------------------------
(* Clocks: what a packet's time stamp says of its age *)

\* The server's clock is ahead of a request's stamp by the request's age less
\* the client's skew, and of an answer's stamp by the answer's age.
Age(m) == IF m.kind = "req" THEN m.life - Skew[m.owner] ELSE m.life

ClockInv == \A m \in net : Ahead(now, m.seal.ts, Age(m))

\* Neither kind of age reaches half the circle of clocks.
LEMMA AgeBounds ==
    ASSUME TypeOK, NEW m \in net
    PROVE  /\ Age(m) \in Int /\ m.life \in Int /\ Skew[m.owner] \in Int
           /\ m.owner \in Clients
           /\ 2 * Age(m) < UIntModulus /\ -UIntModulus < 2 * Age(m)
           /\ 2 * (m.life + Skew[m.owner]) < UIntModulus
           /\ -UIntModulus < 2 * (m.life + Skew[m.owner])
           /\ m.seal.ts \in UInt
  <1>1. /\ m.owner \in Clients
        /\ m.life \in 0 .. (MaxLife - 1)
        /\ m.seal.ts \in UInt
    BY DEF TypeOK, Request, Response
  <1>2. /\ Skew[m.owner] \in Int
        /\ 2 * (MaxLife - 1 + Skew[m.owner]) < UIntModulus
        /\ 2 * (MaxLife - 1 - Skew[m.owner]) < UIntModulus
    BY <1>1
  <1> QED
    BY <1>1, <1>2 DEF Age

\* A client's clock is ahead of the server's by its skew.
LEMMA ClientClockAhead ==
    ASSUME TypeOK, NEW c \in Clients
    PROVE  /\ ClientClock(c) \in UInt
           /\ Ahead(ClientClock(c), now, Skew[c])
  <1>1. /\ Skew[c] \in Int
        /\ 2 * (MaxLife - 1 + Skew[c]) < UIntModulus
        /\ 2 * (MaxLife - 1 - Skew[c]) < UIntModulus
        /\ now \in UInt
    BY DEF TypeOK
  <1> DEFINE x == now + Skew[c]
  <1>2. x \in Int /\ -UIntModulus < x /\ x < 2 * UIntModulus
    BY <1>1 DEF UInt
  <1>2a. ClientClock(c) = x % UIntModulus
    BY DEF ClientClock
  <1>2b. x = now + Skew[c]
    OBVIOUS
  <1> HIDE DEF x
  <1>3. x % UIntModulus \in {x, x + UIntModulus, x - UIntModulus}
    <2>1. CASE x < UIntModulus
      BY <1>2, <2>1, ModSmall
    <2>2. CASE x >= UIntModulus
      BY <1>2, <2>2, ModLarge
    <2> QED
      BY <1>2, <2>1, <2>2
  <1>4. ClientClock(c) \in UInt
    BY <1>2, <1>2a, ModUInt
  <1>5. ClientClock(c) - now \in
            {Skew[c], Skew[c] + UIntModulus, Skew[c] - UIntModulus}
    <2>1. ClientClock(c) \in {x, x + UIntModulus, x - UIntModulus}
      BY <1>3, <1>2a
    <2>2. now \in Int /\ ClientClock(c) \in Int
      BY <1>1, <1>4 DEF UInt
    <2> QED
      BY <1>1, <1>2b, <2>1, <2>2
  <1> QED
    BY <1>4, <1>5 DEF Ahead

LEMMA ClockInit == Init => ClockInv
  BY DEF Init, ClockInv

LEMMA ClockNext ==
    ASSUME TypeOK, ClockInv, [Next]_vars
    PROVE  ClockInv'
  <1>1. ASSUME NEW c \in Clients, Start(c)
        PROVE  ClockInv'
    <2>1. PICK p \in FreePorts(c) :
              \A n \in net' : n \in Aged(c) \/ n = UpdateRequest(c, p)
      BY <1>1, StartedDatagram
    <2>2. now' = now
      BY <1>1 DEF Start
    <2>3. ASSUME NEW n \in Aged(c)
          PROVE  Ahead(now, n.seal.ts, Age(n))
      BY <2>3, AgedDatagram DEF ClockInv, Age, SameDatagram
    <2>4. Ahead(now, ClientClock(c), -Skew[c])
      <3>1. /\ now \in Int /\ Skew[c] \in Int /\ ClientClock(c) \in Int
            /\ Ahead(ClientClock(c), now, Skew[c])
        BY ClientClockAhead DEF TypeOK, UInt
      <3> QED
        BY <3>1 DEF Ahead
    <2>5. ASSUME NEW n, n = UpdateRequest(c, p)
          PROVE  Ahead(now, n.seal.ts, Age(n))
      <3>1. /\ n.kind = "req" /\ n.owner = c /\ n.life = 0
            /\ n.seal.ts = ClientClock(c)
        BY <2>5 DEF UpdateRequest, Pack
      <3>2. Age(n) = -Skew[c]
        BY <3>1, Skew[c] \in Int DEF Age
      <3> QED
        BY <2>4, <3>1, <3>2
    <2> QED
      BY <2>1, <2>2, <2>3, <2>5 DEF ClockInv, Age
  <1>2. ASSUME NEW c \in Clients, StartFails(c)
        PROVE  ClockInv'
    <2>1. now' = now /\ net' = Aged(c)
      BY <1>2 DEF StartFails
    <2>2. ASSUME NEW n \in Aged(c)
          PROVE  Ahead(now, n.seal.ts, Age(n))
      BY <2>2, AgedDatagram DEF ClockInv, Age, SameDatagram
    <2> QED
      BY <2>1, <2>2 DEF ClockInv, Age
  <1>3. ASSUME NEW m \in net,
               \/ HandleUpdate(m) /\ (\E dest \in ReplyTo(m) : TRUE)
               \/ MallocFails(m)
        PROVE  ClockInv'
    <2>1. now' = now
      BY <1>3 DEF HandleUpdate, MallocFails
    <2>2. \A n \in net' : \/ n \in net
                          \/ \E dest, rc : n = Reply(m, dest, rc)
      BY <1>3, HandledDatagram, FailedDatagram
    <2>3. ASSUME NEW n, NEW dest, NEW rc, n = Reply(m, dest, rc)
          PROVE  Ahead(now, n.seal.ts, Age(n))
      <3>1. Age(n) = 0 /\ n.seal.ts = now
        BY <2>3, SentFields DEF Age, Pack
      <3> QED
        BY <3>1 DEF Ahead, TypeOK, UInt
    <2> QED
      BY <2>1, <2>2, <2>3 DEF ClockInv, Age
  <1>4. ASSUME UNCHANGED now, net' \subseteq net
        PROVE  ClockInv'
    BY <1>4 DEF ClockInv, Age
  <1>5. CASE Tick
    <2> SUFFICES ASSUME NEW n \in net'
                 PROVE  Ahead(now', n.seal.ts, Age(n))
      BY DEF ClockInv, Age
    <2>1. PICK m \in net : /\ SameDatagram(n, m)
                           /\ n.life = m.life + 1
                           /\ m.life + 1 < MaxLife
      BY <1>5, TickedDatagram
    <2>2. Age(n) = Age(m) + 1
      BY <2>1, AgeBounds DEF Age, SameDatagram
    <2>3. Ahead(now, m.seal.ts, Age(m))
      BY DEF ClockInv
    <2>4. 2 * (Age(m) + 1) < UIntModulus /\ -UIntModulus < 2 * Age(m)
      <3>1. /\ m.owner \in Clients
            /\ Skew[m.owner] \in Int
            /\ m.life \in Nat
            /\ 2 * (MaxLife - 1 + Skew[m.owner]) < UIntModulus
            /\ 2 * (MaxLife - 1 - Skew[m.owner]) < UIntModulus
        BY DEF TypeOK, Request, Response
      <3> QED
        BY <2>1, <3>1, AgeBounds DEF Age
    <2>5. /\ now \in UInt /\ m.seal.ts \in UInt /\ Age(m) \in Int
          /\ UIntModulus \in Nat
      BY AgeBounds DEF TypeOK
    <2>6. now' = IF now + 1 = UIntModulus THEN 0 ELSE now + 1
      BY <1>5, <2>5, TickWraps DEF Tick
    <2>7. Ahead(now', m.seal.ts, Age(m) + 1)
      BY <2>3, <2>4, <2>5, <2>6 DEF Ahead, UInt
    <2> QED
      BY <2>1, <2>2, <2>7 DEF SameDatagram
  <1>6. ASSUME NEW c \in Clients, NEW m \in net, Receive(c, m)
        PROVE  ClockInv'
    BY <1>4, <1>6, DeliveredKeeps DEF Receive
  <1>7. ASSUME NEW m \in net, RejectUpdate(m)
        PROVE  ClockInv'
    BY <1>4, <1>7, DeliveredKeeps DEF RejectUpdate
  <1>8. ASSUME NEW m \in net, HandleUpdate(m)
        PROVE  ClockInv'
    BY <1>3, <1>8 DEF HandleUpdate
  <1> QED
    BY <1>1, <1>2, <1>3, <1>4, <1>5, <1>6, <1>7, <1>8
       DEF Next, ClientStep, ServerStep, Environment, GiveUp,
           Crash, Restart, Move, vars

\* A request the server takes is within the window, seen from its age.
LEMMA TakenInWindow ==
    ASSUME TypeOK, ClockInv, NEW m \in net, m.kind = "req",
           TRUE \in Unpack(ServerKey, now, m.seal)
    PROVE  m.seal.key = ServerKey /\ WithinWindow(m)
  <1>1. TRUE \in InTime(now, m.seal.ts) /\ m.seal.key = ServerKey
    BY DEF Unpack
  <1>2. InTime(now, m.seal.ts) =
            {(IF Age(m) < 0 THEN -Age(m) ELSE Age(m)) <= TIME_DIFF}
    BY AgeBounds, WindowOfDifference DEF ClockInv, TypeOK
  <1>3. (IF Age(m) < 0 THEN -Age(m) ELSE Age(m)) <= TIME_DIFF
    BY <1>1, <1>2
  <1> QED
    BY <1>1, <1>3, AgeBounds DEF Age, WithinWindow

\* Only a request in the window and under the server's key sets an address.
LEMMA StepInTime ==
    ASSUME TypeOK, ClockInv, [Next]_vars, NEW d \in Domains,
           registry'[d] # registry[d], registry'[d] # NoIp
    PROVE  \E m \in net : /\ m.kind = "req"
                          /\ DomainOf[m.owner] = d
                          /\ registry'[d] = SetTo(m)
                          /\ m.seal.key = ServerKey
                          /\ WithinWindow(m)
  <1>1. ASSUME Crash
        PROVE  FALSE
    BY <1>1 DEF Crash
  <1>2. PICK m \in net : HandleUpdate(m)
    BY <1>1 DEF Next, ClientStep, ServerStep, Environment, Start,
       StartFails, Receive, GiveUp, MallocFails, RejectUpdate, Restart, Move,
       Tick, vars
  <1>3. m.kind = "req" /\ TRUE \in Unpack(ServerKey, now, m.seal)
    BY <1>2 DEF HandleUpdate
  <1>4. DomainOf[m.owner] = d /\ registry'[d] = SetTo(m)
    BY <1>2 DEF HandleUpdate, TypeOK
  <1> QED
    BY <1>3, <1>4, TakenInWindow

\* The server never sets an address on a request that is too old, too far in
\* the future, or sealed with another key.
THEOREM OnlyTimelyRequestsApplied == Spec => AppliedInTime
  <1>1. TypeOK /\ ClockInv /\ [Next]_vars => ClockInv'
    BY ClockNext
  <1>2. TypeOK /\ ClockInv /\ [Next]_vars =>
          [\A d \in Domains : registry'[d] # registry[d] /\ registry'[d] # NoIp
             => \E m \in net : /\ m.kind = "req"
                               /\ DomainOf[m.owner] = d
                               /\ registry'[d] = SetTo(m)
                               /\ m.seal.key = ServerKey
                               /\ WithinWindow(m)]_vars
    BY StepInTime
  <1> QED
    BY <1>1, <1>2, ClockInit, InitType, NextType, PTL DEF Spec, AppliedInTime

-----------------------------------------------------------------------------
(* A run that ends "ok" was served, when runs are far enough apart *)

\* The settled case: every client keeps an address of its own and updates
\* its domain to that address.
Settled ==
    /\ ~Shared
    /\ MaxMoves = 0
    /\ \A c \in Clients : ArgIp[c] = NoIp

\* What names a client names it alone.
AddressInv ==
    /\ \A c, e \in Clients : c # e => addr[c] # addr[e]
    /\ \A m \in net : m.addr = addr[m.owner]

\* An earlier run's request is at least a cron period older than the present
\* run.  A confirmation is under way only for a request that was accepted,
\* so within TIME_DIFF of its client's clock: it is that much younger.
LeadOf(m) ==
    (IF m.old THEN CronPeriod ELSE 0) + since[m.owner]
        - (IF m.kind = "rsp" THEN TIME_DIFF + Skew[m.owner] ELSE 0)

SpacingInv ==
    /\ \A c \in Clients : pc[c] = "ok" => served[c]
    /\ \A m \in net : m.kind = "rsp" /\ m.retcode = 0 /\ ~m.old
                          => served[m.owner]
    /\ \A m \in net : m.kind = "req" \/ m.retcode = 0 => m.life >= LeadOf(m)

LEMMA SpacingInit ==
    ASSUME Settled
    PROVE  Init => AddressInv /\ SpacingInv
  BY DEF Init, AddressInv, SpacingInv, Settled

LEMMA AddressNext ==
    ASSUME Settled, TypeOK, AddressInv, [Next]_vars
    PROVE  AddressInv'
  <1>1. addr' = addr
    <2>1. ASSUME NEW c \in Clients, Move(c)
          PROVE  FALSE
      BY <2>1 DEF Move, TypeOK, Settled
    <2> QED
      BY <2>1 DEF Next, ClientStep, ServerStep, Environment, Start, StartFails,
         Receive, GiveUp, HandleUpdate, MallocFails, RejectUpdate,
         Crash, Restart, Tick, vars
  <1>2. ASSUME NEW c \in Clients, Start(c)
        PROVE  \A n \in net' : n.addr = addr[n.owner]
    <2>1. PICK p \in FreePorts(c) :
              \A n \in net' : n \in Aged(c) \/ n = UpdateRequest(c, p)
      BY <1>2, StartedDatagram
    <2> QED
      BY <2>1, AgedDatagram, SentFields DEF AddressInv, SameDatagram
  <1>3. ASSUME NEW c \in Clients, StartFails(c)
        PROVE  \A n \in net' : n.addr = addr[n.owner]
    BY <1>3, AgedDatagram DEF StartFails, AddressInv, SameDatagram
  <1>4. ASSUME NEW m \in net, HandleUpdate(m) \/ MallocFails(m)
        PROVE  \A n \in net' : n.addr = addr[n.owner]
    <2>1. m.owner \in Clients
      BY DEF TypeOK, Request, Response
    <2>2. SetTo(m) = m.addr /\ ReplyTo(m) = {m.addr}
      BY <2>1 DEF Settled, SetTo, ReplyTo
    <2> QED
      BY <1>4, <2>2, HandledDatagram, FailedDatagram, SentFields DEF AddressInv
  <1>5. ASSUME Tick
        PROVE  \A n \in net' : n.addr = addr[n.owner]
    BY <1>5, TickedDatagram DEF AddressInv, SameDatagram
  <1>6. ASSUME net' \subseteq net
        PROVE  \A n \in net' : n.addr = addr[n.owner]
    BY <1>6 DEF AddressInv
  <1>7. ASSUME NEW c \in Clients, NEW m \in net, Receive(c, m)
        PROVE  net' \subseteq net
    BY <1>7, DeliveredKeeps DEF Receive
  <1>8. ASSUME NEW m \in net, RejectUpdate(m)
        PROVE  net' \subseteq net
    BY <1>8, DeliveredKeeps DEF RejectUpdate
  <1>9. \A n \in net' : n.addr = addr[n.owner]
    BY <1>2, <1>3, <1>4, <1>5, <1>6, <1>7, <1>8
       DEF Next, ClientStep, ServerStep, Environment, GiveUp,
           Crash, Restart, Move, vars
  <1> QED
    BY <1>1, <1>9 DEF AddressInv

LEMMA SpacingNext ==
    ASSUME Settled, CronPeriod > 2 * TIME_DIFF,
           TypeOK, ClockInv, AddressInv, SpacingInv, [Next]_vars
    PROVE  SpacingInv'
  <1>0. /\ \A c \in Clients : since[c] \in 0 .. CronPeriod /\ Skew[c] \in Int
        /\ \A m \in net : /\ m.owner \in Clients
                          /\ m.old \in BOOLEAN
                          /\ m.life \in Nat
                          /\ m.kind \in {"req", "rsp"}
        /\ CronPeriod \in Nat
        /\ TIME_DIFF \in Nat
    <2>1. \A m \in net : /\ m.owner \in Clients
                         /\ m.old \in BOOLEAN
                         /\ m.life \in Nat
                         /\ m.kind \in {"req", "rsp"}
      BY DEF TypeOK, Request, Response
    <2> QED
      BY <2>1 DEF TypeOK
  <1>1. ASSUME NEW c \in Clients, since[c] = CronPeriod,
               since' = [since EXCEPT ![c] = 0],
               served' = [served EXCEPT ![c] = FALSE],
               NEW n \in Aged(c)
        PROVE  /\ n.kind = "req" \/ n.retcode = 0 => n.life >= LeadOf(n)'
               /\ n.kind = "rsp" /\ n.retcode = 0 /\ ~n.old => served'[n.owner]
    <2>1. PICK m \in net : /\ SameDatagram(n, m)
                           /\ n.life = m.life
                           /\ AgedFlag(n, m, c)
      BY AgedDatagram
    <2>2. m.kind = "req" \/ m.retcode = 0 => m.life >= LeadOf(m)
      BY DEF SpacingInv
    <2>3. CASE m.owner = c
      <3>1. n.old = TRUE /\ n.owner = c /\ n.kind = m.kind /\ since'[c] = 0
        BY <1>1, <2>1, <2>3 DEF AgedFlag, SameDatagram, TypeOK
      <3>2. (IF m.old THEN CronPeriod ELSE 0) + since[c] >= CronPeriod
        BY <1>0, <1>1, <2>3
      <3> QED
        BY <1>0, <2>1, <2>2, <2>3, <3>1, <3>2 DEF LeadOf, SameDatagram
    <2>4. CASE m.owner # c
      <3>1. n.old = m.old /\ n.owner = m.owner /\ n.kind = m.kind
        BY <2>1, <2>4 DEF AgedFlag, SameDatagram
      <3>2. since'[m.owner] = since[m.owner] /\ served'[m.owner] = served[m.owner]
        BY <1>0, <1>1, <2>4 DEF TypeOK
      <3> QED
        BY <1>0, <2>1, <2>2, <3>1, <3>2 DEF LeadOf, SameDatagram, SpacingInv
    <2> QED
      BY <2>3, <2>4
  <1>2. ASSUME NEW c \in Clients, Start(c)
        PROVE  SpacingInv'
    <2>1. PICK p \in FreePorts(c) :
              \A n \in net' : n \in Aged(c) \/ n = UpdateRequest(c, p)
      BY <1>2, StartedDatagram
    <2>2. /\ since[c] = CronPeriod
          /\ since' = [since EXCEPT ![c] = 0]
          /\ served' = [served EXCEPT ![c] = FALSE]
          /\ pc' = [pc EXCEPT ![c] = "wait"]
      BY <1>2 DEF Start
    <2>3. ASSUME NEW n, n = UpdateRequest(c, p)
          PROVE  n.kind = "req" /\ n.life >= LeadOf(n)'
      <3>1. n.kind = "req" /\ n.owner = c /\ n.life = 0 /\ n.old = FALSE
        BY <2>3 DEF UpdateRequest
      <3>2. since'[c] = 0
        BY <2>2 DEF TypeOK
      <3> QED
        BY <3>1, <3>2 DEF LeadOf
    <2>4. \A e \in Clients : pc'[e] = "ok" => served'[e]
      BY <2>2 DEF TypeOK, SpacingInv
    <2> QED
      BY <1>1, <2>1, <2>2, <2>3, <2>4 DEF SpacingInv, LeadOf
  <1>3. ASSUME NEW c \in Clients, StartFails(c)
        PROVE  SpacingInv'
    <2>1. /\ since[c] = CronPeriod
          /\ since' = [since EXCEPT ![c] = 0]
          /\ served' = [served EXCEPT ![c] = FALSE]
          /\ pc' = [pc EXCEPT ![c] = "failed"]
          /\ net' = Aged(c)
      BY <1>3 DEF StartFails
    <2>2. \A e \in Clients : pc'[e] = "ok" => served'[e]
      BY <2>1 DEF TypeOK, SpacingInv
    <2> QED
      BY <1>1, <2>1, <2>2 DEF SpacingInv, LeadOf
  <1>4. ASSUME NEW c \in Clients, NEW m \in net, Receive(c, m)
        PROVE  SpacingInv'
    <2>1. net' \subseteq net
      BY <1>4, DeliveredKeeps DEF Receive
    <2>2. CASE pc' = [pc EXCEPT ![c] = "failed"]
      BY <1>4, <2>1, <2>2 DEF Receive, TypeOK, SpacingInv, LeadOf
    <2>3. CASE /\ pc' = [pc EXCEPT ![c] = "ok"]
               /\ m.retcode = 0
               /\ TRUE \in Unpack(KeyOf[c], ClientClock(c), m.seal)
      <3>1. m.owner = c /\ m.kind = "rsp"
        BY <1>0, <1>4 DEF Receive, AddressInv
      <3>2. Ahead(now, m.seal.ts, m.life)
        BY <3>1 DEF ClockInv, Age
      <3>3. /\ ClientClock(c) \in UInt
            /\ Ahead(ClientClock(c), now, Skew[c])
        BY ClientClockAhead
      <3>4. /\ 2 * (m.life + Skew[c]) < UIntModulus
            /\ -UIntModulus < 2 * (m.life + Skew[c])
            /\ m.seal.ts \in UInt /\ m.life + Skew[c] \in Int
            /\ m.life \in Int /\ Skew[c] \in Int
        BY <3>1, AgeBounds
      <3>5. Ahead(ClientClock(c), m.seal.ts, m.life + Skew[c])
        <4>1. now \in UInt /\ UIntModulus \in Nat
          BY DEF TypeOK
        <4> QED
          BY <3>2, <3>3, <3>4, <4>1 DEF Ahead, UInt
      <3>6. m.life + Skew[c] <= TIME_DIFF
        <4>1. TRUE \in InTime(ClientClock(c), m.seal.ts)
          BY <2>3 DEF Unpack
        <4> DEFINE age == m.life + Skew[c]
        <4>2. InTime(ClientClock(c), m.seal.ts) =
                  {(IF age < 0 THEN -age ELSE age) <= TIME_DIFF}
          BY <3>3, <3>4, <3>5, WindowOfDifference
        <4>3. (IF age < 0 THEN -age ELSE age) <= TIME_DIFF
          BY <4>1, <4>2
        <4> QED
          BY <1>0, <3>4, <4>3
      <3>7. ~m.old
        <4>1. m.life >= LeadOf(m)
          BY <2>3 DEF SpacingInv
        <4> QED
          BY <1>0, <3>1, <3>6, <4>1 DEF LeadOf
      <3>8. served[c]
        BY <2>3, <3>1, <3>7 DEF SpacingInv
      <3> QED
        BY <1>4, <2>1, <2>3, <3>8 DEF Receive, TypeOK, SpacingInv, LeadOf
    <2> QED
      BY <1>4, <2>2, <2>3 DEF Receive
  <1>5. ASSUME NEW m \in net, HandleUpdate(m)
        PROVE  SpacingInv'
    <2>1. /\ m.kind = "req"
          /\ TRUE \in Unpack(ServerKey, now, m.seal)
          /\ served' = [served EXCEPT ![m.owner] = @ \/ ~m.old]
          /\ UNCHANGED <<pc, since>>
      BY <1>5 DEF HandleUpdate, clientVars
    <2>2. \A e \in Clients : served[e] => served'[e]
      BY <1>0, <2>1 DEF TypeOK
    <2>3. ~m.old => served'[m.owner]
      BY <1>0, <2>1 DEF TypeOK
    <2>4. WithinWindow(m) /\ m.life >= LeadOf(m)
      BY <2>1, TakenInWindow DEF SpacingInv
    <2>5. ASSUME NEW n, NEW dest, n = Reply(m, dest, 0)
          PROVE  /\ n.life >= LeadOf(n)
                 /\ n.owner = m.owner /\ n.old = m.old
      <3>1. /\ n.kind = "rsp" /\ n.owner = m.owner /\ n.life = 0
            /\ n.old = m.old
        BY <2>5 DEF Reply
      <3> QED
        BY <1>0, <2>1, <2>4, <3>1 DEF LeadOf, WithinWindow
    <2>6. \A n \in net' :
              \/ n \in net
              \/ n.life >= LeadOf(n) /\ n.owner = m.owner /\ n.old = m.old
      BY <1>5, <2>5, HandledDatagram
    <2>7. \A n : LeadOf(n)' = LeadOf(n)
      BY <2>1 DEF LeadOf
    <2> QED
      BY <1>0, <2>1, <2>2, <2>3, <2>6, <2>7 DEF SpacingInv
  <1>6. ASSUME NEW m \in net, MallocFails(m)
        PROVE  SpacingInv'
    <2>1. UNCHANGED <<pc, since, served>>
      BY <1>6 DEF MallocFails, clientVars
    <2>2. \A n \in net' : n \in net \/ (n.kind = "rsp" /\ n.retcode = 1)
      BY <1>6, FailedDatagram, SentFields
    <2> QED
      BY <2>1, <2>2 DEF SpacingInv, LeadOf
  <1>7. CASE Tick
    <2>1. /\ UNCHANGED <<pc, served>>
          /\ \A c \in Clients : since'[c] <= since[c] + 1 /\ since'[c] \in Int
      BY <1>0, <1>7 DEF Tick
    <2>2. ASSUME NEW n \in net'
          PROVE  /\ n.kind = "req" \/ n.retcode = 0 => n.life >= LeadOf(n)'
                 /\ n.kind = "rsp" /\ n.retcode = 0 /\ ~n.old => served'[n.owner]
      <3>1. PICK m \in net : /\ SameDatagram(n, m)
                             /\ n.life = m.life + 1
                             /\ n.old = m.old
        BY <1>7, TickedDatagram
      <3>2. m.kind = "req" \/ m.retcode = 0 => m.life >= LeadOf(m)
        BY DEF SpacingInv
      <3>3. m.kind = "rsp" /\ m.retcode = 0 /\ ~m.old => served[m.owner]
        BY DEF SpacingInv
      <3>4. /\ n.kind = m.kind /\ n.owner = m.owner
            /\ n.kind = "rsp" => n.retcode = m.retcode
        BY <3>1 DEF SameDatagram
      <3>5. n.kind = "req" \/ n.retcode = 0 => m.life >= LeadOf(m)
        BY <1>0, <3>2, <3>4
      <3>6. n.kind = "req" \/ n.retcode = 0 => n.life >= LeadOf(n)'
        BY <1>0, <2>1, <3>1, <3>4, <3>5 DEF LeadOf
      <3> QED
        BY <2>1, <3>1, <3>3, <3>4, <3>6
    <2> QED
      BY <2>1, <2>2 DEF SpacingInv
  <1>8. ASSUME net' \subseteq net, UNCHANGED <<pc, since, served>>
        PROVE  SpacingInv'
    BY <1>8 DEF SpacingInv, LeadOf
  <1>9. ASSUME NEW m \in net, RejectUpdate(m)
        PROVE  SpacingInv'
    BY <1>8, <1>9, DeliveredKeeps DEF RejectUpdate, clientVars
  <1>10. ASSUME NEW c \in Clients, GiveUp(c)
         PROVE  SpacingInv'
    BY <1>10 DEF GiveUp, SpacingInv, LeadOf, TypeOK
  <1>11. ASSUME \/ Crash
                \/ Restart
                \/ \E c \in Clients : Move(c)
                \/ UNCHANGED vars
         PROVE  SpacingInv'
    BY <1>8, <1>11 DEF Crash, Restart, Move, vars, clientVars
  <1> QED
    BY <1>2, <1>3, <1>4, <1>5, <1>6, <1>7, <1>9, <1>10, <1>11
       DEF Next, ClientStep, ServerStep, Environment

\* Ports may be given again at once, and answers name no run: it is enough
\* that a client's runs start more than twice TIME_DIFF apart (cron: 60 s to
\* 20 s) for an answer to an earlier run to be rejected for its age.
THEOREM ConfirmedWhenSpaced ==
    ASSUME Settled, CronPeriod > 2 * TIME_DIFF
    PROVE  Spec => []ConfirmedIsApplied
  <1>1. TypeOK /\ ClockInv /\ [Next]_vars => ClockInv'
    BY ClockNext
  <1>2. TypeOK /\ AddressInv /\ [Next]_vars => AddressInv'
    BY AddressNext
  <1>3. TypeOK /\ ClockInv /\ AddressInv /\ SpacingInv /\ [Next]_vars
            => SpacingInv'
    BY SpacingNext
  <1>4. SpacingInv => ConfirmedIsApplied
    BY DEF SpacingInv, ConfirmedIsApplied
  <1>5. Init => AddressInv /\ SpacingInv
    BY SpacingInit
  <1> QED
    BY <1>1, <1>2, <1>3, <1>4, <1>5, ClockInit, InitType, NextType, PTL
       DEF Spec

-----------------------------------------------------------------------------
(* The protocol implements the abstract service *)

\* A request is sealed with its client's key.
KeyInv == \A m \in net : m.kind = "req" => m.seal.key = KeyOf[m.owner]

LEMMA KeyInit == Init => KeyInv
  BY DEF Init, KeyInv

LEMMA KeyNext ==
    ASSUME TypeOK, KeyInv, [Next]_vars
    PROVE  KeyInv'
  <1>1. ASSUME NEW c \in Clients, Start(c)
        PROVE  KeyInv'
    <2>1. PICK p \in FreePorts(c) :
              \A n \in net' : n \in Aged(c) \/ n = UpdateRequest(c, p)
      BY <1>1, StartedDatagram
    <2>2. UpdateRequest(c, p).seal.key = KeyOf[UpdateRequest(c, p).owner]
      BY DEF UpdateRequest, Pack
    <2> QED
      BY <2>1, <2>2, AgedDatagram DEF KeyInv, SameDatagram
  <1>2. ASSUME NEW c \in Clients, StartFails(c)
        PROVE  KeyInv'
    BY <1>2, AgedDatagram DEF StartFails, KeyInv, SameDatagram
  <1>3. ASSUME NEW m \in net, HandleUpdate(m) \/ MallocFails(m)
        PROVE  KeyInv'
    BY <1>3, HandledDatagram, FailedDatagram, SentFields DEF KeyInv
  <1>4. ASSUME Tick
        PROVE  KeyInv'
    BY <1>4, TickedDatagram DEF KeyInv, SameDatagram
  <1>5. ASSUME net' \subseteq net
        PROVE  KeyInv'
    BY <1>5 DEF KeyInv
  <1>6. ASSUME NEW c \in Clients, NEW m \in net, Receive(c, m)
        PROVE  KeyInv'
    BY <1>5, <1>6, DeliveredKeeps DEF Receive
  <1>7. ASSUME NEW m \in net, RejectUpdate(m)
        PROVE  KeyInv'
    BY <1>5, <1>7, DeliveredKeeps DEF RejectUpdate
  <1> QED
    BY <1>1, <1>2, <1>3, <1>4, <1>5, <1>6, <1>7
       DEF Next, ClientStep, ServerStep, Environment, GiveUp,
           Crash, Restart, Move, vars

LEMMA ServiceInit == Init => Service!SInit
  BY DEF Init, Service!SInit

LEMMA ServiceStep ==
    ASSUME TypeOK, PortInv, KeyInv, [Next]_vars
    PROVE  [Service!SNext]_(Service!svars)
  <1> USE DEF Service!svars
  <1>1. ASSUME NEW c \in Clients, Start(c)
        PROVE  Service!SBegin(c)
    BY <1>1 DEF Start, Service!SBegin
  <1>2. ASSUME NEW c \in Clients, StartFails(c)
        PROVE  Service!SRefuse(c)
    BY <1>2 DEF StartFails, Service!SRefuse
  <1>3. ASSUME NEW c \in Clients, NEW m \in net, Receive(c, m)
        PROVE  Service!SConfirm(c) \/ Service!SFail(c)
    <2>1. \/ pc' = [pc EXCEPT ![c] = "failed"]
          \/ pc' = [pc EXCEPT ![c] = "ok"] /\ m.retcode = 0
      BY <1>3 DEF Receive
    <2>2. m.retcode = 0 => served[c]
      BY <1>3 DEF Receive, PortInv
    <2> QED
      BY <1>3, <2>1, <2>2 DEF Receive, Service!SConfirm, Service!SFail
  <1>4. ASSUME NEW c \in Clients, GiveUp(c)
        PROVE  Service!SFail(c)
    BY <1>4 DEF GiveUp, Service!SFail
  <1>5. ASSUME NEW m \in net, HandleUpdate(m)
        PROVE  m.owner \in Clients /\ Service!SApply(m.owner)
    <2>1. /\ m \in Request
          /\ m.kind = "req"
          /\ TRUE \in Unpack(ServerKey, now, m.seal)
      BY <1>5 DEF HandleUpdate, TypeOK, Request, Response
    <2>2. SetTo(m) \in Ips /\ m.owner \in Clients
      BY <2>1, SetToType
    <2>3. m.owner \in Trusted
      BY <2>1, <2>2 DEF KeyInv, Trusted, Unpack
    <2>4. served' \in {served, [served EXCEPT ![m.owner] = TRUE]}
      <3>1. CASE m.old = TRUE
        BY <1>5, <2>2, <3>1 DEF HandleUpdate, TypeOK
      <3>2. CASE m.old = FALSE
        BY <1>5, <2>2, <3>2 DEF HandleUpdate, TypeOK
      <3> QED
        BY <2>1, <3>1, <3>2 DEF Request
    <2> QED
      BY <1>5, <2>2, <2>3, <2>4 DEF HandleUpdate, Service!SApply, clientVars
  <1>6. ASSUME NEW m \in net, MallocFails(m) \/ RejectUpdate(m)
        PROVE  UNCHANGED <<registry, pc, served>>
    BY <1>6 DEF MallocFails, RejectUpdate, clientVars
  <1>7. ASSUME Crash
        PROVE  Service!SWipe
    BY <1>7 DEF Crash, Service!SWipe, clientVars
  <1>8. ASSUME \/ Restart
               \/ \E c \in Clients : Move(c)
               \/ Tick
               \/ UNCHANGED vars
        PROVE  UNCHANGED <<registry, pc, served>>
    BY <1>8 DEF Restart, Move, Tick, vars, clientVars
  <1> QED
    BY <1>1, <1>2, <1>3, <1>4, <1>5, <1>6, <1>7, <1>8
       DEF Next, ClientStep, ServerStep, Environment, Service!SNext

\* Datagrams, clocks, sockets and crashes left out, what the two programs do
\* to the table and what they tell the user is what the service promises.
THEOREM ProtocolImplementsService ==
    ASSUME ~PortReuse
    PROVE  Spec => ImplementsService
  <1>1. TypeOK /\ PortInv /\ [Next]_vars => PortInv'
    BY PortNext
  <1>2. TypeOK /\ KeyInv /\ [Next]_vars => KeyInv'
    BY KeyNext
  <1>3. TypeOK /\ PortInv /\ KeyInv /\ [Next]_vars
            => [Service!SNext]_(Service!svars)
    BY ServiceStep
  <1> QED
    BY <1>1, <1>2, <1>3, KeyInit, ServiceInit, PortInit, InitType, NextType, PTL
       DEF Spec, ImplementsService, Service!SSpec
=============================================================================
