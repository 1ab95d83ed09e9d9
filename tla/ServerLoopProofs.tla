-------------------------- MODULE ServerLoopProofs --------------------------
(***************************************************************************)
(* How much dns_srv still does once it has been told to stop.              *)
(***************************************************************************)
EXTENDS ServerLoop, TLAPS

\* What has been taken since run was cleared depends on how far the round
\* has come; the test of run keeps another round from starting.
LateInv ==
    /\ late \in Nat
    /\ run => late = 0
    /\ pc \notin Serving \cup Ended \cup {"stop_log"} => late = 0
    /\ pc \in {"poll", "dns"} => late = 0
    /\ pc \in {"dns_log", "cmd"} => late <= 1
    /\ late <= 2

LEMMA LateInit == Init => LateInv
  BY DEF Init, LateInv

LEMMA LateNext == LateInv /\ [Next]_vars => LateInv'
  <1> SUFFICES ASSUME LateInv, [Next]_vars
               PROVE  LateInv'
    OBVIOUS
  <1> USE DEF LateInv, Serving, Ended, MainAt, signalled, sockets
  <1>1. ASSUME BindDns \/ BindCmd \/ SwitchUser \/ InstallHandler
        PROVE  LateInv'
    BY <1>1 DEF BindDns, BindCmd, SwitchUser, InstallHandler
  <1>2. ASSUME LogDone \/ HeapDone
        PROVE  LateInv'
    BY <1>2 DEF LogDone, HeapDone
  <1>3. ASSUME LoopTest
        PROVE  LateInv'
    BY <1>3 DEF LoopTest
  <1>4. ASSUME PollReady \/ PollTimeout
        PROVE  LateInv'
    BY <1>4 DEF PollReady, PollTimeout
  <1>5. ASSUME ServeDns
        PROVE  LateInv'
    BY <1>5 DEF ServeDns, Taken
  <1>6. ASSUME ServeCmd
        PROVE  LateInv'
    BY <1>6 DEF ServeCmd, Taken
  <1>7. ASSUME NEW s \in Signals, Deliver(s)
        PROVE  LateInv'
    BY <1>7 DEF Deliver
  <1>10. ASSUME LibraryFails
         PROVE  LateInv'
    BY <1>10 DEF LibraryFails
  <1>8. ASSUME HandlerLogged \/ HandlerDone
        PROVE  LateInv'
    BY <1>8 DEF HandlerLogged, HandlerDone
  <1>9. ASSUME ArriveDns \/ ArriveCmd \/ UNCHANGED vars
        PROVE  LateInv'
    BY <1>9 DEF ArriveDns, ArriveCmd, vars
  <1> QED
    BY <1>1, <1>2, <1>3, <1>4, <1>5, <1>6, <1>7, <1>8, <1>9, <1>10
       DEF Next, MainStep, HandlerStep

-----------------------------------------------------------------------------
\* What poll has reported is still there when the loop comes to it: main alone
\* takes datagrams.
Reported ==
    /\ pc = "dns" /\ revents.dns => dnsQ > 0
    /\ pc \in {"dns", "dns_log", "cmd"} /\ revents.cmd => cmdQ > 0

LoopInv == TypeOK /\ Reported

Frame == [sig : Handled, at : {"log", "set"}]

LEMMA Stacks ==
    ASSUME NEW S, NEW s \in Seq(S)
    PROVE  /\ \A e \in S : Append(s, e) \in Seq(S)
           /\ s # <<>> => /\ Len(s) \in DOMAIN s
                          /\ s[Len(s)] \in S
                          /\ SubSeq(s, 1, Len(s) - 1) \in Seq(S)
                          /\ \A e \in S : [s EXCEPT ![Len(s)] = e] \in Seq(S)
  OBVIOUS

LEMMA LoopInit == Init => LoopInv
  <1> SUFFICES ASSUME Init
               PROVE  LoopInv
    OBVIOUS
  <1>1. revents \in [dns : BOOLEAN, cmd : BOOLEAN]
    BY DEF Init, Quiet
  <1>2. handlers \in Seq([sig : Handled, at : {"log", "set"}])
    BY DEF Init
  <1>3. /\ dnsFd \in BOOLEAN /\ cmdFd \in BOOLEAN /\ run \in BOOLEAN
        /\ broken \in BOOLEAN
    BY DEF Init
  <1>4. /\ dnsQ \in 0 .. QueueCap /\ cmdQ \in 0 .. QueueCap
        /\ sent \in 0 .. MaxSignals /\ late \in Nat
    BY LoopAssumption DEF Init
  <1> QED
    BY <1>1, <1>2, <1>3, <1>4 DEF Init, LoopInv, TypeOK, Reported, Starting

LEMMA LoopNext == LoopInv /\ [Next]_vars => LoopInv'
  <1> SUFFICES ASSUME LoopInv, [Next]_vars
               PROVE  LoopInv'
    OBVIOUS
  <1> USE LoopAssumption
      DEF LoopInv, TypeOK, Reported, Starting, Serving, Ended, Quiet,
          MainAt, signalled, sockets
  <1>1. ASSUME BindDns \/ BindCmd
        PROVE  LoopInv'
    BY <1>1 DEF BindDns, BindCmd, udp_listen
  <1>2. ASSUME SwitchUser \/ InstallHandler
        PROVE  LoopInv'
    BY <1>2 DEF SwitchUser, InstallHandler
  <1>3. ASSUME LogDone \/ HeapDone
        PROVE  LoopInv'
    BY <1>3 DEF LogDone, HeapDone
  <1>4. ASSUME LoopTest
        PROVE  LoopInv'
    <2>1. Quiet \in [dns : BOOLEAN, cmd : BOOLEAN]
      OBVIOUS
    <2>2. revents' \in [dns : BOOLEAN, cmd : BOOLEAN]
      BY <1>4, <2>1 DEF LoopTest
    <2>3. /\ pc' \in {"poll", "stop_log"}
          /\ UNCHANGED <<sockets, signalled, late>>
      BY <1>4 DEF LoopTest
    <2> QED
      BY <2>2, <2>3
  <1>12. ASSUME PollTimeout
         PROVE  LoopInv'
    BY <1>12 DEF PollTimeout
  <1>11. ASSUME PollReady
         PROVE  LoopInv'
    <2>1. /\ pc' = "dns"
          /\ revents' = [dns |-> dnsFd /\ dnsQ > 0, cmd |-> cmdFd /\ cmdQ > 0]
          /\ UNCHANGED <<sockets, signalled, late>>
      BY <1>11 DEF PollReady, Readable
    <2>2. revents' \in [dns : BOOLEAN, cmd : BOOLEAN]
      BY <2>1, Zenon
    <2>3. (revents'.dns => dnsQ > 0) /\ (revents'.cmd => cmdQ > 0)
      BY <2>1, Zenon
    <2> QED
      BY <2>1, <2>2, <2>3
  <1>5. ASSUME ServeDns
        PROVE  LoopInv'
    BY <1>5 DEF ServeDns, Taken
  <1>6. ASSUME ServeCmd
        PROVE  LoopInv'
    BY <1>6 DEF ServeCmd, Taken
  <1>7. ASSUME NEW s \in Signals, Deliver(s)
        PROVE  LoopInv'
    <2>1. handlers \in Seq(Frame)
      BY DEF Frame
    <2>2. s \in installed => [sig |-> s, at |-> "log"] \in Frame
      BY DEF Frame
    <2>3. \/ s \in installed /\ handlers' = Append(handlers, [sig |-> s, at |-> "log"])
          \/ handlers' = handlers
      BY <1>7 DEF Deliver
    <2>7. broken' \in BOOLEAN
      BY <1>7, Zenon DEF Deliver, InLibrary
    <2>4. handlers' \in Seq(Frame)
      BY <2>1, <2>2, <2>3, Stacks
    <2>5. handlers' \in Seq([sig : Handled, at : {"log", "set"}])
      BY <2>4 DEF Frame
    <2>6. /\ sent' \in 0 .. MaxSignals
          /\ pc' = pc \/ pc' \in Ended \cup {"loop"}
          /\ UNCHANGED <<sockets, installed, run, revents, late>>
      BY <1>7 DEF Deliver
    <2> QED
      BY <2>5, <2>6, <2>7
  <1>13. ASSUME LibraryFails
         PROVE  LoopInv'
    BY <1>13 DEF LibraryFails
  <1>8. ASSUME HandlerLogged
        PROVE  LoopInv'
    <2>1. handlers \in Seq(Frame) /\ handlers # <<>>
      BY <1>8 DEF HandlerLogged, Frame
    <2>2. handlers' = [handlers EXCEPT ![Len(handlers)] =
                          [handlers[Len(handlers)] EXCEPT !.at = "set"]]
      BY <1>8 DEF HandlerLogged
    <2>3. [handlers[Len(handlers)] EXCEPT !.at = "set"] \in Frame
      <3>1. handlers[Len(handlers)] \in Frame
        BY <2>1, Stacks
      <3> QED
        BY <3>1 DEF Frame
    <2>4. handlers' \in Seq(Frame)
      BY <2>1, <2>2, <2>3, Stacks
    <2>5. handlers' \in Seq([sig : Handled, at : {"log", "set"}])
      BY <2>4 DEF Frame
    <2> QED
      BY <1>8, <2>5 DEF HandlerLogged
  <1>9. ASSUME HandlerDone
        PROVE  LoopInv'
    <2>1. handlers \in Seq(Frame) /\ handlers # <<>>
      BY <1>9 DEF HandlerDone, Frame
    <2>2. handlers' \in Seq(Frame)
      BY <1>9, <2>1, Stacks DEF HandlerDone
    <2>3. handlers' \in Seq([sig : Handled, at : {"log", "set"}])
      BY <2>2 DEF Frame
    <2> QED
      BY <1>9, <2>3 DEF HandlerDone
  <1>10. ASSUME ArriveDns \/ ArriveCmd \/ UNCHANGED vars
         PROVE  LoopInv'
    BY <1>10 DEF ArriveDns, ArriveCmd, vars
  <1> QED
    BY <1>1, <1>2, <1>3, <1>4, <1>5, <1>6, <1>7, <1>8, <1>9, <1>10, <1>11, <1>12,
     <1>13
       DEF Next, MainStep, HandlerStep

\* The server keeps its state in its types, however signals and datagrams are
\* interleaved with it: it takes from a socket only what is there, and the
\* handlers on the stack are of signals it has installed sigproc for.
THEOREM LoopTypeCorrect == Spec => []TypeOK
  <1>1. LoopInv => TypeOK
    BY DEF LoopInv
  <1> QED
    BY <1>1, LoopInit, LoopNext, PTL DEF Spec

\* However long the queues and whenever a signal comes, the server takes at
\* most one more datagram from each socket.
THEOREM StopIsBounded == Spec => []BoundedWorkAfterStop
  <1>1. LateInv => BoundedWorkAfterStop
    BY DEF LateInv, BoundedWorkAfterStop
  <1> QED
    BY <1>1, LateInit, LateNext, PTL DEF Spec
=============================================================================
