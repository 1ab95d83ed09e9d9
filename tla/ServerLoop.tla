----------------------------- MODULE ServerLoop -----------------------------
(***************************************************************************)
(* The main program of dns_srv (src/dns.c, main and sigproc): it binds two *)
(* sockets, gives up root, installs its signal handlers, and serves both   *)
(* sockets from one poll loop until a handler clears run.                  *)
(*                                                                         *)
(* A handler runs on top of whatever main is doing and calls write_log,    *)
(* which opens a file, and so locks and changes what the C library keeps:  *)
(* its heap, its files, its time zone.  When main, or another handler, is  *)
(* in the middle of the same (logging, or making and freeing the items of  *)
(* a request), what happens is undefined: the handler may wait for a lock  *)
(* its own thread holds, and the heap may be left in pieces.               *)
(***************************************************************************)
EXTENDS Naturals, Sequences

CONSTANTS
    Signals,     \* the signals that are sent; a handler blocks its own
    Handled,     \* those main installs sigproc for: SIGINT and SIGTERM
    QueueCap,    \* datagrams the kernel keeps for a socket before it drops
    MaxSignals   \* bound: signals sent

ASSUME LoopAssumption ==
    /\ Handled \subseteq Signals
    /\ QueueCap \in Nat \ {0}
    /\ MaxSignals \in Nat

VARIABLES
    pc,          \* where main is
    dnsFd,       \* TRUE when dns_fd is a socket
    cmdFd,       \* TRUE when cmd_fd is a socket, FALSE when it is -1
    installed,   \* signals sigproc is installed for
    run,         \* the flag the loop tests
    revents,     \* what the latest poll reported for the two sockets
    dnsQ, cmdQ,  \* datagrams waiting in the kernel
    handlers,    \* stack of running handlers, the top one last
    broken,      \* a handler has come into the library on top of another call
    sent,        \* number of signals sent
    late         \* ghost: datagrams taken since run was cleared

vars == <<pc, dnsFd, cmdFd, installed, run, revents, dnsQ, cmdQ, handlers,
          broken, sent, late>>

Quiet == [dns |-> FALSE, cmd |-> FALSE]

Starting == {"bind_dns", "bind_cmd", "user", "signal", "start_log"}
Serving  == {"loop", "poll", "dns", "dns_log", "cmd", "reject_log", "parse",
             "malloc", "cmd_log", "delete"}
Ended    == {"exited", "failed", "killed", "hung", "crashed"}

\* Where main is in the library, logging or at the heap.
Library == {"start_log", "dns_log", "reject_log", "parse", "malloc", "cmd_log",
            "delete", "stop_log"}

TypeOK ==
    /\ pc \in Starting \cup Serving \cup Ended \cup {"stop_log"}
    /\ dnsFd \in BOOLEAN
    /\ cmdFd \in BOOLEAN
    /\ installed \subseteq Handled
    /\ run \in BOOLEAN
    /\ revents \in [dns : BOOLEAN, cmd : BOOLEAN]
    /\ dnsQ \in 0 .. QueueCap
    /\ cmdQ \in 0 .. QueueCap
    /\ handlers \in Seq([sig : Handled, at : {"log", "set"}])
    /\ broken \in BOOLEAN
    /\ sent \in 0 .. MaxSignals
    /\ late \in Nat

Init ==
    /\ pc = "bind_dns"
    /\ dnsFd = FALSE
    /\ cmdFd = FALSE
    /\ installed = {}
    /\ run = TRUE
    /\ revents = Quiet
    /\ dnsQ = 0
    /\ cmdQ = 0
    /\ handlers = <<>>
    /\ broken = FALSE
    /\ sent = 0
    /\ late = 0

\* main runs only when no handler does.
MainAt(p) == pc = p /\ handlers = <<>>

sockets == <<dnsFd, cmdFd, dnsQ, cmdQ>>
signalled == <<installed, run, handlers, broken, sent>>

-----------------------------------------------------------------------------
(* Start *)

\* A socket, or -1 when socket() or bind() fails.
udp_listen == BOOLEAN

BindDns ==
    /\ MainAt("bind_dns")
    /\ dnsFd' \in udp_listen
    /\ pc' = IF dnsFd' THEN "bind_cmd" ELSE "failed"
    /\ UNCHANGED <<cmdFd, dnsQ, cmdQ, signalled, revents, late>>

\* The result of the second bind is in cmd_fd, but it is dns_fd, which is a
\* socket by now, that is compared with -1.
CmdBindFails == dnsFd = FALSE

BindCmd ==
    /\ MainAt("bind_cmd")
    /\ cmdFd' \in udp_listen
    /\ pc' = IF CmdBindFails THEN "failed" ELSE "user"
    /\ UNCHANGED <<dnsFd, dnsQ, cmdQ, signalled, revents, late>>

\* change_process_user, when a user is given.
SwitchUser ==
    /\ MainAt("user")
    /\ pc' \in {"signal", "failed"}
    /\ UNCHANGED <<sockets, signalled, revents, late>>

InstallHandler ==
    /\ MainAt("signal")
    /\ \E s \in Handled \ installed :
          /\ installed' = installed \cup {s}
          /\ pc' = IF installed' = Handled THEN "start_log" ELSE "signal"
    /\ UNCHANGED <<sockets, run, handlers, broken, sent, revents, late>>

-----------------------------------------------------------------------------
(* The loop *)

\* write_log returns.
LogDone ==
    /\ handlers = <<>>
    /\ \/ pc = "start_log" /\ pc' = "loop"
       \/ pc = "dns_log" /\ pc' = "cmd"
       \/ pc = "reject_log" /\ pc' = "loop"
       \/ pc = "cmd_log" /\ pc' = "delete"
       \/ pc = "stop_log" /\ pc' = "exited"
    /\ UNCHANGED <<sockets, signalled, revents, late>>

\* proc_cmd is back from the heap: the text is no json; it lacks something or
\* its domain is known, and that is logged; or the domain is new, a node is
\* made, and that is logged.  Then the items are freed, and the answer sent.
HeapDone ==
    /\ handlers = <<>>
    /\ \/ pc = "parse" /\ pc' \in {"reject_log", "cmd_log", "malloc"}
       \/ pc = "malloc" /\ pc' = "cmd_log"
       \/ pc = "delete" /\ pc' = "loop"
    /\ UNCHANGED <<sockets, signalled, revents, late>>

\* The sockets with something to read.
Readable == [dns |-> dnsFd /\ dnsQ > 0, cmd |-> cmdFd /\ cmdQ > 0]

\* Variant: the loop goes on while there is something to read.
LoopTest_DrainsFirst ==
    /\ MainAt("loop")
    /\ pc' = IF run \/ Readable # Quiet THEN "poll" ELSE "stop_log"
    /\ revents' = Quiet
    /\ UNCHANGED <<sockets, signalled, late>>

\* while( run ): clear revents and poll, or write the last log and return.
LoopTest ==
    /\ MainAt("loop")
    /\ pc' = IF run THEN "poll" ELSE "stop_log"
    /\ revents' = Quiet
    /\ UNCHANGED <<sockets, signalled, late>>

\* poll ignores an entry whose fd is -1.
PollReady ==
    /\ MainAt("poll")
    /\ Readable # Quiet
    /\ revents' = Readable
    /\ pc' = "dns"
    /\ UNCHANGED <<sockets, signalled, late>>

\* Variant: poll is given no timeout.
PollTimeout_Never ==
    /\ MainAt("poll")
    /\ Readable = Quiet
    /\ UNCHANGED vars

\* poll returns 0 after a second with nothing to read.
PollTimeout ==
    /\ MainAt("poll")
    /\ Readable = Quiet
    /\ pc' = "loop"
    /\ UNCHANGED <<sockets, signalled, revents, late>>

Taken == IF run THEN late ELSE late + 1

\* Variant: the wrong entry's revents are tested.
ServeDns_WrongEntry ==
    /\ MainAt("dns")
    /\ IF revents.cmd
         THEN /\ dnsQ' = dnsQ - 1
              /\ late' = Taken
              /\ pc' \in {"dns_log", "cmd"}
         ELSE pc' = "cmd" /\ UNCHANGED <<dnsQ, late>>
    /\ UNCHANGED <<dnsFd, cmdFd, cmdQ, signalled, revents>>

\* An empty datagram has rc = 0 and is not handled; any other is, in full.
ServeDns ==
    /\ MainAt("dns")
    /\ IF revents.dns
         THEN /\ dnsQ' = dnsQ - 1
              /\ late' = Taken
              /\ pc' \in {"dns_log", "cmd"}
         ELSE pc' = "cmd" /\ UNCHANGED <<dnsQ, late>>
    /\ UNCHANGED <<dnsFd, cmdFd, cmdQ, signalled, revents>>

\* Variant: the command socket is served in an else branch of the other.
ServeCmd_ElseIf ==
    /\ MainAt("cmd")
    /\ IF revents.cmd /\ ~revents.dns
         THEN /\ cmdQ' = cmdQ - 1
              /\ late' = Taken
              /\ pc' \in {"reject_log", "parse", "loop"}
         ELSE pc' = "loop" /\ UNCHANGED <<cmdQ, late>>
    /\ UNCHANGED <<dnsFd, cmdFd, dnsQ, signalled, revents>>

\* Any other is handed to proc_cmd, which refuses it or begins to parse.
ServeCmd ==
    /\ MainAt("cmd")
    /\ IF revents.cmd
         THEN /\ cmdQ' = cmdQ - 1
              /\ late' = Taken
              /\ pc' \in {"reject_log", "parse", "loop"}
         ELSE pc' = "loop" /\ UNCHANGED <<cmdQ, late>>
    /\ UNCHANGED <<dnsFd, cmdFd, dnsQ, signalled, revents>>

MainStep ==
    \/ BindDns \/ BindCmd \/ SwitchUser \/ InstallHandler
    \/ LogDone \/ HeapDone \/ LoopTest \/ PollReady \/ PollTimeout \/ ServeDns \/ ServeCmd

-----------------------------------------------------------------------------
(* Signals *)

\* Main or a handler has called the library, and the call has not returned.
InLibrary == \/ pc \in Library
             \/ \E i \in DOMAIN handlers : handlers[i].at = "log"

\* What runs now is such a call.
Calling == IF handlers = <<>> THEN pc \in Library
                              ELSE handlers[Len(handlers)].at = "log"

\* sigproc starts on top of main, or of the handler of another signal, and
\* calls write_log.  poll, if main is in it, returns -1; if main is only
\* about to call it, it will wait all the same.  In a call of the library the
\* signal may come at a place that does no harm, or at another.
Deliver(s) ==
    /\ pc \notin Ended
    /\ sent < MaxSignals
    /\ sent' = sent + 1
    /\ IF s \in installed
         THEN /\ \A i \in DOMAIN handlers : handlers[i].sig # s
              /\ handlers' = Append(handlers, [sig |-> s, at |-> "log"])
              /\ pc' \in {pc, IF pc = "poll" THEN "loop" ELSE pc}
              /\ broken' \in {broken, broken \/ InLibrary}
         ELSE pc' = "killed" /\ UNCHANGED <<handlers, broken>>
    /\ UNCHANGED <<sockets, installed, run, revents, late>>

\* A call of the library waits for ever, or finds the heap in pieces.
LibraryFails ==
    /\ pc \notin Ended
    /\ broken
    /\ Calling
    /\ pc' \in {"hung", "crashed"}
    /\ UNCHANGED <<sockets, signalled, revents, late>>

\* The top handler's write_log returns.
HandlerLogged ==
    /\ pc \notin Ended
    /\ handlers # <<>>
    /\ handlers[Len(handlers)].at = "log"
    /\ handlers' = [handlers EXCEPT ![Len(handlers)].at = "set"]
    /\ UNCHANGED <<pc, sockets, installed, run, broken, sent, revents, late>>

\* run = 0, and the handler returns.
HandlerDone ==
    /\ pc \notin Ended
    /\ handlers # <<>>
    /\ handlers[Len(handlers)].at = "set"
    /\ run' = FALSE
    /\ handlers' = SubSeq(handlers, 1, Len(handlers) - 1)
    /\ UNCHANGED <<pc, sockets, installed, broken, sent, revents, late>>

HandlerStep == HandlerLogged \/ HandlerDone

-----------------------------------------------------------------------------
(* The kernel *)

\* A datagram arrives; it is dropped when the socket's buffer is full.
ArriveDns ==
    /\ pc \notin Ended /\ dnsFd /\ dnsQ < QueueCap
    /\ dnsQ' = dnsQ + 1
    /\ UNCHANGED <<pc, dnsFd, cmdFd, cmdQ, signalled, revents, late>>

ArriveCmd ==
    /\ pc \notin Ended /\ cmdFd /\ cmdQ < QueueCap
    /\ cmdQ' = cmdQ + 1
    /\ UNCHANGED <<pc, dnsFd, cmdFd, dnsQ, signalled, revents, late>>

Next ==
    \/ MainStep
    \/ HandlerStep
    \/ \E s \in Signals : Deliver(s)
    \/ LibraryFails
    \/ ArriveDns
    \/ ArriveCmd

Spec == Init /\ [][Next]_vars

\* The process is scheduled: poll returns within its second.
Fairness == WF_vars(MainStep) /\ WF_vars(HandlerStep)

FairSpec == Spec /\ Fairness

-----------------------------------------------------------------------------
(* Properties *)

\* Once run is cleared, at most the round under way is finished: a flood of
\* datagrams on either socket cannot keep the server from stopping.
BoundedWorkAfterStop == late <= 2

\* One process serves both sockets and neither starves the other: while
\* datagrams wait on one, they go on being taken, however many arrive on the
\* other.
Waiting(q) == pc \in Serving /\ run /\ q > 0

NoSocketStarves ==
    /\ <>[](Waiting(dnsQ) /\ dnsFd) => []<><<dnsQ' < dnsQ>>_vars
    /\ <>[](Waiting(cmdQ) /\ cmdFd) => []<><<cmdQ' < cmdQ>>_vars

\* A signal sigproc is installed for stops the server, wherever main is and
\* whatever arrives, even between the test of run and the poll, and with a
\* second signal on top of the first; unless the handler came into the library
\* on top of another call, while main logged, parsed, allocated or freed.
SignalStops ==
    handlers # <<>> ~> broken \/ pc \in {"exited", "killed"}

\* A server that serves listens on both ports: main means to exit when it
\* cannot bind either.
BothListening == pc \in Serving => dnsFd /\ cmdFd
=============================================================================
