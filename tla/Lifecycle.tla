----------------------------- MODULE Lifecycle ------------------------------
(***************************************************************************)
(* Start and stop of the program: main (main.cpp), Shutdown                *)
(* (core/shutdown.cpp), TunInbound::start, stop and its destructor         *)
(* (inbound/tun_inbound.cpp), the adapter (inbound/tun_wintun.cpp), the    *)
(* routes (inbound/tun_route.cpp), the listeners of the other inbounds and *)
(* the system proxy setting (platform/windows_proxy.cpp).                  *)
(*                                                                         *)
(* Three kinds of threads act: the main thread, which starts everything    *)
(* and then runs the io_context; the packet thread of the TUN inbound; and *)
(* the threads on which Windows calls the console handler.  What survives  *)
(* the process is os: the proxy setting and, while the adapter exists, its *)
(* address and default route.  Every call to the system may fail, and the  *)
(* system may end the process, after which it can be started again.        *)
(***************************************************************************)
EXTENDS Integers, FiniteSets, SequencesExt

CONSTANTS
    Listeners,    \* the configured mixed, socks5 and http inbounds
    MaxEvents,    \* bound: console events and signals delivered in one run
    MaxRuns       \* bound: how often the program is started

ASSUME LifecycleAssumption ==
    IsFiniteSet(Listeners) /\ MaxEvents \in Nat /\ MaxRuns \in Nat \ {0}

VARIABLES
    cfg,         \* tun.enable, windows_proxy.enabled, and whether dns.listen is set
    main,        \* control state of the main thread
    code,        \* the exit code main will return
    os,          \* proxy, address and route, as the system has them
    tun,         \* the TunInbound: members, adapter and thread
    listening,   \* inbounds other than tun whose socket is open
    ready,       \* handlers posted to io_, in order
    sd,          \* the Shutdown object
    console,     \* console handler threads: 0, or what each is about to do
    events,      \* console events and signals so far
    failed,      \* history: cleanup calls the system refused
    ran,         \* history: how often each stop callback ran
    past         \* history: runs so far, and the proxy setting the last one found

vars == << cfg, main, code, os, tun, listening, ready, sd, console, events,
           failed, ran, past >>

Callbacks == {"inbounds", "proxy"}
Sockets == Listeners \cup {"dns"}

Configs == [tun : BOOLEAN, proxy : BOOLEAN, dns : BOOLEAN]
NoTun   == [made |-> FALSE, adapter |-> FALSE, session |-> FALSE,
            routes_configured_ |-> FALSE, acceptor |-> FALSE,
            thread |-> "none", stopping_ |-> FALSE]
NewShutdown == [callbacks_ |-> << >>, stopping_ |-> FALSE, installed |-> FALSE,
                waiting |-> FALSE, signalled |-> FALSE, g_shutdown |-> TRUE]

Init ==
    /\ cfg \in Configs
    /\ main = "tun"
    /\ code = 0
    /\ os = [proxy |-> FALSE, address |-> FALSE, route |-> FALSE]
    /\ tun = NoTun
    /\ listening = {}
    /\ ready = << >>
    /\ sd = NewShutdown
    /\ console = << >>
    /\ events = 0
    /\ failed = {}
    /\ ran = [c \in Callbacks |-> 0]
    /\ past = [runs |-> 1, proxy |-> FALSE]

-----------------------------------------------------------------------------
(***************************************************************************)
(* main: start-up.  An exception leaves the try block, destroys the locals *)
(* and returns 1.                                                          *)
(***************************************************************************)

Throw == main' = "destroy" /\ code' = 1

\* The TUN inbound is created and its start posted, if a default route for
\* the outgoing connections is found.
StartTun ==
    /\ main = "tun"
    /\ \/ /\ ~cfg.tun
          /\ main' = "listen"
          /\ UNCHANGED << code, tun, ready >>
       \/ /\ cfg.tun
          /\ main' = "listen"
          /\ tun' = [tun EXCEPT !.made = TRUE]
          /\ ready' = Append(ready, "tun_start")
          /\ UNCHANGED code
       \/ cfg.tun /\ Throw /\ UNCHANGED << tun, ready >>
    /\ UNCHANGED << cfg, os, listening, sd, console, events, failed, ran, past >>

\* make_acceptor for one more inbound, which may throw; or all are open.
Listen ==
    /\ main = "listen"
    /\ \/ \E l \in Listeners \ listening :
             listening' = listening \cup {l} /\ UNCHANGED << main, code >>
       \/ listening # Listeners /\ Throw /\ UNCHANGED listening
       \/ listening = Listeners /\ main' = "dns" /\ UNCHANGED << code, listening >>
    /\ UNCHANGED << cfg, os, tun, ready, sd, console, events, failed, ran, past >>

\* The DNS inbound is made (its address may be malformed) and its start, which
\* opens the socket, posted.
MakeDns ==
    /\ main = "dns"
    /\ \/ ~cfg.dns /\ main' = "register" /\ UNCHANGED << code, ready >>
       \/ cfg.dns /\ main' = "register" /\ ready' = Append(ready, "dns_start") /\ UNCHANGED code
       \/ cfg.dns /\ Throw /\ UNCHANGED ready
    /\ UNCHANGED << cfg, os, tun, listening, sd, console, events, failed, ran, past >>

\* shutdown.on_stop for the inbounds.
RegisterInbounds ==
    /\ main = "register"
    /\ sd' = [sd EXCEPT !.callbacks_ = Append(@, "inbounds")]
    /\ main' = "proxy"
    /\ UNCHANGED << cfg, code, os, tun, listening, ready, console, events, failed, ran, past >>

\* Mutant of SetProxy: on_stop replaces the callback registered before.
SetProxy_overwrites ==
    /\ main = "proxy"
    /\ IF cfg.proxy
       THEN /\ \E set \in BOOLEAN : os' = [os EXCEPT !.proxy = @ \/ set]
            /\ sd' = [sd EXCEPT !.callbacks_ = << "proxy" >>]
       ELSE UNCHANGED << os, sd >>
    /\ main' = "signals"
    /\ UNCHANGED << cfg, code, tun, listening, ready, console, events, failed, ran, past >>

\* setWindowsProxy, whose result nobody looks at, then on_stop to unset it.
SetProxy ==
    /\ main = "proxy"
    /\ IF cfg.proxy
       THEN /\ \E set \in BOOLEAN : os' = [os EXCEPT !.proxy = @ \/ set]
            /\ sd' = [sd EXCEPT !.callbacks_ = Append(@, "proxy")]
       ELSE UNCHANGED << os, sd >>
    /\ main' = "signals"
    /\ UNCHANGED << cfg, code, tun, listening, ready, console, events, failed, ran, past >>

\* shutdown.start: install the console handler, wait for a signal; io.run.
StartSignals ==
    /\ main = "signals"
    /\ sd' = [sd EXCEPT !.installed = TRUE, !.waiting = TRUE]
    /\ main' = "run"
    /\ UNCHANGED << cfg, code, os, tun, listening, ready, console, events, failed, ran, past >>

-----------------------------------------------------------------------------
(***************************************************************************)
(* The io_context: TunInbound::start and DnsInbound::start.                *)
(***************************************************************************)

\* How far start gets before the system refuses a call; "done" means it
\* starts the packet thread and waits in accept_loop.
Stages == {"load", "adapter", "session", "luid", "address", "route", "acceptor", "done"}

\* load and open_adapter succeeded; start_session did too.
AdapterOpened(stage) == stage \notin {"load", "adapter"}
SessionStarted(stage) == AdapterOpened(stage) /\ stage # "session"

\* configure_tun_routes succeeded, or left the address because the route was
\* refused and the address could not be taken back.
RoutesConfigured(stage) == stage \in {"acceptor", "done"}
AddressLeft(stage, undone) == stage = "route" /\ ~undone

\* What was made stays when start throws; co_spawn(detached) drops the
\* exception.
TunStart ==
    /\ main = "run"
    /\ ready # << >> /\ Head(ready) = "tun_start"
    /\ ready' = Tail(ready)
    /\ \E stage \in Stages, undone \in BOOLEAN :
          /\ tun' = [tun EXCEPT
                !.adapter = AdapterOpened(stage),
                !.session = SessionStarted(stage),
                !.routes_configured_ = RoutesConfigured(stage),
                !.acceptor = RoutesConfigured(stage),
                !.thread = IF stage = "done" THEN "running" ELSE "none"]
          /\ os' = [os EXCEPT
                !.address = RoutesConfigured(stage) \/ AddressLeft(stage, undone),
                !.route = RoutesConfigured(stage)]
          /\ failed' = IF AddressLeft(stage, undone) THEN failed \cup {"address"} ELSE failed
    /\ UNCHANGED << cfg, main, code, listening, sd, console, events, ran, past >>

\* open and bind; an exception is dropped by co_spawn(detached).
DnsStart ==
    /\ main = "run"
    /\ ready # << >> /\ Head(ready) = "dns_start"
    /\ ready' = Tail(ready)
    /\ listening' \in {listening, listening \cup {"dns"}}
    /\ UNCHANGED << cfg, main, code, os, tun, sd, console, events, failed, ran, past >>

-----------------------------------------------------------------------------
(***************************************************************************)
(* Shutdown: requests come from the signal set and from console handler    *)
(* threads; request_stop runs on the main thread.                          *)
(***************************************************************************)

\* !stopping_.exchange(true)
ShouldStop == ~sd.stopping_

\* request_stop up to run_callbacks_once, which swaps the callbacks out.
BeginStop ==
    /\ sd' = [sd EXCEPT !.stopping_ = TRUE, !.waiting = FALSE]
    /\ main' = IF ShouldStop THEN "callbacks" ELSE "run"

\* A posted request_stop.
RequestStop ==
    /\ main = "run"
    /\ ready # << >> /\ Head(ready) = "request_stop"
    /\ ready' = Tail(ready)
    /\ BeginStop
    /\ UNCHANGED << cfg, code, os, tun, listening, console, events, failed, ran, past >>

\* The completion of async_wait, also for a signal that came before the wait.
SignalHandler ==
    /\ main = "run"
    /\ sd.waiting /\ sd.signalled
    /\ BeginStop
    /\ UNCHANGED << cfg, code, os, tun, listening, ready, console, events, failed, ran, past >>

\* One of the listeners' stop, or that of the DNS inbound, in any order.
StopListener(l) ==
    /\ main = "callbacks"
    /\ sd.callbacks_ # << >> /\ Head(sd.callbacks_) = "inbounds"
    /\ l \in listening
    /\ listening' = listening \ {l}
    /\ UNCHANGED << cfg, main, code, os, tun, ready, sd, console, events, failed, ran, past >>

\* cleanup_tun_routes: each deletion may be refused.
CleanupRoutes ==
    \E gone \in SUBSET {"route", "address"} :
       /\ os' = [os EXCEPT !.route = @ /\ "route" \notin gone,
                           !.address = @ /\ "address" \notin gone]
       /\ failed' = failed \cup ({"route", "address"} \ gone)

\* Mutant of CleanupOnStop: the routes are left.
CleanupOnStop_never == UNCHANGED << os, failed >>

\* if (routes_configured_) cleanup_tun_routes(...)
CleanupOnStop ==
    IF tun.routes_configured_ THEN CleanupRoutes ELSE UNCHANGED << os, failed >>

\* TunInbound::stop up to the join, called from main state m and going to n.
TunStop(m, n) ==
    /\ main = m
    /\ main' = n
    /\ IF ~tun.made \/ tun.stopping_ THEN UNCHANGED << os, failed, tun >>
       ELSE /\ CleanupOnStop
            /\ tun' = [tun EXCEPT !.stopping_ = TRUE, !.acceptor = FALSE,
                                  !.routes_configured_ = FALSE]
    /\ UNCHANGED << cfg, code, listening, ready, sd, console, events, ran, past >>

\* The stop of the TUN inbound, among those of the other inbounds.
StopTun ==
    /\ sd.callbacks_ # << >> /\ Head(sd.callbacks_) = "inbounds"
    /\ tun.made /\ ~tun.stopping_
    /\ TunStop("callbacks", "join")

\* Mutant of ThreadOver: the packet thread is detached, not joined.
ThreadOver_detached == TRUE

\* packet_thread_.join() returns, or the thread is not joinable.
ThreadOver == tun.thread \in {"none", "exited"}

\* The join in stop: the main thread is blocked until the thread is over.
JoinInStop ==
    /\ main = "join"
    /\ ThreadOver
    /\ main' = "callbacks"
    /\ UNCHANGED << cfg, code, os, tun, listening, ready, sd, console, events, failed, ran, past >>

\* The inbounds callback is over: every inbound was stopped.
InboundsStopped ==
    /\ main = "callbacks"
    /\ sd.callbacks_ # << >> /\ Head(sd.callbacks_) = "inbounds"
    /\ listening = {}
    /\ tun.made => tun.stopping_
    /\ sd' = [sd EXCEPT !.callbacks_ = Tail(@)]
    /\ ran' = [ran EXCEPT !["inbounds"] = @ + 1]
    /\ UNCHANGED << cfg, main, code, os, tun, listening, ready, console, events, failed, past >>

\* The proxy callback: unsetWindowsProxy.
UnsetProxy ==
    /\ main = "callbacks"
    /\ sd.callbacks_ # << >> /\ Head(sd.callbacks_) = "proxy"
    /\ sd' = [sd EXCEPT !.callbacks_ = Tail(@)]
    /\ ran' = [ran EXCEPT !["proxy"] = @ + 1]
    /\ \/ os' = [os EXCEPT !.proxy = FALSE] /\ UNCHANGED failed
       \/ failed' = failed \cup {"proxy"} /\ UNCHANGED os
    /\ UNCHANGED << cfg, main, code, tun, listening, ready, console, events, past >>

\* Mutant of FinishStop: io_.stop() is missing.
FinishStop_no_io_stop ==
    /\ main = "callbacks"
    /\ sd.callbacks_ = << >>
    /\ sd' = [sd EXCEPT !.installed = FALSE, !.g_shutdown = FALSE]
    /\ main' = "run"
    /\ UNCHANGED << cfg, code, os, tun, listening, ready, console, events, failed, ran, past >>

\* The end of request_stop: uninstall the console handler, g_shutdown =
\* nullptr, cancel the signal wait, io_.stop(): io.run returns.
FinishStop ==
    /\ main = "callbacks"
    /\ sd.callbacks_ = << >>
    /\ sd' = [sd EXCEPT !.installed = FALSE, !.g_shutdown = FALSE]
    /\ main' = "destroy"
    /\ UNCHANGED << cfg, code, os, tun, listening, ready, console, events, failed, ran, past >>

-----------------------------------------------------------------------------
(***************************************************************************)
(* Leaving main.                                                           *)
(***************************************************************************)

\* ~TunInbound calls stop again.
DestroyTun == TunStop("destroy", "destroy_join")

\* The join in the destructor's stop, then ~WintunApi (end session, close
\* adapter, with which its address and route disappear); then the remaining
\* locals, Shutdown and the io_context among them.
DestroyRest ==
    /\ main = "destroy_join"
    /\ ThreadOver
    /\ tun' = [tun EXCEPT !.session = FALSE, !.adapter = FALSE]
    /\ os' = [os EXCEPT !.address = FALSE, !.route = FALSE]
    /\ listening' = {}
    /\ main' = "returning"
    /\ UNCHANGED << cfg, code, ready, sd, console, events, failed, ran, past >>

ProcessExit ==
    /\ main = "returning"
    /\ main' = "exited"
    /\ UNCHANGED << cfg, code, os, tun, listening, ready, sd, console, events, failed, ran, past >>

-----------------------------------------------------------------------------
(***************************************************************************)
(* The packet thread.                                                      *)
(***************************************************************************)

\* packet_loop sees stopping_ (it looks at least every 100 ms), or leaves on
\* a receive error.
PacketThreadEnds ==
    /\ tun.thread = "running"
    /\ tun.stopping_
    /\ tun' = [tun EXCEPT !.thread = "exited"]
    /\ UNCHANGED << cfg, main, code, os, listening, ready, sd, console, events, failed, ran, past >>

PacketThreadFails ==
    /\ tun.thread = "running"
    /\ ~tun.stopping_
    /\ tun' = [tun EXCEPT !.thread = "exited"]
    /\ UNCHANGED << cfg, main, code, os, listening, ready, sd, console, events, failed, ran, past >>

\* tcp_nat_ has no free port left: the thread never leaves lookup_or_create.
PacketThreadSpins ==
    /\ tun.thread = "running"
    /\ tun' = [tun EXCEPT !.thread = "spinning"]
    /\ UNCHANGED << cfg, main, code, os, listening, ready, sd, console, events, failed, ran, past >>

-----------------------------------------------------------------------------
(***************************************************************************)
(* Console events and signals.                                             *)
(***************************************************************************)

Alive == main \notin {"exited", "killed"}

\* SIGTERM, or Ctrl-C while the console handler is not installed.
Signal ==
    /\ Alive
    /\ events < MaxEvents
    /\ events' = events + 1
    /\ sd' = [sd EXCEPT !.signalled = TRUE]
    /\ UNCHANGED << cfg, main, code, os, tun, listening, ready, console, failed, ran, past >>

\* External: Windows starts a thread in console_handler; for a close, logoff
\* or shutdown event it ends the process once the handler has returned.
ConsoleEvent ==
    /\ Alive
    /\ sd.installed
    /\ events < MaxEvents
    /\ events' = events + 1
    /\ \E fatal \in BOOLEAN : console' = Append(console, [pc |-> "read", fatal |-> fatal])
    /\ UNCHANGED << cfg, main, code, os, tun, listening, ready, sd, failed, ran, past >>

\* console_handler reads g_shutdown.
ConsoleRead(i) ==
    /\ Alive
    /\ console[i].pc = "read"
    /\ console' = [console EXCEPT ![i].pc = IF sd.g_shutdown THEN "call" ELSE "done"]
    /\ UNCHANGED << cfg, main, code, os, tun, listening, ready, sd, events, failed, ran, past >>

\* g_shutdown->stop() posts request_stop.  If main has destroyed Shutdown and
\* the io_context in the meantime the behaviour is undefined: nothing, or a
\* crash.
ConsoleCall(i) ==
    /\ Alive
    /\ console[i].pc = "call"
    /\ console' = [console EXCEPT ![i].pc = "done"]
    /\ IF main = "returning"
       THEN main' \in {"returning", "killed"} /\ UNCHANGED ready
       ELSE ready' = Append(ready, "request_stop") /\ UNCHANGED main
    /\ UNCHANGED << cfg, code, os, tun, listening, sd, events, failed, ran, past >>

\* External: the system ends the process after a fatal event.  The adapter
\* goes with the process, the proxy setting stays.
Kill(i) ==
    /\ Alive
    /\ console[i].pc = "done" /\ console[i].fatal
    /\ main' = "killed"
    /\ tun' = [tun EXCEPT !.thread = "none", !.adapter = FALSE, !.session = FALSE]
    /\ os' = [os EXCEPT !.address = FALSE, !.route = FALSE]
    /\ UNCHANGED << cfg, code, listening, ready, sd, console, events, failed, ran, past >>

\* The program is started again, with any configuration: only the proxy
\* setting of the run that was killed is still there.
Restart ==
    /\ main = "killed"
    /\ past.runs < MaxRuns
    /\ past' = [runs |-> past.runs + 1, proxy |-> os.proxy]
    /\ cfg' \in Configs
    /\ main' = "tun"
    /\ tun' = NoTun
    /\ listening' = {}
    /\ ready' = << >>
    /\ sd' = NewShutdown
    /\ console' = << >>
    /\ events' = 0
    /\ failed' = {}
    /\ ran' = [c \in Callbacks |-> 0]
    /\ code' = 0
    /\ UNCHANGED os

-----------------------------------------------------------------------------
MainStep ==
    \/ StartTun \/ Listen \/ MakeDns \/ RegisterInbounds \/ SetProxy \/ StartSignals
    \/ TunStart \/ DnsStart \/ RequestStop \/ SignalHandler
    \/ (\E l \in Sockets : StopListener(l))
    \/ StopTun \/ JoinInStop \/ InboundsStopped \/ UnsetProxy \/ FinishStop
    \/ DestroyTun \/ DestroyRest \/ ProcessExit

ConsoleStep == \E i \in DOMAIN console : ConsoleRead(i) \/ ConsoleCall(i)

Next ==
    \/ MainStep
    \/ PacketThreadEnds \/ PacketThreadFails \/ PacketThreadSpins
    \/ Signal \/ ConsoleEvent \/ ConsoleStep
    \/ (\E i \in DOMAIN console : Kill(i))
    \/ Restart

\* The threads run; nothing forces events, errors or a termination.
Fairness == WF_vars(MainStep) /\ WF_vars(PacketThreadEnds) /\ WF_vars(ConsoleStep)

Spec == Init /\ [][Next]_vars /\ Fairness

-----------------------------------------------------------------------------
(***************************************************************************)
(* Properties.                                                             *)
(***************************************************************************)

Leaving == main \in {"destroy", "destroy_join", "returning", "exited"}

\* No run leaves behind what it could have undone.  One that ends on request
\* has switched the proxy setting off, and taken the address and the route
\* off the adapter before it was closed; one whose start-up fails (no default
\* route, a listener that cannot be opened) has changed no setting, as the
\* proxy is set only after the last call that can throw, and TunInbound::start
\* only runs inside io.run.  What is left was refused by the system, or is
\* the proxy setting of a killed run that this run does not configure.
LeavesNothingBehind ==
    /\ Leaving /\ code = 0 =>
          /\ os.proxy => "proxy" \in failed \/ (past.proxy /\ ~cfg.proxy)
          /\ os.route => "route" \in failed
          /\ os.address => "address" \in failed
          /\ listening = {}
    /\ code = 1 =>
          /\ os.proxy => past.proxy
          /\ ~os.route /\ ~os.address /\ tun.thread = "none"

\* Each stop callback runs once, however many signals and console events ask
\* for it, and all registered ones have run when io.run returns.
StopCallbacksRunOnce ==
    /\ \A c \in Callbacks : ran[c] <= 1
    /\ Leaving /\ code = 0 =>
          ran["inbounds"] = 1 /\ (cfg.proxy => ran["proxy"] = 1)

\* The packet thread never outlives the adapter session it reads from.
ThreadHasSession == tun.thread \in {"running", "spinning"} => tun.session

\* A stop request (a posted request_stop, or a signal while waiting) ends the
\* process, unless the packet thread spins: then stop waits for it for ever.
StopRequestsEndProcess ==
    (main = "run" /\ ("request_stop" \in ToSet(ready) \/ sd.signalled))
       ~> (main \in {"exited", "killed"} \/ tun.thread = "spinning")
=============================================================================
