-------------------------- MODULE LifecycleProofs ---------------------------
(***************************************************************************)
(* Proofs about Lifecycle: for any set of listeners and any number of      *)
(* events and runs, the stop callbacks run once, the packet thread never   *)
(* outlives its session, and a run leaves nothing behind that it could     *)
(* have undone.                                                            *)
(***************************************************************************)
EXTENDS Lifecycle, SequenceTheorems, TLAPS

\* Start-up up to io.run, and the states after the locals are gone.
Starting == {"tun", "listen", "dns", "register", "proxy", "signals"}
Over     == {"returning", "exited", "killed"}

TunObjects ==
    [made : BOOLEAN, adapter : BOOLEAN, session : BOOLEAN, routes_configured_ : BOOLEAN,
     acceptor : BOOLEAN, thread : {"none", "running", "spinning", "exited"},
     stopping_ : BOOLEAN]
ShutdownObjects ==
    [callbacks_ : Seq(Callbacks), stopping_ : BOOLEAN, installed : BOOLEAN,
     waiting : BOOLEAN, signalled : BOOLEAN, g_shutdown : BOOLEAN]
Posted == {"tun_start", "dns_start", "request_stop"}

Settings == [proxy : BOOLEAN, address : BOOLEAN, route : BOOLEAN]

Typed ==
    /\ cfg \in Configs
    /\ main \in Starting \cup {"run", "callbacks", "join", "destroy", "destroy_join"} \cup Over
    /\ code \in {0, 1}
    /\ os \in Settings
    /\ tun \in TunObjects
    /\ sd \in ShutdownObjects
    /\ ready \in Seq(Posted)
    /\ ran \in [Callbacks -> {0, 1}]
    /\ past.proxy \in BOOLEAN

\* A failed start-up only leaves main; nothing is stopping before io.run has
\* seen a request; and only an inbound that was made is started.
Control ==
    /\ code = 1 => main \in {"destroy", "destroy_join"} \cup Over
    /\ main \in Starting \cup {"run"} => ~sd.stopping_ /\ ~tun.stopping_
    /\ \A i \in DOMAIN ready : ready[i] = "tun_start" => tun.made

Registered == IF cfg.proxy THEN << "inbounds", "proxy" >> ELSE << "inbounds" >>
HasRun(i, p) == ran["inbounds"] = i /\ ran["proxy"] = p

\* Every registered callback has run.
AllRan == HasRun(1, IF cfg.proxy THEN 1 ELSE 0)

\* The callbacks still to run and the ones that ran make up the registered
\* ones.
Progress ==
    /\ main \in {"tun", "listen", "dns", "register"} => sd.callbacks_ = << >>
    /\ main = "proxy" => sd.callbacks_ = << "inbounds" >>
    /\ main \in {"signals", "run", "join"} => sd.callbacks_ = Registered
    /\ main \in Starting \cup {"run", "join"} => HasRun(0, 0)
    /\ main = "callbacks" =>
          \/ sd.callbacks_ = Registered /\ HasRun(0, 0)
          \/ cfg.proxy /\ sd.callbacks_ = << "proxy" >> /\ HasRun(1, 0)
          \/ sd.callbacks_ = << >> /\ AllRan
    /\ Leaving /\ code = 0 => AllRan

\* What is still set, a flag says so or the system refused to take it back.
Routes ==
    /\ os.route => tun.routes_configured_ \/ "route" \in failed
    /\ os.address => tun.routes_configured_ \/ "address" \in failed
    /\ tun.routes_configured_ => tun.made /\ ~tun.stopping_
    /\ ran["inbounds"] = 1 => listening = {} /\ (tun.made => tun.stopping_)
    /\ main \in Over => ~os.route /\ ~os.address

Proxy ==
    /\ main \in Starting \ {"signals"} \/ code = 1 => (os.proxy => past.proxy)
    /\ ran["proxy"] = 0 => (os.proxy => past.proxy \/ cfg.proxy)
    /\ ran["proxy"] = 1 => (os.proxy => "proxy" \in failed)

\* Nothing that start sets is set before io.run, nor after a failed start-up.
Untouched ==
    main \in Starting \/ code = 1 =>
       ~os.route /\ ~os.address /\ ~tun.routes_configured_ /\ tun.thread = "none"

IndInv ==
    /\ Typed /\ Control /\ Progress /\ Routes /\ Proxy /\ Untouched /\ ThreadHasSession

\* What posting and running handlers does to the queue.
LEMMA QueueFacts ==
  ASSUME NEW q \in Seq(Posted)
  PROVE  /\ \A e \in Posted :
               /\ Append(q, e) \in Seq(Posted)
               /\ \A i \in DOMAIN Append(q, e) :
                     Append(q, e)[i] = e \/ \E j \in DOMAIN q : Append(q, e)[i] = q[j]
         /\ q # << >> =>
               /\ Head(q) = q[1] /\ 1 \in DOMAIN q
               /\ Tail(q) \in Seq(Posted)
               /\ \A i \in DOMAIN Tail(q) : \E j \in DOMAIN q : Tail(q)[i] = q[j]
<1>1. ASSUME NEW e \in Posted
      PROVE  /\ Append(q, e) \in Seq(Posted)
             /\ \A i \in DOMAIN Append(q, e) :
                     Append(q, e)[i] = e \/ \E j \in DOMAIN q : Append(q, e)[i] = q[j]
  OBVIOUS
<1>2. ASSUME q # << >>
      PROVE  /\ Head(q) = q[1] /\ 1 \in DOMAIN q
             /\ Tail(q) \in Seq(Posted)
  BY <1>2
<1>3. ASSUME q # << >>, NEW i \in DOMAIN Tail(q)
      PROVE  \E j \in DOMAIN q : Tail(q)[i] = q[j]
  <2>1. i + 1 \in DOMAIN q /\ Tail(q)[i] = q[i + 1]
    BY <1>3
  <2> QED
    BY <2>1
<1> QED
  BY <1>1, <1>2, <1>3

\* What registering and running callbacks does to their list.
LEMMA AppendToOne ==
  ASSUME NEW S, NEW a \in S, NEW b \in S
  PROVE  Append(<< a >>, b) = << a, b >>
<1>1. << a >> \in Seq(S) /\ Append(<< a >>, b) \in Seq(S) /\ << a, b >> \in Seq(S)
  OBVIOUS
<1>2. Len(Append(<< a >>, b)) = 2 /\ Len(<< a, b >>) = 2
  BY <1>1
<1>3. /\ Append(<< a >>, b)[1] = a /\ Append(<< a >>, b)[2] = b
      /\ << a, b >>[1] = a /\ << a, b >>[2] = b
  BY <1>1
<1>4. \A i \in 1 .. 2 : i = 1 \/ i = 2
  OBVIOUS
<1> QED
  BY <1>1, <1>2, <1>3, <1>4, SeqEqual

\* The lists of callbacks there are.
LEMMA CallbackFacts ==
  /\ Append(<< >>, "inbounds") = << "inbounds" >>
  /\ Append(<< "inbounds" >>, "proxy") = << "inbounds", "proxy" >>
  /\ << >> \in Seq(Callbacks) /\ << "inbounds" >> \in Seq(Callbacks)
  /\ << "proxy" >> \in Seq(Callbacks) /\ << "inbounds", "proxy" >> \in Seq(Callbacks)
  /\ Head(<< "inbounds" >>) = "inbounds" /\ Tail(<< "inbounds" >>) = << >>
  /\ Head(<< "proxy" >>) = "proxy" /\ Tail(<< "proxy" >>) = << >>
  /\ Head(<< "inbounds", "proxy" >>) = "inbounds"
  /\ Tail(<< "inbounds", "proxy" >>) = << "proxy" >>
  /\ << "inbounds" >> # << >> /\ << "proxy" >> # << >> /\ << "inbounds", "proxy" >> # << >>
<1>1. Tail(<< "inbounds", "proxy" >>) = << "proxy" >>
  OBVIOUS
<1>2. Append(<< "inbounds" >>, "proxy") = << "inbounds", "proxy" >>
  BY AppendToOne, "inbounds" \in Callbacks, "proxy" \in Callbacks DEF Callbacks
<1>3. /\ Append(<< >>, "inbounds") = << "inbounds" >>
      /\ << >> \in Seq(Callbacks) /\ << "inbounds" >> \in Seq(Callbacks)
      /\ << "proxy" >> \in Seq(Callbacks) /\ << "inbounds", "proxy" >> \in Seq(Callbacks)
  BY DEF Callbacks
<1>4. /\ Head(<< "inbounds" >>) = "inbounds" /\ Tail(<< "inbounds" >>) = << >>
      /\ Head(<< "proxy" >>) = "proxy" /\ Tail(<< "proxy" >>) = << >>
      /\ Head(<< "inbounds", "proxy" >>) = "inbounds"
      /\ << "inbounds" >> # << >> /\ << "proxy" >> # << >> /\ << "inbounds", "proxy" >> # << >>
  OBVIOUS
<1> QED
  BY <1>1, <1>2, <1>3, <1>4

\* Which callback is at the head of the list tells which have run.
LEMMA HeadTells ==
  ASSUME Progress, main = "callbacks", sd.callbacks_ # << >>
  PROVE  /\ Head(sd.callbacks_) = "inbounds" => sd.callbacks_ = Registered /\ HasRun(0, 0)
         /\ Head(sd.callbacks_) = "proxy" =>
               cfg.proxy /\ sd.callbacks_ = << "proxy" >> /\ HasRun(1, 0)
BY CallbackFacts DEF Progress, Registered

\* Only StartTun posts the start of the TUN inbound.
LEMMA NoNewStart ==
  ASSUME Typed,
         \/ ready' = ready
         \/ ready # << >> /\ ready' = Tail(ready)
         \/ \E e \in {"dns_start", "request_stop"} : ready' = Append(ready, e)
  PROVE  \A i \in DOMAIN ready' :
            ready'[i] # "tun_start" \/ \E j \in DOMAIN ready : ready'[i] = ready[j]
<1>1. CASE ready' = ready
  BY <1>1
<1>2. CASE ready # << >> /\ ready' = Tail(ready)
  BY <1>2, QueueFacts DEF Typed
<1>3. ASSUME NEW e \in {"dns_start", "request_stop"}, ready' = Append(ready, e)
      PROVE  \A i \in DOMAIN ready' :
                ready'[i] # "tun_start" \/ \E j \in DOMAIN ready : ready'[i] = ready[j]
  <2>1. e \in Posted /\ e # "tun_start"
    BY DEF Posted
  <2> QED
    BY <1>3, <2>1, QueueFacts DEF Typed
<1> QED
  BY <1>1, <1>2, <1>3


\* One step of main after the other, then those of the other threads.
LEMMA StartTunInv ==
  ASSUME IndInv, StartTun
  PROVE  IndInv'
<1> USE DEF IndInv
<1>1. Typed'
  <2>1. tun' \in TunObjects
    BY DEF Typed, TunObjects, StartTun, Throw
  <2>2. sd' \in ShutdownObjects
    BY DEF Typed, ShutdownObjects, StartTun, Throw
  <2>3. ready' \in Seq(Posted)
    BY QueueFacts DEF Typed, Posted, StartTun, Throw
  <2>4. ran' \in [Callbacks -> {0, 1}]
    BY DEF Typed, Callbacks, StartTun, Throw
  <2> QED
    BY <2>1, <2>2, <2>3, <2>4 DEF Typed, Starting, Over, StartTun, Throw
<1>2. Control'
  BY DEF Typed, TunObjects, ShutdownObjects, Control, Starting, Over, StartTun, Throw
<1>3. Progress'
  BY DEF Typed, TunObjects, ShutdownObjects, Control, Progress, Registered, HasRun,
     AllRan, Leaving, Starting, Over, Callbacks, StartTun, Throw
<1>4. Routes'
  BY DEF Typed, TunObjects, ShutdownObjects, Control, Progress, HasRun, AllRan,
     Routes, Untouched, Starting, Over, Leaving, StartTun, Throw
<1>5. Proxy'
  BY DEF Typed, TunObjects, ShutdownObjects, Control, Progress, HasRun, AllRan, Proxy,
     Starting, Over, Leaving, StartTun, Throw
<1>6. Untouched'
  BY DEF Typed, TunObjects, ShutdownObjects, Control, Untouched, Starting, Over,
     StartTun, Throw
<1>7. ThreadHasSession'
  BY DEF Typed, TunObjects, ShutdownObjects, ThreadHasSession, StartTun, Throw
<1> QED
  BY <1>1, <1>2, <1>3, <1>4, <1>5, <1>6, <1>7

\* The listeners are bound one by one, or main leaves.
LEMMA ListenInv ==
  ASSUME IndInv, Listen
  PROVE  IndInv'
<1> USE DEF IndInv
<1>1. Typed'
  BY DEF Settings, Typed, TunObjects, ShutdownObjects, Posted, Starting, Over, Listen, Throw
<1>2. Control'
  BY DEF Typed, TunObjects, ShutdownObjects, Control, Starting, Over, Listen, Throw
<1>3. Progress'
  BY DEF Typed, TunObjects, ShutdownObjects, Control, Progress, Registered, HasRun,
     AllRan, Leaving, Starting, Over, Callbacks, Listen, Throw
<1>4. Routes'
  BY DEF Typed, TunObjects, ShutdownObjects, Control, Progress, HasRun, AllRan,
     Routes, Untouched, Starting, Over, Leaving, Listen, Throw
<1>5. Proxy'
  BY DEF Typed, TunObjects, ShutdownObjects, Control, Progress, HasRun, AllRan, Proxy,
     Starting, Over, Leaving, Listen, Throw
<1>6. Untouched'
  BY DEF Typed, TunObjects, ShutdownObjects, Control, Untouched, Starting, Over,
     Listen, Throw
<1>7. ThreadHasSession'
  BY DEF Typed, TunObjects, ShutdownObjects, ThreadHasSession, Listen, Throw
<1> QED
  BY <1>1, <1>2, <1>3, <1>4, <1>5, <1>6, <1>7

\* The DNS inbound is made and its start posted, or main leaves.
LEMMA MakeDnsInv ==
  ASSUME IndInv, MakeDns
  PROVE  IndInv'
<1> USE DEF IndInv
<1>1. Typed'
  <2>1. tun' \in TunObjects
    BY DEF Typed, TunObjects, MakeDns, Throw
  <2>2. sd' \in ShutdownObjects
    BY DEF Typed, ShutdownObjects, MakeDns, Throw
  <2>3. ready' \in Seq(Posted)
    BY QueueFacts DEF Typed, Posted, MakeDns, Throw
  <2>4. ran' \in [Callbacks -> {0, 1}]
    BY DEF Typed, Callbacks, MakeDns, Throw
  <2> QED
    BY <2>1, <2>2, <2>3, <2>4 DEF Typed, Starting, Over, MakeDns, Throw
<1>2. Control'
  <2>1. \A i \in DOMAIN ready' :
           ready'[i] # "tun_start" \/ \E j \in DOMAIN ready : ready'[i] = ready[j]
    BY NoNewStart DEF MakeDns, Throw
  <2> QED
    BY <2>1 DEF Typed, TunObjects, ShutdownObjects, Control, Starting, Over, MakeDns,
       Throw
<1>3. Progress'
  BY DEF Typed, TunObjects, ShutdownObjects, Control, Progress, Registered, HasRun,
     AllRan, Leaving, Starting, Over, Callbacks, MakeDns, Throw
<1>4. Routes'
  BY DEF Typed, TunObjects, ShutdownObjects, Control, Progress, HasRun, AllRan,
     Routes, Untouched, Starting, Over, Leaving, MakeDns, Throw
<1>5. Proxy'
  BY DEF Typed, TunObjects, ShutdownObjects, Control, Progress, HasRun, AllRan, Proxy,
     Starting, Over, Leaving, MakeDns, Throw
<1>6. Untouched'
  BY DEF Typed, TunObjects, ShutdownObjects, Control, Untouched, Starting, Over,
     MakeDns, Throw
<1>7. ThreadHasSession'
  BY DEF Typed, TunObjects, ShutdownObjects, ThreadHasSession, MakeDns, Throw
<1> QED
  BY <1>1, <1>2, <1>3, <1>4, <1>5, <1>6, <1>7

\* The first callback is registered.
LEMMA RegisterInboundsInv ==
  ASSUME IndInv, RegisterInbounds
  PROVE  IndInv'
<1> USE DEF IndInv
<1>1. Typed'
  <2>1. tun' \in TunObjects
    BY DEF Typed, TunObjects, RegisterInbounds
  <2>2. sd' \in ShutdownObjects
    BY CallbackFacts DEF Typed, ShutdownObjects, RegisterInbounds, Progress,
       Registered, Callbacks
  <2>3. ready' \in Seq(Posted)
    BY QueueFacts DEF Typed, Posted, RegisterInbounds
  <2>4. ran' \in [Callbacks -> {0, 1}]
    BY HeadTells DEF Typed, Callbacks, RegisterInbounds, HasRun
  <2> QED
    BY <2>1, <2>2, <2>3, <2>4 DEF Typed, Starting, Over, RegisterInbounds
<1>2. Control'
  BY DEF Typed, TunObjects, ShutdownObjects, Control, Starting, Over, RegisterInbounds
<1>3. Progress'
  BY CallbackFacts DEF Typed, TunObjects, ShutdownObjects, Control, Progress,
     Registered, HasRun, AllRan, Leaving, Starting, Over, Callbacks, RegisterInbounds
<1>4. Routes'
  BY DEF Typed, TunObjects, ShutdownObjects, Control, Progress, HasRun, AllRan,
     Routes, Untouched, Starting, Over, Leaving, RegisterInbounds
<1>5. Proxy'
  BY DEF Typed, TunObjects, ShutdownObjects, Control, Progress, HasRun, AllRan, Proxy,
     Starting, Over, Leaving, RegisterInbounds
<1>6. Untouched'
  BY DEF Typed, TunObjects, ShutdownObjects, Control, Untouched, Starting, Over,
     RegisterInbounds
<1>7. ThreadHasSession'
  BY DEF Typed, TunObjects, ShutdownObjects, ThreadHasSession, RegisterInbounds
<1> QED
  BY <1>1, <1>2, <1>3, <1>4, <1>5, <1>6, <1>7

\* The system proxy and the callback that takes it back.
LEMMA SetProxyInv ==
  ASSUME IndInv, SetProxy
  PROVE  IndInv'
<1> USE DEF IndInv
<1>1. Typed'
  <2>1. tun' \in TunObjects
    BY DEF Typed, Settings, TunObjects, SetProxy
  <2>2. sd' \in ShutdownObjects
    <3>1. CASE cfg.proxy
      <4>1. Append(sd.callbacks_, "proxy") \in Seq(Callbacks)
        BY CallbackFacts DEF Progress, SetProxy
      <4>2. sd' = [sd EXCEPT !.callbacks_ = Append(sd.callbacks_, "proxy")]
        BY <3>1 DEF SetProxy
      <4> QED
        BY <4>1, <4>2 DEF Typed, Settings, ShutdownObjects
    <3>2. CASE ~cfg.proxy
      BY <3>2 DEF Typed, Settings, SetProxy
    <3> QED
      BY <3>1, <3>2
  <2>3. ready' \in Seq(Posted)
    BY QueueFacts DEF Typed, Settings, Posted, SetProxy
  <2>4. ran' \in [Callbacks -> {0, 1}]
    BY HeadTells DEF Typed, Settings, Callbacks, SetProxy, HasRun
  <2> QED
    BY <2>1, <2>2, <2>3, <2>4 DEF Typed, Settings, Starting, Over, SetProxy
<1>2. Control'
  BY DEF Typed, Settings, TunObjects, ShutdownObjects, Control, Starting, Over, SetProxy
<1>3. Progress'
  <2>1. sd'.callbacks_ = Registered /\ cfg' = cfg
    BY CallbackFacts DEF Typed, Settings, ShutdownObjects, Progress, Registered, SetProxy
  <2> QED
    BY <2>1 DEF Progress, HasRun, Registered, Leaving, Starting, SetProxy
<1>4. Routes'
  <2>1. os'.route = os.route /\ os'.address = os.address
    <3>1. os \in Settings
      BY DEF Typed
    <3>2. os' = os \/ \E set \in BOOLEAN : os' = [os EXCEPT !.proxy = @ \/ set]
      BY DEF SetProxy
    <3> HIDE DEF IndInv
    <3> QED
      BY <3>1, <3>2 DEF Settings
  <2>2. UNCHANGED << tun, failed, listening, ran >> /\ main = "proxy" /\ main' = "signals"
    BY DEF SetProxy
  <2> QED
    BY <2>1, <2>2 DEF Routes, Over
<1>5. Proxy'
  BY DEF Typed, Settings, TunObjects, ShutdownObjects, Control, Progress, HasRun, AllRan, Proxy,
     Starting, Over, Leaving, SetProxy
<1>6. Untouched'
  BY DEF Typed, Settings, TunObjects, ShutdownObjects, Control, Untouched, Starting, Over,
     SetProxy
<1>7. ThreadHasSession'
  BY DEF Typed, Settings, TunObjects, ShutdownObjects, ThreadHasSession, SetProxy
<1> QED
  BY <1>1, <1>2, <1>3, <1>4, <1>5, <1>6, <1>7

\* Signals are awaited, and io.run begins.
LEMMA StartSignalsInv ==
  ASSUME IndInv, StartSignals
  PROVE  IndInv'
<1> USE DEF IndInv
<1>1. Typed'
  <2>1. tun' \in TunObjects
    BY DEF Typed, TunObjects, StartSignals
  <2>2. sd' \in ShutdownObjects
    BY DEF Typed, ShutdownObjects, StartSignals
  <2>3. ready' \in Seq(Posted)
    BY QueueFacts DEF Typed, Posted, StartSignals
  <2>4. ran' \in [Callbacks -> {0, 1}]
    BY DEF Typed, Callbacks, StartSignals
  <2> QED
    BY <2>1, <2>2, <2>3, <2>4 DEF Typed, Starting, Over, StartSignals
<1>2. Control'
  BY DEF Typed, TunObjects, ShutdownObjects, Control, Starting, Over, StartSignals
<1>3. Progress'
  BY DEF Typed, TunObjects, ShutdownObjects, Control, Progress, Registered, HasRun,
     AllRan, Leaving, Starting, Over, Callbacks, StartSignals
<1>4. Routes'
  BY DEF Typed, TunObjects, ShutdownObjects, Control, Progress, HasRun, AllRan,
     Routes, Untouched, Starting, Over, Leaving, StartSignals
<1>5. Proxy'
  BY DEF Typed, TunObjects, ShutdownObjects, Control, Progress, HasRun, AllRan, Proxy,
     Starting, Over, Leaving, StartSignals
<1>6. Untouched'
  BY DEF Typed, TunObjects, ShutdownObjects, Control, Untouched, Starting, Over,
     StartSignals
<1>7. ThreadHasSession'
  BY DEF Typed, TunObjects, ShutdownObjects, ThreadHasSession, StartSignals
<1> QED
  BY <1>1, <1>2, <1>3, <1>4, <1>5, <1>6, <1>7

\* TunInbound::start, which may throw after any of its calls.
LEMMA TunStartInv ==
  ASSUME IndInv, TunStart
  PROVE  IndInv'
<1> USE DEF IndInv
<1>1. Typed'
  <2>0. PICK stage \in Stages, undone \in BOOLEAN :
           /\ tun' = [tun EXCEPT
                 !.adapter = AdapterOpened(stage),
                 !.session = SessionStarted(stage),
                 !.routes_configured_ = RoutesConfigured(stage),
                 !.acceptor = RoutesConfigured(stage),
                 !.thread = IF stage = "done" THEN "running" ELSE "none"]
           /\ os' = [os EXCEPT
                 !.address = RoutesConfigured(stage) \/ AddressLeft(stage, undone),
                 !.route = RoutesConfigured(stage)]
    BY DEF TunStart
  <2>1. /\ AdapterOpened(stage) \in BOOLEAN /\ SessionStarted(stage) \in BOOLEAN
        /\ RoutesConfigured(stage) \in BOOLEAN
        /\ RoutesConfigured(stage) \/ AddressLeft(stage, undone) \in BOOLEAN
    BY DEF AdapterOpened, SessionStarted, RoutesConfigured, AddressLeft
  <2>2. tun' \in TunObjects
    <3>1. PICK a \in BOOLEAN, s \in BOOLEAN, r \in BOOLEAN,
               t \in {"none", "running", "spinning", "exited"} :
             /\ a = AdapterOpened(stage) /\ s = SessionStarted(stage)
             /\ r = RoutesConfigured(stage)
             /\ t = IF stage = "done" THEN "running" ELSE "none"
      BY <2>1
    <3>2. tun' = [tun EXCEPT !.adapter = a, !.session = s, !.routes_configured_ = r,
                             !.acceptor = r, !.thread = t]
      BY <2>0, <3>1
    <3>3. tun \in TunObjects
      BY DEF Typed
    <3> HIDE DEF IndInv
    <3> QED
      BY <3>2, <3>3 DEF TunObjects
  <2>3. os' \in Settings
    <3>1. os \in Settings
      BY DEF Typed
    <3> HIDE DEF IndInv
    <3> QED
      BY <2>0, <2>1, <3>1 DEF Settings
  <2>4. ready' \in Seq(Posted)
    BY QueueFacts DEF Typed, TunStart
  <2> QED
    BY <2>2, <2>3, <2>4 DEF Typed, TunStart
<1>2. Control'
  BY DEF Typed, TunObjects, ShutdownObjects, Control, Starting, Over, TunStart,
     Stages, AdapterOpened, SessionStarted, RoutesConfigured, AddressLeft
<1>3. Progress'
  BY DEF Typed, TunObjects, ShutdownObjects, Control, Progress, Registered, HasRun,
     AllRan, Leaving, Starting, Over, Callbacks, TunStart, Stages, AdapterOpened,
     SessionStarted, RoutesConfigured, AddressLeft
<1>4. Routes'
  BY DEF Typed, TunObjects, ShutdownObjects, Control, Progress, HasRun, AllRan,
     Routes, Untouched, Starting, Over, Leaving, TunStart, Stages, AdapterOpened,
     SessionStarted, RoutesConfigured, AddressLeft
<1>5. Proxy'
  BY DEF Typed, TunObjects, ShutdownObjects, Control, Progress, HasRun, AllRan, Proxy,
     Starting, Over, Leaving, TunStart, Stages, AdapterOpened, SessionStarted,
     RoutesConfigured, AddressLeft
<1>6. Untouched'
  BY DEF Typed, TunObjects, ShutdownObjects, Control, Untouched, Starting, Over,
     TunStart, Stages, AdapterOpened, SessionStarted, RoutesConfigured, AddressLeft
<1>7. ThreadHasSession'
  BY DEF Typed, TunObjects, ShutdownObjects, ThreadHasSession, TunStart, Stages,
     AdapterOpened, SessionStarted, RoutesConfigured, AddressLeft
<1> QED
  BY <1>1, <1>2, <1>3, <1>4, <1>5, <1>6, <1>7

\* The start of the DNS inbound touches nothing the invariant is about.
LEMMA DnsStartInv ==
  ASSUME IndInv, DnsStart
  PROVE  IndInv'
<1> USE DEF IndInv
<1>1. Typed'
  BY DEF Settings, Typed, TunObjects, ShutdownObjects, Posted, Starting, Over, DnsStart
<1>2. Control'
  BY DEF Typed, TunObjects, ShutdownObjects, Control, Starting, Over, DnsStart
<1>3. Progress'
  BY DEF Typed, TunObjects, ShutdownObjects, Control, Progress, Registered, HasRun,
     AllRan, Leaving, Starting, Over, Callbacks, DnsStart
<1>4. Routes'
  BY DEF Typed, TunObjects, ShutdownObjects, Control, Progress, HasRun, AllRan,
     Routes, Untouched, Starting, Over, Leaving, DnsStart
<1>5. Proxy'
  BY DEF Typed, TunObjects, ShutdownObjects, Control, Progress, HasRun, AllRan, Proxy,
     Starting, Over, Leaving, DnsStart
<1>6. Untouched'
  BY DEF Typed, TunObjects, ShutdownObjects, Control, Untouched, Starting, Over,
     DnsStart
<1>7. ThreadHasSession'
  BY DEF Typed, TunObjects, ShutdownObjects, ThreadHasSession, DnsStart
<1> QED
  BY <1>1, <1>2, <1>3, <1>4, <1>5, <1>6, <1>7

\* request_stop, posted or called for a signal.
LEMMA RequestStopInv ==
  ASSUME IndInv, RequestStop \/ SignalHandler
  PROVE  IndInv'
<1> USE DEF IndInv
<1>1. Typed'
  <2>1. tun' \in TunObjects
    BY DEF Typed, TunObjects, RequestStop, SignalHandler, BeginStop, ShouldStop
  <2>2. sd' \in ShutdownObjects
    BY DEF Typed, ShutdownObjects, RequestStop, SignalHandler, BeginStop, ShouldStop
  <2>3. ready' \in Seq(Posted)
    <3>1. ready \in Seq(Posted)
      BY DEF Typed
    <3>2. ready' = ready \/ (ready # << >> /\ ready' = Tail(ready))
      BY DEF RequestStop, SignalHandler
    <3> HIDE DEF IndInv
    <3> QED
      BY <3>1, <3>2, QueueFacts
  <2>4. ran' \in [Callbacks -> {0, 1}]
    BY DEF Typed, Callbacks, RequestStop, SignalHandler, BeginStop, ShouldStop
  <2> QED
    BY <2>1, <2>2, <2>3, <2>4 DEF Typed, Starting, Over, RequestStop, SignalHandler,
       BeginStop, ShouldStop
<1>2. Control'
  <2>1. \A i \in DOMAIN ready' :
           ready'[i] # "tun_start" \/ \E j \in DOMAIN ready : ready'[i] = ready[j]
    BY NoNewStart DEF RequestStop, SignalHandler, BeginStop, ShouldStop
  <2> QED
    BY <2>1 DEF Typed, TunObjects, ShutdownObjects, Control, Starting, Over,
       RequestStop, SignalHandler, BeginStop, ShouldStop
<1>3. Progress'
  BY DEF Typed, TunObjects, ShutdownObjects, Control, Progress, Registered, HasRun,
     AllRan, Leaving, Starting, Over, Callbacks, RequestStop, SignalHandler,
     BeginStop, ShouldStop
<1>4. Routes'
  BY DEF Typed, TunObjects, ShutdownObjects, Control, Progress, HasRun, AllRan,
     Routes, Untouched, Starting, Over, Leaving, RequestStop, SignalHandler,
     BeginStop, ShouldStop
<1>5. Proxy'
  BY DEF Typed, TunObjects, ShutdownObjects, Control, Progress, HasRun, AllRan, Proxy,
     Starting, Over, Leaving, RequestStop, SignalHandler, BeginStop, ShouldStop
<1>6. Untouched'
  BY DEF Typed, TunObjects, ShutdownObjects, Control, Untouched, Starting, Over,
     RequestStop, SignalHandler, BeginStop, ShouldStop
<1>7. ThreadHasSession'
  BY DEF Typed, TunObjects, ShutdownObjects, ThreadHasSession, RequestStop,
     SignalHandler, BeginStop, ShouldStop
<1> QED
  BY <1>1, <1>2, <1>3, <1>4, <1>5, <1>6, <1>7

\* What stop does, called by the callback or by the destructor: no route or
\* address is left that the system did not refuse to delete, and the thread
\* and its session are as they were.
LEMMA TunStopFacts ==
  ASSUME IndInv, NEW m, NEW n, TunStop(m, n)
  PROVE  /\ tun' \in TunObjects
         /\ tun'.made = tun.made /\ tun'.thread = tun.thread
         /\ tun'.session = tun.session /\ ~tun'.routes_configured_
         /\ tun.made \/ tun.stopping_ => tun'.stopping_
         /\ os' \in Settings /\ os'.proxy = os.proxy
         /\ os'.route => os.route /\ "route" \in failed'
         /\ os'.address => os.address /\ "address" \in failed'
         /\ failed \subseteq failed'
<1>1. /\ tun \in TunObjects /\ os \in Settings
      /\ os.route => tun.routes_configured_ \/ "route" \in failed
      /\ os.address => tun.routes_configured_ \/ "address" \in failed
      /\ tun.routes_configured_ => tun.made /\ ~tun.stopping_
  BY DEF IndInv, Typed, Routes
<1>2. CASE ~tun.made \/ tun.stopping_
  <2>1. tun' = tun /\ os' = os /\ failed' = failed
    BY <1>2 DEF TunStop
  <2> QED
    BY <1>1, <1>2, <2>1 DEF TunObjects
<1>3. CASE tun.made /\ ~tun.stopping_
  <2>1. tun' = [tun EXCEPT !.stopping_ = TRUE, !.acceptor = FALSE,
                           !.routes_configured_ = FALSE]
    BY <1>3 DEF TunStop
  <2>2. /\ tun' \in TunObjects
        /\ tun'.made = tun.made /\ tun'.thread = tun.thread
        /\ tun'.session = tun.session /\ ~tun'.routes_configured_
        /\ tun'.stopping_
    BY <1>1, <2>1 DEF TunObjects
  <2>3. CASE ~tun.routes_configured_
    <3>1. os' = os /\ failed' = failed
      BY <1>3, <2>3 DEF TunStop, CleanupOnStop
    <3> QED
      BY <1>1, <2>2, <2>3, <3>1
  <2>4. CASE tun.routes_configured_
    <3>1. PICK gone \in SUBSET {"route", "address"} :
             /\ os' = [os EXCEPT !.route = @ /\ "route" \notin gone,
                                 !.address = @ /\ "address" \notin gone]
             /\ failed' = failed \cup ({"route", "address"} \ gone)
      BY <1>3, <2>4 DEF TunStop, CleanupOnStop, CleanupRoutes
    <3>2. /\ os' \in Settings /\ os'.proxy = os.proxy
          /\ os'.route <=> os.route /\ "route" \notin gone
          /\ os'.address <=> os.address /\ "address" \notin gone
      BY <1>1, <3>1 DEF Settings
    <3>3. /\ failed \subseteq failed'
          /\ "route" \notin gone => "route" \in failed'
          /\ "address" \notin gone => "address" \in failed'
      BY <3>1
    <3> QED
      BY <2>2, <3>2, <3>3
  <2> QED
    BY <2>3, <2>4
<1> QED
  BY <1>2, <1>3

\* The first callback stops the TUN inbound, up to the join.
LEMMA StopTunInv ==
  ASSUME IndInv, StopTun
  PROVE  IndInv'
<1>1. /\ main = "callbacks" /\ main' = "join" /\ tun.made
      /\ sd.callbacks_ # << >> /\ Head(sd.callbacks_) = "inbounds"
      /\ UNCHANGED << cfg, code, listening, ready, sd, console, events, ran, past >>
  BY DEF StopTun, TunStop
<1>2. /\ tun' \in TunObjects
      /\ tun'.made = tun.made /\ tun'.thread = tun.thread
      /\ tun'.session = tun.session /\ ~tun'.routes_configured_
      /\ tun'.stopping_
      /\ os' \in Settings /\ os'.proxy = os.proxy
      /\ os'.route => "route" \in failed'
      /\ os'.address => "address" \in failed'
      /\ failed \subseteq failed'
  BY <1>1, TunStopFacts DEF StopTun
<1>3. sd.callbacks_ = Registered /\ HasRun(0, 0)
  BY <1>1, HeadTells DEF IndInv, Typed
<1>4. Typed'
  BY <1>1, <1>2 DEF IndInv, Typed
<1>5. Control'
  BY <1>1, <1>2 DEF IndInv, Control, Starting, Over
<1>6. Progress'
  BY <1>1, <1>3 DEF Progress, Registered, HasRun, Leaving, Starting
<1>7. Routes'
  BY <1>1, <1>2, <1>3 DEF Routes, HasRun, Over
<1>8. Proxy'
  BY <1>1, <1>2, <1>3 DEF IndInv, Control, Proxy, HasRun, Starting, Over
<1>9. Untouched'
  BY <1>1 DEF IndInv, Control, Untouched, Starting, Over
<1>10. ThreadHasSession'
  BY <1>2 DEF IndInv, ThreadHasSession
<1> QED
  BY <1>4, <1>5, <1>6, <1>7, <1>8, <1>9, <1>10 DEF IndInv

\* The join returns once the packet thread has exited.
LEMMA JoinInStopInv ==
  ASSUME IndInv, JoinInStop
  PROVE  IndInv'
<1> USE DEF IndInv
<1>1. Typed'
  BY DEF Settings, Typed, TunObjects, ShutdownObjects, Posted, Starting, Over, JoinInStop
<1>2. Control'
  BY DEF Typed, TunObjects, ShutdownObjects, Control, Starting, Over, JoinInStop
<1>3. Progress'
  BY DEF Typed, TunObjects, ShutdownObjects, Control, Progress, Registered, HasRun,
     AllRan, Leaving, Starting, Over, Callbacks, JoinInStop
<1>4. Routes'
  BY DEF Typed, TunObjects, ShutdownObjects, Control, Progress, HasRun, AllRan,
     Routes, Untouched, Starting, Over, Leaving, JoinInStop
<1>5. Proxy'
  BY DEF Typed, TunObjects, ShutdownObjects, Control, Progress, HasRun, AllRan, Proxy,
     Starting, Over, Leaving, JoinInStop
<1>6. Untouched'
  BY DEF Typed, TunObjects, ShutdownObjects, Control, Untouched, Starting, Over,
     JoinInStop
<1>7. ThreadHasSession'
  BY DEF Typed, TunObjects, ShutdownObjects, ThreadHasSession, JoinInStop
<1> QED
  BY <1>1, <1>2, <1>3, <1>4, <1>5, <1>6, <1>7

\* The first callback returns.
LEMMA InboundsStoppedInv ==
  ASSUME IndInv, InboundsStopped
  PROVE  IndInv'
<1> USE DEF IndInv
<1>1. Typed'
  <2>1. tun' \in TunObjects
    BY DEF Typed, TunObjects, InboundsStopped
  <2>2. sd' \in ShutdownObjects
    BY CallbackFacts DEF Typed, ShutdownObjects, InboundsStopped, Progress,
       Registered, Callbacks
  <2>3. ready' \in Seq(Posted)
    BY QueueFacts DEF Typed, Posted, InboundsStopped
  <2>4. ran' \in [Callbacks -> {0, 1}]
    BY HeadTells DEF Typed, Callbacks, InboundsStopped, HasRun
  <2> QED
    BY <2>1, <2>2, <2>3, <2>4 DEF Typed, Starting, Over, InboundsStopped
<1>2. Control'
  BY DEF Typed, TunObjects, ShutdownObjects, Control, Starting, Over, InboundsStopped
<1>3. Progress'
  <2>1. sd.callbacks_ = Registered /\ HasRun(0, 0)
    BY HeadTells DEF InboundsStopped
  <2>2. HasRun(1, 0)'
    BY <2>1 DEF Typed, HasRun, Callbacks, InboundsStopped
  <2>3. sd'.callbacks_ = Tail(Registered)
    BY <2>1 DEF Typed, ShutdownObjects, InboundsStopped
  <2>4. Tail(Registered) = IF cfg.proxy THEN << "proxy" >> ELSE << >>
    BY CallbackFacts DEF Registered
  <2> QED
    BY <2>2, <2>3, <2>4 DEF Progress, HasRun, AllRan, Leaving, Starting, InboundsStopped
<1>4. Routes'
  BY DEF Typed, TunObjects, ShutdownObjects, Control, Progress, HasRun, AllRan,
     Routes, Untouched, Starting, Over, Leaving, InboundsStopped
<1>5. Proxy'
  BY DEF Typed, TunObjects, ShutdownObjects, Control, Progress, HasRun, AllRan, Proxy,
     Starting, Over, Leaving, InboundsStopped
<1>6. Untouched'
  BY DEF Typed, TunObjects, ShutdownObjects, Control, Untouched, Starting, Over,
     InboundsStopped
<1>7. ThreadHasSession'
  BY DEF Typed, TunObjects, ShutdownObjects, ThreadHasSession, InboundsStopped
<1> QED
  BY <1>1, <1>2, <1>3, <1>4, <1>5, <1>6, <1>7

\* The second callback takes the proxy setting back, or is refused.
LEMMA UnsetProxyInv ==
  ASSUME IndInv, UnsetProxy
  PROVE  IndInv'
<1> USE DEF IndInv
<1>1. Typed'
  <2>1. tun' \in TunObjects
    BY DEF Typed, Settings, TunObjects, UnsetProxy
  <2>2. sd' \in ShutdownObjects
    BY CallbackFacts DEF Typed, Settings, ShutdownObjects, UnsetProxy, Progress, Registered,
       Callbacks
  <2>3. ready' \in Seq(Posted)
    BY QueueFacts DEF Typed, Settings, Posted, UnsetProxy
  <2>4. ran' \in [Callbacks -> {0, 1}]
    BY HeadTells DEF Typed, Settings, Callbacks, UnsetProxy, HasRun
  <2> QED
    BY <2>1, <2>2, <2>3, <2>4 DEF Typed, Settings, Starting, Over, UnsetProxy
<1>2. Control'
  BY DEF Typed, Settings, TunObjects, ShutdownObjects, Control, Starting, Over, UnsetProxy
<1>3. Progress'
  BY DEF Typed, Settings, TunObjects, ShutdownObjects, Control, Progress, Registered, HasRun,
     AllRan, Leaving, Starting, Over, Callbacks, UnsetProxy
<1>4. Routes'
  BY DEF Typed, Settings, TunObjects, ShutdownObjects, Control, Progress, HasRun, AllRan,
     Routes, Untouched, Starting, Over, Leaving, UnsetProxy
<1>5. Proxy'
  BY DEF Typed, Settings, TunObjects, ShutdownObjects, Control, Progress, HasRun, AllRan, Proxy,
     Starting, Over, Leaving, UnsetProxy
<1>6. Untouched'
  BY DEF Typed, Settings, TunObjects, ShutdownObjects, Control, Untouched, Starting, Over,
     UnsetProxy
<1>7. ThreadHasSession'
  BY DEF Typed, Settings, TunObjects, ShutdownObjects, ThreadHasSession, UnsetProxy
<1> QED
  BY <1>1, <1>2, <1>3, <1>4, <1>5, <1>6, <1>7

\* io.run returns when no callback is left.
LEMMA FinishStopInv ==
  ASSUME IndInv, FinishStop
  PROVE  IndInv'
<1> USE DEF IndInv
<1>1. Typed'
  <2>1. tun' \in TunObjects
    BY DEF Typed, TunObjects, FinishStop
  <2>2. sd' \in ShutdownObjects
    BY DEF Typed, ShutdownObjects, FinishStop
  <2>3. ready' \in Seq(Posted)
    BY QueueFacts DEF Typed, Posted, FinishStop
  <2>4. ran' \in [Callbacks -> {0, 1}]
    BY DEF Typed, Callbacks, FinishStop
  <2> QED
    BY <2>1, <2>2, <2>3, <2>4 DEF Typed, Starting, Over, FinishStop
<1>2. Control'
  BY DEF Typed, TunObjects, ShutdownObjects, Control, Starting, Over, FinishStop
<1>3. Progress'
  BY DEF Typed, TunObjects, ShutdownObjects, Control, Progress, Registered, HasRun,
     AllRan, Leaving, Starting, Over, Callbacks, FinishStop
<1>4. Routes'
  BY DEF Typed, TunObjects, ShutdownObjects, Control, Progress, HasRun, AllRan,
     Routes, Untouched, Starting, Over, Leaving, FinishStop
<1>5. Proxy'
  BY DEF Typed, TunObjects, ShutdownObjects, Control, Progress, HasRun, AllRan, Proxy,
     Starting, Over, Leaving, FinishStop
<1>6. Untouched'
  BY DEF Typed, TunObjects, ShutdownObjects, Control, Untouched, Starting, Over,
     FinishStop
<1>7. ThreadHasSession'
  BY DEF Typed, TunObjects, ShutdownObjects, ThreadHasSession, FinishStop
<1> QED
  BY <1>1, <1>2, <1>3, <1>4, <1>5, <1>6, <1>7

\* The destructor of the TUN inbound stops it if nobody has.
LEMMA DestroyTunInv ==
  ASSUME IndInv, DestroyTun
  PROVE  IndInv'
<1>1. /\ main = "destroy" /\ main' = "destroy_join"
      /\ UNCHANGED << cfg, code, listening, ready, sd, console, events, ran, past >>
  BY DEF DestroyTun, TunStop
<1>2. /\ tun' \in TunObjects
      /\ tun'.made = tun.made /\ tun'.thread = tun.thread
      /\ tun'.session = tun.session /\ ~tun'.routes_configured_
      /\ tun.made \/ tun.stopping_ => tun'.stopping_
      /\ os' \in Settings /\ os'.proxy = os.proxy
      /\ os'.route => os.route /\ "route" \in failed'
      /\ os'.address => os.address /\ "address" \in failed'
      /\ failed \subseteq failed'
  BY TunStopFacts DEF DestroyTun
<1>4. Typed'
  BY <1>1, <1>2 DEF IndInv, Typed
<1>5. Control'
  BY <1>1, <1>2 DEF IndInv, Control, Starting, Over
<1>6. Progress'
  BY <1>1 DEF IndInv, Progress, HasRun, AllRan, Leaving, Starting
<1>7. Routes'
  BY <1>1, <1>2 DEF IndInv, Routes, Over
<1>8. Proxy'
  BY <1>1, <1>2 DEF IndInv, Proxy, Starting
<1>9. Untouched'
  BY <1>1, <1>2 DEF IndInv, Untouched, Starting
<1>10. ThreadHasSession'
  BY <1>2 DEF IndInv, ThreadHasSession
<1> QED
  BY <1>4, <1>5, <1>6, <1>7, <1>8, <1>9, <1>10 DEF IndInv

\* The join in the destructor, the end of the adapter, and the other locals.
LEMMA DestroyRestInv ==
  ASSUME IndInv, DestroyRest
  PROVE  IndInv'
<1> USE DEF IndInv
<1>1. Typed'
  BY DEF Settings, Typed, TunObjects, ShutdownObjects, Posted, Starting, Over, DestroyRest,
     ThreadOver
<1>2. Control'
  BY DEF Typed, TunObjects, ShutdownObjects, Control, Starting, Over, DestroyRest,
     ThreadOver
<1>3. Progress'
  BY DEF Typed, TunObjects, ShutdownObjects, Control, Progress, Registered, HasRun,
     AllRan, Leaving, Starting, Over, Callbacks, DestroyRest, ThreadOver
<1>4. Routes'
  BY DEF Typed, TunObjects, ShutdownObjects, Control, Progress, HasRun, AllRan,
     Routes, Untouched, Starting, Over, Leaving, DestroyRest, ThreadOver
<1>5. Proxy'
  BY DEF Typed, TunObjects, ShutdownObjects, Control, Progress, HasRun, AllRan, Proxy,
     Starting, Over, Leaving, DestroyRest, ThreadOver
<1>6. Untouched'
  BY DEF Typed, TunObjects, ShutdownObjects, Control, Untouched, Starting, Over,
     DestroyRest, ThreadOver
<1>7. ThreadHasSession'
  BY DEF Typed, TunObjects, ShutdownObjects, ThreadHasSession, DestroyRest, ThreadOver
<1> QED
  BY <1>1, <1>2, <1>3, <1>4, <1>5, <1>6, <1>7

\* The process ends.
LEMMA ProcessExitInv ==
  ASSUME IndInv, ProcessExit
  PROVE  IndInv'
<1> USE DEF IndInv
<1>1. Typed'
  BY DEF Settings, Typed, TunObjects, ShutdownObjects, Posted, Starting, Over, ProcessExit
<1>2. Control'
  BY DEF Typed, TunObjects, ShutdownObjects, Control, Starting, Over, ProcessExit
<1>3. Progress'
  BY DEF Typed, TunObjects, ShutdownObjects, Control, Progress, Registered, HasRun,
     AllRan, Leaving, Starting, Over, Callbacks, ProcessExit
<1>4. Routes'
  BY DEF Typed, TunObjects, ShutdownObjects, Control, Progress, HasRun, AllRan,
     Routes, Untouched, Starting, Over, Leaving, ProcessExit
<1>5. Proxy'
  BY DEF Typed, TunObjects, ShutdownObjects, Control, Progress, HasRun, AllRan, Proxy,
     Starting, Over, Leaving, ProcessExit
<1>6. Untouched'
  BY DEF Typed, TunObjects, ShutdownObjects, Control, Untouched, Starting, Over,
     ProcessExit
<1>7. ThreadHasSession'
  BY DEF Typed, TunObjects, ShutdownObjects, ThreadHasSession, ProcessExit
<1> QED
  BY <1>1, <1>2, <1>3, <1>4, <1>5, <1>6, <1>7

\* The packet thread ends, fails or is caught in the port search.
LEMMA PacketThreadInv ==
  ASSUME IndInv, PacketThreadEnds \/ PacketThreadFails \/ PacketThreadSpins
  PROVE  IndInv'
<1> USE DEF IndInv
<1>1. Typed'
  BY DEF Settings, Typed, TunObjects, ShutdownObjects, Posted, Starting, Over, PacketThreadEnds,
     PacketThreadFails, PacketThreadSpins
<1>2. Control'
  BY DEF Typed, TunObjects, ShutdownObjects, Control, Starting, Over,
     PacketThreadEnds, PacketThreadFails, PacketThreadSpins
<1>3. Progress'
  BY DEF Typed, TunObjects, ShutdownObjects, Control, Progress, Registered, HasRun,
     AllRan, Leaving, Starting, Over, Callbacks, PacketThreadEnds, PacketThreadFails,
     PacketThreadSpins
<1>4. Routes'
  BY DEF Typed, TunObjects, ShutdownObjects, Control, Progress, HasRun, AllRan,
     Routes, Untouched, Starting, Over, Leaving, PacketThreadEnds, PacketThreadFails,
     PacketThreadSpins
<1>5. Proxy'
  BY DEF Typed, TunObjects, ShutdownObjects, Control, Progress, HasRun, AllRan, Proxy,
     Starting, Over, Leaving, PacketThreadEnds, PacketThreadFails, PacketThreadSpins
<1>6. Untouched'
  BY DEF Typed, TunObjects, ShutdownObjects, Control, Untouched, Starting, Over,
     PacketThreadEnds, PacketThreadFails, PacketThreadSpins
<1>7. ThreadHasSession'
  BY DEF Typed, TunObjects, ShutdownObjects, ThreadHasSession, PacketThreadEnds,
     PacketThreadFails, PacketThreadSpins
<1> QED
  BY <1>1, <1>2, <1>3, <1>4, <1>5, <1>6, <1>7

\* A signal or a console event arrives.
LEMMA SignalInv ==
  ASSUME IndInv, Signal \/ ConsoleEvent
  PROVE  IndInv'
<1> USE DEF IndInv
<1>1. Typed'
  BY DEF Settings, Typed, TunObjects, ShutdownObjects, Posted, Starting, Over, Signal,
     ConsoleEvent
<1>2. Control'
  BY DEF Typed, TunObjects, ShutdownObjects, Control, Starting, Over, Signal,
     ConsoleEvent
<1>3. Progress'
  BY DEF Typed, TunObjects, ShutdownObjects, Control, Progress, Registered, HasRun,
     AllRan, Leaving, Starting, Over, Callbacks, Signal, ConsoleEvent
<1>4. Routes'
  BY DEF Typed, TunObjects, ShutdownObjects, Control, Progress, HasRun, AllRan,
     Routes, Untouched, Starting, Over, Leaving, Signal, ConsoleEvent
<1>5. Proxy'
  BY DEF Typed, TunObjects, ShutdownObjects, Control, Progress, HasRun, AllRan, Proxy,
     Starting, Over, Leaving, Signal, ConsoleEvent
<1>6. Untouched'
  BY DEF Typed, TunObjects, ShutdownObjects, Control, Untouched, Starting, Over,
     Signal, ConsoleEvent
<1>7. ThreadHasSession'
  BY DEF Typed, TunObjects, ShutdownObjects, ThreadHasSession, Signal, ConsoleEvent
<1> QED
  BY <1>1, <1>2, <1>3, <1>4, <1>5, <1>6, <1>7

\* A listener or the DNS inbound is stopped.
LEMMA StopListenerInv ==
  ASSUME IndInv, \E l \in Sockets : StopListener(l)
  PROVE  IndInv'
<1> USE DEF IndInv
<1>1. Typed'
  BY DEF Settings, Typed, TunObjects, ShutdownObjects, Posted, Starting, Over, StopListener
<1>2. Control'
  BY DEF Typed, TunObjects, ShutdownObjects, Control, Starting, Over, StopListener
<1>3. Progress'
  BY DEF Typed, TunObjects, ShutdownObjects, Control, Progress, Registered, HasRun,
     AllRan, Leaving, Starting, Over, Callbacks, StopListener
<1>4. Routes'
  BY DEF Typed, TunObjects, ShutdownObjects, Control, Progress, HasRun, AllRan,
     Routes, Untouched, Starting, Over, Leaving, StopListener
<1>5. Proxy'
  BY DEF Typed, TunObjects, ShutdownObjects, Control, Progress, HasRun, AllRan, Proxy,
     Starting, Over, Leaving, StopListener
<1>6. Untouched'
  BY DEF Typed, TunObjects, ShutdownObjects, Control, Untouched, Starting, Over,
     StopListener
<1>7. ThreadHasSession'
  BY DEF Typed, TunObjects, ShutdownObjects, ThreadHasSession, StopListener
<1> QED
  BY <1>1, <1>2, <1>3, <1>4, <1>5, <1>6, <1>7

\* A console handler thread reads g_shutdown, or calls it.
LEMMA ConsoleInv ==
  ASSUME IndInv, \E i \in DOMAIN console : ConsoleRead(i) \/ ConsoleCall(i)
  PROVE  IndInv'
<1> USE DEF IndInv
<1>1. Typed'
  <2>1. tun' \in TunObjects
    BY DEF Typed, TunObjects, ConsoleRead, ConsoleCall
  <2>2. sd' \in ShutdownObjects
    BY DEF Typed, ShutdownObjects, ConsoleRead, ConsoleCall
  <2>3. ready' \in Seq(Posted)
    BY QueueFacts DEF Typed, Posted, ConsoleRead, ConsoleCall
  <2>4. ran' \in [Callbacks -> {0, 1}]
    BY DEF Typed, Callbacks, ConsoleRead, ConsoleCall
  <2> QED
    BY <2>1, <2>2, <2>3, <2>4 DEF Typed, Starting, Over, ConsoleRead, ConsoleCall
<1>2. Control'
  <2>1. \A i \in DOMAIN ready' :
           ready'[i] # "tun_start" \/ \E j \in DOMAIN ready : ready'[i] = ready[j]
    BY NoNewStart DEF ConsoleRead, ConsoleCall
  <2> QED
    BY <2>1 DEF Typed, TunObjects, ShutdownObjects, Control, Starting, Over,
       ConsoleRead, ConsoleCall
<1>3. Progress'
  BY DEF Typed, TunObjects, ShutdownObjects, Control, Progress, Registered, HasRun,
     AllRan, Leaving, Starting, Over, Callbacks, ConsoleRead, ConsoleCall
<1>4. Routes'
  BY DEF Typed, TunObjects, ShutdownObjects, Control, Progress, HasRun, AllRan,
     Routes, Untouched, Starting, Over, Leaving, ConsoleRead, ConsoleCall
<1>5. Proxy'
  BY DEF Typed, TunObjects, ShutdownObjects, Control, Progress, HasRun, AllRan, Proxy,
     Starting, Over, Leaving, ConsoleRead, ConsoleCall
<1>6. Untouched'
  BY DEF Typed, TunObjects, ShutdownObjects, Control, Untouched, Starting, Over,
     ConsoleRead, ConsoleCall
<1>7. ThreadHasSession'
  BY DEF Typed, TunObjects, ShutdownObjects, ThreadHasSession, ConsoleRead, ConsoleCall
<1> QED
  BY <1>1, <1>2, <1>3, <1>4, <1>5, <1>6, <1>7

\* The system ends the process, and the adapter goes with it.
LEMMA KillInv ==
  ASSUME IndInv, \E i \in DOMAIN console : Kill(i)
  PROVE  IndInv'
<1> USE DEF IndInv
<1>1. Typed'
  <2>1. /\ tun \in TunObjects /\ os \in Settings
        /\ tun' = [tun EXCEPT !.thread = "none", !.adapter = FALSE, !.session = FALSE]
        /\ os' = [os EXCEPT !.address = FALSE, !.route = FALSE]
        /\ main' = "killed" /\ UNCHANGED << cfg, code, ready, sd, ran, past >>
    BY DEF Typed, Kill
  <2>2. tun' \in TunObjects
    BY <2>1 DEF TunObjects
  <2>3. os' \in Settings
    BY <2>1 DEF Settings
  <2> QED
    BY <2>1, <2>2, <2>3 DEF Typed, Over
<1>2. Control'
  BY DEF Typed, TunObjects, ShutdownObjects, Control, Starting, Over, Kill
<1>3. Progress'
  BY DEF Typed, TunObjects, ShutdownObjects, Control, Progress, Registered, HasRun,
     AllRan, Leaving, Starting, Over, Callbacks, Kill
<1>4. Routes'
  BY DEF Typed, TunObjects, ShutdownObjects, Control, Progress, HasRun, AllRan,
     Routes, Untouched, Starting, Over, Leaving, Kill
<1>5. Proxy'
  BY DEF Typed, TunObjects, ShutdownObjects, Control, Progress, HasRun, AllRan, Proxy,
     Starting, Over, Leaving, Kill
<1>6. Untouched'
  BY DEF Typed, TunObjects, ShutdownObjects, Control, Untouched, Starting, Over, Kill
<1>7. ThreadHasSession'
  BY DEF Typed, TunObjects, ShutdownObjects, ThreadHasSession, Kill
<1> QED
  BY <1>1, <1>2, <1>3, <1>4, <1>5, <1>6, <1>7

\* The next run finds the proxy setting as the killed one left it.
LEMMA RestartInv ==
  ASSUME IndInv, Restart
  PROVE  IndInv'
<1> USE DEF IndInv
<1>1. Typed'
  BY DEF Settings, Typed, TunObjects, ShutdownObjects, Posted, Starting, Over, Restart, NoTun,
     NewShutdown
<1>2. Control'
  BY DEF Typed, TunObjects, ShutdownObjects, Control, Starting, Over, Restart, NoTun,
     NewShutdown
<1>3. Progress'
  BY DEF Typed, TunObjects, ShutdownObjects, Control, Progress, Registered, HasRun,
     AllRan, Leaving, Starting, Over, Callbacks, Restart, NoTun, NewShutdown
<1>4. Routes'
  BY DEF Typed, TunObjects, ShutdownObjects, Control, Progress, HasRun, AllRan,
     Routes, Untouched, Starting, Over, Leaving, Restart, NoTun, NewShutdown
<1>5. Proxy'
  <2>1. past'.proxy = os.proxy /\ os' = os /\ ran'["proxy"] = 0
    BY DEF Restart, Callbacks
  <2> QED
    BY <2>1 DEF Proxy
<1>6. Untouched'
  BY DEF Typed, Routes, Untouched, Over, Restart, NoTun
<1>7. ThreadHasSession'
  BY DEF Typed, TunObjects, ShutdownObjects, ThreadHasSession, Restart, NoTun,
     NewShutdown
<1> QED
  BY <1>1, <1>2, <1>3, <1>4, <1>5, <1>6, <1>7

\* Before main has run.
LEMMA InitInv == Init => IndInv
<1> SUFFICES ASSUME Init PROVE IndInv
  OBVIOUS
<1> USE DEF Init
<1>1. Typed
  <2>1. tun \in TunObjects /\ sd \in ShutdownObjects
    BY CallbackFacts DEF TunObjects, ShutdownObjects, NoTun, NewShutdown
  <2>2. ready \in Seq(Posted) /\ ran \in [Callbacks -> {0, 1}]
    OBVIOUS
  <2> QED
    BY <2>1, <2>2 DEF Typed, Settings, Starting
<1>2. Control /\ Progress
  BY DEF Control, Progress, HasRun, Leaving, Starting, Callbacks, NoTun, NewShutdown
<1>3. Routes /\ Proxy /\ Untouched /\ ThreadHasSession
  BY DEF Routes, Proxy, Untouched, ThreadHasSession, Over, Callbacks, NoTun
<1> QED
  BY <1>1, <1>2, <1>3 DEF IndInv

\* Every step keeps the invariant.
LEMMA NextInv == IndInv /\ [Next]_vars => IndInv'
<1> SUFFICES ASSUME IndInv, [Next]_vars PROVE IndInv'
  OBVIOUS
<1>1. CASE MainStep
  BY <1>1, StartTunInv, ListenInv, MakeDnsInv, RegisterInboundsInv, SetProxyInv,
     StartSignalsInv, TunStartInv, DnsStartInv, RequestStopInv, StopListenerInv,
     StopTunInv, JoinInStopInv, InboundsStoppedInv, UnsetProxyInv, FinishStopInv,
     DestroyTunInv, DestroyRestInv, ProcessExitInv
     DEF MainStep
<1>2. CASE PacketThreadEnds \/ PacketThreadFails \/ PacketThreadSpins
  BY <1>2, PacketThreadInv
<1>3. CASE Signal \/ ConsoleEvent \/ ConsoleStep
  BY <1>3, SignalInv, ConsoleInv DEF ConsoleStep
<1>4. CASE \/ \E i \in DOMAIN console : Kill(i)
           \/ Restart
  BY <1>4, KillInv, RestartInv
<1>5. CASE UNCHANGED vars
  BY <1>5 DEF vars, IndInv, Typed, Control, Progress, Routes, Proxy, Untouched,
     ThreadHasSession, HasRun, AllRan, Registered, Leaving
<1> QED
  BY <1>1, <1>2, <1>3, <1>4, <1>5 DEF Next

\* IndInv is an inductive invariant of Lifecycle.
LEMMA Invariant == Spec => []IndInv
<1> QED
  BY InitInv, NextInv, PTL DEF Spec

-----------------------------------------------------------------------------
(***************************************************************************)
(* The results.                                                            *)
(***************************************************************************)

\* For any listeners, events and runs: request_stop runs each registered stop
\* callback once, however many signals and console handlers ask for it, and
\* io.run does not return before all of them have run.
THEOREM LifecycleStopCallbacksRunOnce == Spec => []StopCallbacksRunOnce
<1>1. IndInv => StopCallbacksRunOnce
  BY DEF IndInv, Typed, Progress, AllRan, HasRun, StopCallbacksRunOnce
<1> QED
  BY <1>1, Invariant, PTL

\* For any listeners, events and runs: no path through start, stop, the
\* destructor or a kill ends the adapter's session under a running packet
\* thread.
THEOREM LifecycleThreadHasSession == Spec => []ThreadHasSession
<1>1. IndInv => ThreadHasSession
  BY DEF IndInv
<1> QED
  BY <1>1, Invariant, PTL

\* For any listeners, events and runs, and wherever a call to the system
\* fails: a run that ends has undone what it set, except what the system
\* refused to take back.
THEOREM LifecycleLeavesNothingBehind == Spec => []LeavesNothingBehind
<1>1. ASSUME IndInv PROVE LeavesNothingBehind
  <2> USE <1>1 DEF IndInv
  <2>1. ASSUME Leaving, code = 0
        PROVE  /\ os.proxy => "proxy" \in failed \/ (past.proxy /\ ~cfg.proxy)
               /\ os.route => "route" \in failed
               /\ os.address => "address" \in failed
               /\ listening = {}
    <3>1. AllRan
      BY <2>1 DEF Progress
    <3>2. ~tun.routes_configured_ /\ listening = {}
      BY <3>1 DEF AllRan, HasRun, Routes
    <3>3. os.proxy => "proxy" \in failed \/ (past.proxy /\ ~cfg.proxy)
      BY <3>1 DEF AllRan, HasRun, Proxy
    <3> QED
      BY <3>2, <3>3 DEF Routes
  <2>2. ASSUME code = 1
        PROVE  /\ os.proxy => past.proxy
               /\ ~os.route /\ ~os.address /\ tun.thread = "none"
    BY <2>2 DEF Proxy, Untouched
  <2> QED
    BY <2>1, <2>2 DEF LeavesNothingBehind
<1> QED
  BY <1>1, Invariant, PTL

=============================================================================
