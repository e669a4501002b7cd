--------------------------- MODULE ProxyMain_proofs ---------------------------
(***************************************************************************)
(* What is proved about the process of ProxyMain, for any number of        *)
(* connections, whichever listener tasks may die and whichever constructor *)
(* made the proxy's listener.                                              *)
(***************************************************************************)
EXTENDS ProxyMain, TLAPS

Up(l) == listener[l] \in {"spawned", "serving", "stopped", "failed"}

\* What every part of the invariant rests on: functions have their domains.
Domains ==
  /\ DOMAIN listener = Listeners /\ DOMAIN inbox = Listeners
  /\ DOMAIN finished = Listeners /\ DOMAIN joined = Listeners

\* No handle was awaited before the select.  Until its turn to be joined comes, a
\* handle whose result was taken is marked as finished; and a listener that is
\* marked, or whose turn is over, has ended.
Handles ==
  /\ main # "panicked"
  /\ main \in Starting => \A l \in Listeners : ~finished[l] /\ ~joined[l]
  /\ main \in {"select", "send", "join_proxy"} /\ joined["proxy"] => finished["proxy"]
  /\ main \in {"select", "send", "join_proxy", "join_admin"} /\ joined["admin"]
       => finished["admin"]
  /\ \A l \in Listeners : finished[l] => Ended(l)
  /\ main \in {"join_admin", "exited"} => Ended("proxy")
  /\ main = "exited" => Ended("admin")

\* A receiver becomes ready only by the broadcast as long as run is alive.
Messages ==
  /\ ~Gone => sender
  /\ \A l \in Listeners : inbox[l] => sent
  /\ \A l \in Listeners : listener[l] = "stopped" => sent

Inv == Domains /\ Handles /\ Messages

-------------------------------------------------------------------------------

LEMMA InvInit == Init => Inv
BY DEF Init, Inv, Domains, Handles, Messages, Listeners, Starting, Gone, Ended

-------------------------------------------------------------------------------
\* run up to the select

LEMMA LoadConfigKeeps == Inv /\ LoadConfig => Inv'
BY DEF LoadConfig, Inv, Domains, Handles, Messages, Listeners, Starting, Gone, Ended,
   channel, joins

\* An exit before the select.
LEMMA EarlyExitKeeps ==
  ASSUME Inv, main \in Starting, main' \in {"error", "killed"}, Exit(main'),
         UNCHANGED <<listener, inbox, sent, joins>>
  PROVE  Inv'
BY DEF Exit, Inv, Domains, Handles, Messages, Listeners, Starting, Gone, Ended, joins

\* A listener that is bound or spawned before the select.
LEMMA EarlyListenerKeeps ==
  ASSUME Inv, main \in Starting, NEW l \in Listeners, NEW s \in {"bound", "spawned"},
         main' \in Starting \cup {"select"}, listener' = [listener EXCEPT ![l] = s],
         UNCHANGED <<inbox, sender, sent, joins>>
  PROVE  Inv'
<1>1. /\ main' \notin {"panicked", "send", "join_proxy", "join_admin", "exited"}
      /\ ~Gone /\ ~Gone'
  BY DEF Starting, Gone
<1> QED BY <1>1 DEF Inv, Domains, Handles, Messages, Listeners, Ended, joins

LEMMA BindToKeeps ==
  ASSUME Inv, NEW protocols, NEW next \in {"bind_admin", "build_acceptor"},
         BindTo(protocols, next)
  PROVE  Inv'
<1>1. main = "bind_proxy" /\ main \in Starting
  BY DEF BindTo, Starting
<1>2. CASE main' = next /\ listener' = [listener EXCEPT !["proxy"] = "bound"]
           /\ UNCHANGED <<sender, conn, failure>>
  BY <1>1, <1>2, EarlyListenerKeeps DEF BindTo, Listeners, Starting
<1>3. CASE BindFails(config.listen_addr, {}) /\ UNCHANGED <<listener, default_protocol>>
  BY <1>1, <1>3, EarlyExitKeeps DEF BindTo, BindFails, Exit
<1> QED BY <1>2, <1>3 DEF BindTo

LEMMA BindProxyKeeps == Inv /\ BindProxy => Inv'
<1> SUFFICES ASSUME Inv, BindProxy PROVE Inv'
  OBVIOUS
<1>1. CASE Bind \/ BindH2c
  BY <1>1, BindToKeeps DEF Bind, BindH2c
<1>2. CASE BindTo(Protocols, "build_acceptor")
  BY <1>2, BindToKeeps
<1>3. CASE /\ main = "build_acceptor"
           /\ main' = "bind_admin"
           /\ UNCHANGED <<sender, listener, inbox, sent, joins>>
  BY <1>3 DEF Inv, Domains, Handles, Messages, Listeners, Starting, Gone, Ended, joins
<1>4. CASE /\ main = "build_acceptor"
           /\ Exit("error")
           /\ UNCHANGED <<listener, inbox, sent, joins>>
  BY <1>4, EarlyExitKeeps DEF Exit, Starting
<1> QED BY <1>1, <1>2, <1>3, <1>4 DEF BindProxy, BindWithTls

LEMMA BindAdminKeeps == Inv /\ BindAdmin => Inv'
<1> SUFFICES ASSUME Inv, BindAdmin PROVE Inv'
  OBVIOUS
<1>1. main = "bind_admin" /\ main \in Starting
  BY DEF BindAdmin, Starting
<1>2. CASE main' = "spawn_proxy" /\ listener' = [listener EXCEPT !["admin"] = "bound"]
           /\ UNCHANGED <<sender, conn, failure>>
  BY <1>1, <1>2, EarlyListenerKeeps DEF BindAdmin, Listeners, Starting
<1>3. CASE BindFails(config.metrics_addr, {config.listen_addr})
           /\ UNCHANGED <<listener, ready, config>>
  BY <1>1, <1>3, EarlyExitKeeps DEF BindAdmin, BindFails, Exit
<1> QED BY <1>2, <1>3 DEF BindAdmin

LEMMA SpawnKeeps == Inv /\ (SpawnProxy \/ SpawnAdmin) => Inv'
BY EarlyListenerKeeps DEF SpawnProxy, SpawnAdmin, Spawn, Listeners, Starting, channel

-------------------------------------------------------------------------------
\* run from the select on

LEMMA SelectKeeps ==
  Inv /\ (SelectInterrupt \/ (\E l \in Listeners : SelectTask(l)) \/ Send) => Inv'
<1> SUFFICES ASSUME Inv, SelectInterrupt \/ (\E l \in Listeners : SelectTask(l)) \/ Send
             PROVE  Inv'
  OBVIOUS
<1>1. UNCHANGED <<listener, sender>>
  BY DEF SelectInterrupt, SelectTask, Send, channel
<1> QED BY <1>1 DEF SelectInterrupt, SelectTask, Send, Inv, Domains, Handles, Messages,
           Listeners, Starting, Gone, Ended, channel, joins

LEMMA JoinKeeps == Inv /\ (JoinProxy \/ JoinAdmin) => Inv'
<1> SUFFICES ASSUME Inv, JoinProxy \/ JoinAdmin PROVE Inv'
  OBVIOUS
<1>1. /\ UNCHANGED <<listener, inbox, sent, finished>>
      /\ ~Gone /\ main \notin Starting
  BY DEF JoinProxy, JoinAdmin, Join, channel, joins, Gone, Starting
<1>2. CASE JoinProxy
  <2>1. /\ main = "join_proxy" /\ main' = "join_admin" /\ UNCHANGED sender
        /\ Ended("proxy")
        /\ joined' = joined \/ joined' = [joined EXCEPT !["proxy"] = TRUE]
    BY <1>2 DEF JoinProxy, Join, channel, joins, Inv, Handles, Listeners
  <2> QED BY <1>1, <2>1 DEF Inv, Domains, Handles, Messages, Listeners, Starting, Gone,
             Ended
<1>3. CASE JoinAdmin
  <2>1. /\ main = "join_admin" /\ main' = "exited"
        /\ Ended("admin") /\ Ended("proxy")
        /\ joined' = joined \/ joined' = [joined EXCEPT !["admin"] = TRUE]
    BY <1>3 DEF JoinAdmin, Join, Exit, joins, Inv, Handles, Listeners
  <2> QED BY <1>1, <2>1 DEF Inv, Domains, Handles, Messages, Listeners, Starting, Gone,
             Ended
<1> QED BY <1>2, <1>3

-------------------------------------------------------------------------------
\* The accept loops, the connections and the environment

\* A loop begins; one that stops or dies was serving, and its end loses nothing that
\* the invariant speaks of.
LEMMA LoopKeeps ==
  ASSUME Inv, NEW l \in Listeners, Serve(l) \/ ReceiveShutdown(l) \/ TaskFails(l)
  PROVE  Inv'
<1>1. /\ UNCHANGED <<main, sender, sent, finished, joined>>
      /\ ~Gone /\ ~Ended(l)
      /\ \E s \in {"serving", "stopped", "failed"} : listener' = [listener EXCEPT ![l] = s]
      /\ DOMAIN inbox' = DOMAIN inbox
      /\ \A m \in Listeners : inbox'[m] => inbox[m]
  BY DEF Serve, ReceiveShutdown, TaskFails, channel, joins, Ended, Inv, Domains
<1>2. Domains' /\ Handles'
  BY <1>1 DEF Inv, Domains, Handles, Listeners, Starting, Ended, Gone
<1>3. Messages'
  BY <1>1 DEF Serve, ReceiveShutdown, TaskFails, Inv, Domains, Messages, Gone
<1> QED BY <1>2, <1>3 DEF Inv

\* What happens on a connection, or to it.
LEMMA ConnectionKeeps ==
  ASSUME Inv, NEW c \in Connections, NEW l \in Listeners,
         Accept(l, c) \/ Finish(l, c) \/ HandleTlsConnection(c) \/ AdminRequest(c)
           \/ Connect(c, l)
  PROVE  Inv'
<1>1. UNCHANGED <<main, listener, inbox, sender, sent, finished, joined>>
  BY DEF Accept, Finish, HandleTlsConnection, AdminRequest, Connect, channel, joins
<1> QED BY <1>1 DEF Inv, Domains, Handles, Messages, Ended, Gone

LEMMA InterruptKeeps == Inv /\ Interrupt => Inv'
<1> SUFFICES ASSUME Inv, Interrupt PROVE Inv'
  OBVIOUS
<1>1. CASE main \notin Starting /\ UNCHANGED <<main, sender, conn>>
  BY <1>1 DEF Interrupt, Inv, Domains, Handles, Messages, Ended, Gone, joins
<1>2. CASE main \in Starting /\ Exit("killed")
  BY <1>2, EarlyExitKeeps DEF Interrupt, Exit
<1> QED BY <1>1, <1>2 DEF Interrupt

LEMMA InvStep == Inv /\ [Next]_vars => Inv'
<1> SUFFICES ASSUME Inv, [Next]_vars PROVE Inv'
  OBVIOUS
<1>1. CASE UNCHANGED vars
  BY <1>1 DEF vars, channel, joins, Inv, Domains, Handles, Messages, Ended, Gone
<1>2. CASE RunStep
  BY <1>2, LoadConfigKeeps, BindProxyKeeps, BindAdminKeeps, SpawnKeeps, SelectKeeps,
     JoinKeeps DEF RunStep
<1>3. CASE ProxyListener \/ AdminServe \/ AdminHandleConnection
  BY <1>3, LoopKeeps, ConnectionKeeps
     DEF ProxyListener, AdminServe, AdminHandleConnection, Listeners
<1>4. CASE (\E l \in Listeners : TaskFails(l))
           \/ (\E c \in Connections, l \in Listeners : Connect(c, l)) \/ Interrupt
  BY <1>4, LoopKeeps, ConnectionKeeps, InterruptKeeps
<1> QED BY <1>1, <1>2, <1>3, <1>4 DEF Next

-------------------------------------------------------------------------------

LEMMA Invariance == Spec => []Inv
BY InvInit, InvStep, PTL DEF Spec

\* Whichever of Ctrl-C and the ends of the two tasks wins the select, and however
\* they coincide, run never awaits a JoinHandle whose result it already has.
THEOREM NoSecondAwait == Spec => []NeverPolledTwice
<1>1. Inv => NeverPolledTwice
  BY DEF Inv, Handles, NeverPolledTwice
<1> QED BY <1>1, Invariance, PTL

\* run returns only when both accept loops have ended.
THEOREM ListenersAreJoined == Spec => []ExitJoinsListeners
<1>1. Inv => ExitJoinsListeners
  BY DEF Inv, Handles, ExitJoinsListeners, Listeners
<1> QED BY <1>1, Invariance, PTL

\* An accept loop that stopped has received the broadcast: as long as run lives, a
\* closed channel cannot pass for the message.
THEOREM StopsWhenTold == Spec => []StopsOnlyOnSignal
<1>1. Inv => StopsOnlyOnSignal
  BY DEF Inv, Messages, StopsOnlyOnSignal
<1> QED BY <1>1, Invariance, PTL

-------------------------------------------------------------------------------
\* The configuration

\* Whatever run loaded, its addresses are texts of the kinds Addresses lists.  When
\* it gave up over an address, the configuration it gave up on is still there and
\* holds an address that cannot be bound.
StartInv ==
  /\ config.listen_addr \in Addresses /\ config.metrics_addr \in Addresses
  /\ main = "error" =>
       \/ failure \in {"os", "tls"}
       \/ ~Bindable(config.listen_addr, {})
       \/ ~Bindable(config.metrics_addr, {config.listen_addr})

LEMMA DefaultAddresses ==
  Default.listen_addr \in Addresses /\ Default.metrics_addr \in Addresses
BY DEF Default, Addresses, Addr

LEMMA FromEnvAddresses ==
  ASSUME NEW env \in Environments
  PROVE  /\ FromEnv(env).listen_addr \in Addresses
         /\ FromEnv(env).metrics_addr \in Addresses
<1>1. /\ env.PROXY_LISTEN_ADDR \in Addresses \cup {Unset}
      /\ env.PROXY_METRICS_ADDR \in Addresses \cup {Unset}
  BY DEF Environments
<1>2. /\ FromEnv(env).listen_addr = OrElse(env.PROXY_LISTEN_ADDR, Default.listen_addr)
      /\ FromEnv(env).metrics_addr = OrElse(env.PROXY_METRICS_ADDR, Default.metrics_addr)
  BY DEF FromEnv
<1> QED BY <1>1, <1>2, DefaultAddresses DEF OrElse

LEMMA StartStep == StartInv /\ [Next]_vars => StartInv'
<1> SUFFICES ASSUME StartInv, [Next]_vars PROVE StartInv'
  OBVIOUS
<1>1. CASE LoadConfig
  BY <1>1, FromEnvAddresses DEF LoadConfig, StartInv
<1>2. CASE UNCHANGED <<config, failure>> /\ main' # "error"
  BY <1>2 DEF StartInv
<1>3. CASE UNCHANGED <<config, failure, main>>
  BY <1>3 DEF StartInv
<1>4. CASE BindProxy
  <2>1. CASE \E protocols, next : BindTo(protocols, next) /\ next # "error"
    BY <1>4, <2>1 DEF BindTo, BindFails, Exit, StartInv
  <2>2. CASE main = "build_acceptor" /\ config' = config
             /\ (main' = "bind_admin" \/ failure' = "tls")
    BY <2>2 DEF StartInv
  <2> QED BY <1>4, <2>1, <2>2 DEF BindProxy, Bind, BindH2c, BindWithTls
<1>5. CASE BindAdmin
  BY <1>5, DefaultAddresses DEF BindAdmin, BindFails, Exit, StartInv
<1>6. CASE RunStep
  <2>1. CASE SpawnProxy \/ SpawnAdmin \/ SelectInterrupt
             \/ (\E l \in Listeners : SelectTask(l)) \/ Send \/ JoinProxy \/ JoinAdmin
    BY <1>2, <2>1 DEF SpawnProxy, SpawnAdmin, Spawn, SelectInterrupt, SelectTask, Send,
       JoinProxy, JoinAdmin, Join, Exit, others, startup
  <2> QED BY <1>1, <1>4, <1>5, <1>6, <2>1 DEF RunStep
<1>7. CASE ProxyListener \/ AdminServe \/ AdminHandleConnection
  BY <1>3, <1>7 DEF ProxyListener, AdminServe, AdminHandleConnection, Serve,
     ReceiveShutdown, Accept, HandleTlsConnection, Finish, AdminRequest, others, startup
<1>8. CASE (\E l \in Listeners : TaskFails(l))
           \/ (\E c \in Connections, l \in Listeners : Connect(c, l))
  BY <1>3, <1>8 DEF TaskFails, Connect, others, startup
<1>9. CASE Interrupt
  BY <1>2, <1>3, <1>9 DEF Interrupt, Exit, others, startup
<1>10. CASE UNCHANGED vars
  BY <1>3, <1>10 DEF vars, others, startup
<1> QED BY <1>6, <1>7, <1>8, <1>9, <1>10 DEF Next

\* validate says Ok only if none of its checks applies.
LEMMA ValidMeans ==
  ASSUME NEW c, Validate(c) = "Ok"
  PROVE  /\ IsSocketAddr(c.listen_addr) /\ IsSocketAddr(c.metrics_addr)
         /\ c.listen_addr # c.metrics_addr
<1> DEFINE failed == {i \in DOMAIN Checks(c) : Checks(c)[i][2]}
<1>1. /\ DOMAIN Checks(c) = 1..6
      /\ \A i \in 1..6 : Checks(c)[i][1] # "Ok"
      /\ Checks(c)[1][2] = ~IsSocketAddr(c.listen_addr)
      /\ Checks(c)[2][2] = ~IsSocketAddr(c.metrics_addr)
      /\ Checks(c)[3][2] = (c.listen_addr = c.metrics_addr)
  BY DEF Checks
<1>2. ASSUME failed # {} PROVE \E i \in failed : \A j \in failed : i <= j
  <2>1. failed \subseteq {1, 2, 3, 4, 5, 6}
    BY <1>1
  <2> HIDE DEF failed
  <2>2. CASE 1 \in failed \/ 2 \in failed
    BY <2>1, <2>2
  <2>3. CASE 1 \notin failed /\ 2 \notin failed /\ (3 \in failed \/ 4 \in failed)
    BY <2>1, <2>3
  <2>4. CASE failed \subseteq {5, 6} /\ (5 \in failed \/ 6 \in failed)
    BY <2>4
  <2>5. \E i \in failed : i \in {1, 2, 3, 4, 5, 6}
    BY <1>2, <2>1
  <2> QED BY <2>1, <2>2, <2>3, <2>4, <2>5
<1>3. failed = {}
  BY <1>1, <1>2 DEF Validate
<1>4. ~Checks(c)[1][2] /\ ~Checks(c)[2][2] /\ ~Checks(c)[3][2]
  <2>1. 1 \in 1..6 /\ 2 \in 1..6 /\ 3 \in 1..6
    OBVIOUS
  <2> QED BY <1>1, <1>3, <2>1, Zenon
<1> QED BY <1>1, <1>4, Zenon

\* A configuration that passes validate fails to start over an address only if one
\* of the two is a wildcard, or if they are two spellings of one socket: the comparison
\* of the texts tells all other pairs that would collide apart.
THEOREM ValidatedStarts == Spec => []ValidatedConfigStarts
<1>1. Init => StartInv
  BY DefaultAddresses DEF Init, StartInv
<1>2. StartInv => ValidatedConfigStarts
  <2> DEFINE listen == config.listen_addr
             metrics == config.metrics_addr
  <2> SUFFICES ASSUME StartInv, main = "error", Validate(config) = "Ok",
                      failure \notin {"os", "tls"},
                      listen.host # "any", metrics.host # "any"
               PROVE  /\ <<listen.host, listen.port>> = <<metrics.host, metrics.port>>
                      /\ listen.spelling # metrics.spelling
    BY DEF ValidatedConfigStarts
  <2>1. /\ listen.host = "ip" /\ metrics.host = "ip"
        /\ listen # metrics
    BY ValidMeans DEF IsSocketAddr
  <2>2. listen.port = metrics.port
    BY <2>1 DEF StartInv, Bindable, Collide
  <2>3. listen.spelling # metrics.spelling
    BY <2>1, <2>2 DEF StartInv, Addresses, Addr
  <2> QED BY <2>1, <2>2, <2>3
<1> QED BY <1>1, <1>2, StartStep, PTL DEF Spec

-------------------------------------------------------------------------------
\* The protocol of a connection

\* The acceptor is there before the first connection is accepted, and its list is
\* that of the protocol the listener was made with.
TlsInv ==
  /\ DOMAIN listener = Listeners
  /\ DOMAIN conn = Connections /\ DOMAIN at = Connections
  /\ DOMAIN offer = Connections /\ DOMAIN protocol = Connections
  /\ default_protocol \in Protocols
  /\ main \in {"load", "bind_proxy", "build_acceptor"}
       => tls_acceptor = <<>> /\ ~Up("proxy")
  /\ tls_acceptor \in {<<>>, AlpnProtocols(default_protocol)}
  /\ \A c \in Connections :
       conn[c] \in {"open", "handshake"} /\ at[c] = "proxy" => Up("proxy")

NegotiationInv == TlsInv /\ NegotiatedIsCommon

LEMMA NegotiationInit == Init => NegotiationInv
BY DEF Init, NegotiationInv, TlsInv, NegotiatedIsCommon, Protocols, Up, Listeners

\* What ALPN agrees on with the list of a protocol suits both sides.
LEMMA AgreedSuits ==
  ASSUME NEW p \in Protocols, NEW o \in Offers, Agrees(AlpnProtocols(p), o)
  PROVE  LET served == FromAlpn(Agreed(AlpnProtocols(p), o)) IN
         /\ served \in Speaks(o)
         /\ o # {} => p \in {served, "Auto"}
         /\ p = "Auto" /\ "h2" \in o => served = "Http2"
<1> DEFINE list == AlpnProtocols(p)
           agreed == Agreed(list, o)
<1>1. CASE o = {}
  BY <1>1 DEF Agreed, FromAlpn, Speaks, None
<1>2. CASE o # {} /\ p = "Http1"
  <2>1. list = <<"http/1.1">>
    BY <1>2 DEF AlpnProtocols
  <2>2. Common(list, o) = {1} /\ "http/1.1" \in o
    BY <1>2, <2>1 DEF Agrees, Common
  <2>3. agreed = "http/1.1"
    BY <1>2, <2>1, <2>2 DEF Agreed
  <2> QED BY <1>2, <2>2, <2>3 DEF FromAlpn, Speaks
<1>3. CASE o # {} /\ p = "Http2"
  <2>1. list = <<"h2">>
    BY <1>3 DEF AlpnProtocols
  <2>2. Common(list, o) = {1} /\ "h2" \in o
    BY <1>3, <2>1 DEF Agrees, Common
  <2>3. agreed = "h2"
    BY <1>3, <2>1, <2>2 DEF Agreed
  <2> QED BY <1>3, <2>2, <2>3 DEF FromAlpn, Speaks
<1>4. CASE o # {} /\ p = "Auto"
  <2>1. list = <<"h2", "http/1.1">>
    BY <1>4 DEF AlpnProtocols
  <2>2. CASE "h2" \in o
    <3>1. 1 \in Common(list, o) /\ \A j \in Common(list, o) : 1 <= j
      BY <2>1, <2>2 DEF Common
    <3>2. \A i \in Common(list, o) : (\A j \in Common(list, o) : i <= j) => i = 1
      BY <2>1, <3>1 DEF Common
    <3>3. agreed = "h2"
      BY <1>4, <2>1, <3>1, <3>2 DEF Agreed
    <3> QED BY <1>4, <2>2, <3>3 DEF FromAlpn, Speaks
  <2>3. CASE "h2" \notin o
    <3>1. Common(list, o) = {2} /\ "http/1.1" \in o
      BY <1>4, <2>1, <2>3 DEF Agrees, Common
    <3>2. agreed = "http/1.1"
      BY <1>4, <2>1, <3>1 DEF Agreed
    <3> QED BY <1>4, <2>3, <3>1, <3>2 DEF FromAlpn, Speaks
  <2> QED BY <2>2, <2>3
<1> QED BY <1>1, <1>2, <1>3, <1>4 DEF Protocols

\* Steps that neither open a connection nor change what the open ones have in use.
LEMMA NegotiationFrame ==
  ASSUME NegotiationInv, DOMAIN listener' = Listeners, DOMAIN conn' = Connections,
         Up("proxy") => Up("proxy")',
         main' \in {"load", "bind_proxy", "build_acceptor"}
           => /\ main \in {"load", "bind_proxy", "build_acceptor"}
              /\ Up("proxy")' => Up("proxy"),
         \A c \in Connections :
           conn'[c] \in {"open", "handshake"} => conn[c] = conn'[c],
         UNCHANGED <<at, offer, protocol, default_protocol, tls_acceptor>>
  PROVE  NegotiationInv'
<1>1. TlsInv'
  BY DEF NegotiationInv, TlsInv, Up
<1>2. NegotiatedIsCommon'
  BY DEF NegotiationInv, NegotiatedIsCommon, Tls
<1> QED BY <1>1, <1>2 DEF NegotiationInv

LEMMA BindNegotiation ==
  ASSUME NegotiationInv, NEW protocols \in SUBSET Protocols, NEW next,
         BindTo(protocols, next), next \in {"bind_admin", "build_acceptor"}
  PROVE  NegotiationInv'
<1>1. /\ main = "bind_proxy"
      /\ UNCHANGED <<at, offer, protocol, tls_acceptor>>
  BY DEF BindTo, session
<1>2. CASE /\ listener' = [listener EXCEPT !["proxy"] = "bound"]
           /\ default_protocol' \in protocols /\ UNCHANGED conn
  <2>1. TlsInv'
    BY <1>1, <1>2 DEF NegotiationInv, TlsInv, Up, Listeners
  <2>2. NegotiatedIsCommon'
    BY <1>1, <1>2 DEF NegotiationInv, TlsInv, NegotiatedIsCommon, Tls
  <2> QED BY <2>1, <2>2 DEF NegotiationInv
<1>3. CASE Exit("error") /\ UNCHANGED <<listener, default_protocol>>
  BY <1>1, <1>3, NegotiationFrame DEF Exit, NegotiationInv, TlsInv, Up
<1> QED BY <1>2, <1>3 DEF BindTo, BindFails

LEMMA BindProxyNegotiation == NegotiationInv /\ BindProxy => NegotiationInv'
<1> SUFFICES ASSUME NegotiationInv, BindProxy PROVE NegotiationInv'
  OBVIOUS
<1>1. CASE Bind \/ BindH2c
  BY <1>1, BindNegotiation DEF Bind, BindH2c, Protocols
<1>2. CASE BindTo(Protocols, "build_acceptor")
  BY <1>2, BindNegotiation
<1>3. CASE /\ main = "build_acceptor" /\ main' = "bind_admin"
           /\ tls_acceptor' = AlpnProtocols(default_protocol)
           /\ UNCHANGED <<conn, listener, at, default_protocol, offer, protocol>>
  <2>1. TlsInv'
    BY <1>3 DEF NegotiationInv, TlsInv, Up
  <2>2. NegotiatedIsCommon'
    BY <1>3 DEF NegotiationInv, TlsInv, NegotiatedIsCommon, Tls
  <2> QED BY <2>1, <2>2 DEF NegotiationInv
<1>4. CASE /\ Exit("error")
           /\ UNCHANGED <<tls_acceptor, listener, at, default_protocol, offer, protocol>>
  BY <1>4, NegotiationFrame DEF Exit, NegotiationInv, TlsInv, Up
<1> QED BY <1>1, <1>2, <1>3, <1>4 DEF BindProxy, BindWithTls, session

LEMMA ConnectionNegotiation ==
  ASSUME NegotiationInv, NEW c \in Connections, NEW l \in Listeners,
         Accept(l, c) \/ Finish(l, c) \/ HandleTlsConnection(c) \/ AdminRequest(c)
           \/ Connect(c, l)
  PROVE  NegotiationInv'
<1>1. UNCHANGED <<main, listener, default_protocol, tls_acceptor>>
  BY DEF Accept, Finish, HandleTlsConnection, AdminRequest, Connect, binding
<1>2. TlsInv'
  BY <1>1 DEF Accept, Finish, HandleTlsConnection, AdminRequest, Connect, session,
     NegotiationInv, TlsInv, Up
<1>3. CASE HandleTlsConnection(c) /\ conn' = [conn EXCEPT ![c] = "open"]
  <2>1. PICK o \in Offers :
          /\ Agrees(tls_acceptor, o)
          /\ offer' = [offer EXCEPT ![c] = o]
          /\ protocol' = [protocol EXCEPT ![c] = FromAlpn(Agreed(tls_acceptor, o))]
    BY <1>3 DEF HandleTlsConnection, NegotiationInv, TlsInv
  <2>2. UNCHANGED at
    BY <1>3 DEF HandleTlsConnection
  <2>3. ASSUME tls_acceptor # <<>>
        PROVE  LET served == FromAlpn(Agreed(tls_acceptor, o)) IN
               /\ served \in Speaks(o)
               /\ o # {} => default_protocol \in {served, "Auto"}
               /\ default_protocol = "Auto" /\ "h2" \in o => served = "Http2"
    <3>1. tls_acceptor = AlpnProtocols(default_protocol) /\ default_protocol \in Protocols
      BY <2>3 DEF NegotiationInv, TlsInv
    <3> QED BY <2>1, <3>1, AgreedSuits
  <2>4. NegotiatedIsCommon'
    BY <1>1, <1>3, <2>1, <2>2, <2>3 DEF NegotiationInv, TlsInv, NegotiatedIsCommon, Tls
  <2> QED BY <1>2, <2>4 DEF NegotiationInv
<1>4. CASE /\ at' = at \/ conn[c] = "none"
           /\ \A d \in Connections \ {c} :
                /\ conn'[d] = conn[d] /\ at'[d] = at[d]
                /\ offer'[d] = offer[d] /\ protocol'[d] = protocol[d]
           /\ conn'[c] = "open" /\ Tls(at'[c])
                => conn[c] = "open" /\ UNCHANGED <<at, offer, protocol>>
  <2>1. NegotiatedIsCommon'
    BY <1>1, <1>4 DEF NegotiationInv, NegotiatedIsCommon, Tls
  <2> QED BY <1>2, <2>1 DEF NegotiationInv
<1>5. CASE Accept(l, c)
  BY <1>4, <1>5 DEF Accept, NegotiationInv, TlsInv
<1>6. CASE Finish(l, c) \/ AdminRequest(c) \/ Connect(c, l)
  BY <1>4, <1>6 DEF Finish, AdminRequest, Connect, NegotiationInv, TlsInv, session
<1>7. CASE HandleTlsConnection(c) /\ conn' = [conn EXCEPT ![c] = "closed"]
           /\ UNCHANGED <<offer, protocol>>
  BY <1>4, <1>7 DEF HandleTlsConnection, NegotiationInv, TlsInv
<1> QED BY <1>3, <1>5, <1>6, <1>7 DEF HandleTlsConnection

LEMMA NegotiationStep == NegotiationInv /\ [Next]_vars => NegotiationInv'
<1> SUFFICES ASSUME NegotiationInv, [Next]_vars PROVE NegotiationInv'
  OBVIOUS
<1> USE DEF others, binding, session
<1>1. CASE LoadConfig \/ BindAdmin
  BY <1>1, NegotiationFrame DEF LoadConfig, BindAdmin, BindFails, Exit, NegotiationInv,
     TlsInv, Up, Listeners
<1>2. CASE SpawnProxy \/ SpawnAdmin
  BY <1>2, NegotiationFrame DEF SpawnProxy, SpawnAdmin, Spawn, NegotiationInv, TlsInv,
     Up, Listeners
<1>3. CASE SelectInterrupt \/ (\E l \in Listeners : SelectTask(l)) \/ Send
  BY <1>3, NegotiationFrame DEF SelectInterrupt, SelectTask, Send, NegotiationInv, TlsInv,
     Up
<1>4. CASE JoinProxy \/ JoinAdmin
  BY <1>4, NegotiationFrame DEF JoinProxy, JoinAdmin, Join, Exit, NegotiationInv, TlsInv,
     Up
<1>5. CASE RunStep
  BY <1>1, <1>2, <1>3, <1>4, <1>5, BindProxyNegotiation DEF RunStep
<1>6. CASE \E l \in Listeners : Serve(l) \/ ReceiveShutdown(l) \/ TaskFails(l)
  BY <1>6, NegotiationFrame DEF Serve, ReceiveShutdown, TaskFails, Gone, NegotiationInv, TlsInv,
     Up, Listeners
<1>7. CASE ProxyListener \/ AdminServe \/ AdminHandleConnection
  BY <1>6, <1>7, ConnectionNegotiation
     DEF ProxyListener, AdminServe, AdminHandleConnection, Listeners
<1>8. CASE \E c \in Connections, l \in Listeners : Connect(c, l)
  BY <1>8, ConnectionNegotiation
<1>9. CASE Interrupt
  BY <1>9, NegotiationFrame DEF Interrupt, Exit, NegotiationInv, TlsInv, Up
<1>10. CASE UNCHANGED vars
  BY <1>10, NegotiationFrame DEF vars, NegotiationInv, TlsInv, Up
<1> QED BY <1>5, <1>6, <1>7, <1>8, <1>9, <1>10 DEF Next

\* Whatever the listener was configured for and whatever the client offers, a TLS
\* connection that is served is served in a protocol both of them have, and in
\* HTTP/2 where an Auto listener has the choice.
THEOREM NegotiationSuits == Spec => []NegotiatedIsCommon
<1>1. NegotiationInv => NegotiatedIsCommon
  BY DEF NegotiationInv
<1> QED BY <1>1, NegotiationInit, NegotiationStep, PTL DEF Spec
===============================================================================
