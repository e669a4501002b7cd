------------------------------- MODULE ProxyMain -------------------------------
(***************************************************************************)
(* The process: run of src/main.rs, which reads the configuration, binds   *)
(* and spawns the two listeners, waits for Ctrl-C or for a listener task   *)
(* to end, broadcasts the shutdown and joins what is left; the accept      *)
(* loops of src/listener.rs and src/admin_listener.rs; and the             *)
(* connections, each a detached task that nobody joins.                    *)
(*                                                                         *)
(* src/main.rs calls Listener::bind.  The constant Constructors lets the   *)
(* same program use the listener's other two constructors, as the README's *)
(* HTTP/2 example does.                                                    *)
(***************************************************************************)
EXTENDS ProxyConfig, HttpProtocol, AdminService

CONSTANTS
  Connections,   \* the client connections of one run
  MayFail,       \* the listener tasks that may die by a panic
  Constructors   \* the constructors of Listener that the program may call

Listeners == {"proxy", "admin"}

ASSUME MainAssumption ==
  /\ MayFail \subseteq Listeners
  /\ Constructors \subseteq {"bind", "bind_with_tls", "bind_h2c"}
  /\ Unset # Garbage

VARIABLES
  main,      \* what run does next
  listener,  \* the state of each listener and of its task
  inbox,     \* whether a listener's receiver holds the shutdown message
  sender,    \* whether shutdown_tx is alive
  sent,      \* whether the shutdown was broadcast
  interrupted,  \* whether ctrl_c() has fired
  finished,  \* proxy_finished and admin_finished
  joined,    \* whether the result of a JoinHandle was already taken
  conn, at,  \* the state of each connection, and its listener
  config,    \* the configuration until run has passed on all of it, then Default
  failure,   \* history: why run returned an error
  default_protocol,  \* of the proxy's listener
  tls_acceptor,      \* the ALPN list of its acceptor, empty without TLS
  ready,     \* the readiness flag of the admin service
  offer,     \* what the client of a TLS connection offered by ALPN
  protocol,  \* the protocol a connection is served in
  answer     \* the last answer on an admin connection

channel == <<inbox, sender, sent>>
joins == <<finished, joined>>
startup == <<config, failure>>
binding == <<default_protocol, tls_acceptor, ready>>
session == <<offer, protocol, answer>>
others == <<at, startup, binding, session>>   \* what most steps leave alone
vars == <<main, listener, channel, interrupted, joins, conn, others>>

Ended(l) == listener[l] \in {"stopped", "failed"}

NoAnswer == [path |-> None, status |-> 0]

Init ==
  /\ main = "load"
  /\ listener = [l \in Listeners |-> "unbound"]
  /\ inbox = [l \in Listeners |-> FALSE]
  /\ sender = TRUE
  /\ sent = FALSE
  /\ interrupted = FALSE
  /\ finished = [l \in Listeners |-> FALSE]
  /\ joined = [l \in Listeners |-> FALSE]
  /\ conn = [c \in Connections |-> "none"]
  /\ at = [c \in Connections |-> "proxy"]
  /\ config = Default
  /\ failure = None
  /\ default_protocol = "Http1"
  /\ tls_acceptor = <<>>
  /\ ready = FALSE
  /\ offer = [c \in Connections |-> {}]
  /\ protocol = [c \in Connections |-> None]
  /\ answer = [c \in Connections |-> NoAnswer]

\* The process is gone: accepted connections are cut, queued ones refused.
Exit(how) ==
  /\ main' = how
  /\ sender' = FALSE
  /\ conn' = [c \in Connections |->
       CASE conn[c] \in {"open", "handshake"} -> "aborted"
         [] conn[c] = "queued" -> "refused"
         [] OTHER -> conn[c]]

-------------------------------------------------------------------------------
\* run

\* The configuration is not validated.
LoadConfig ==
  /\ main = "load"
  /\ main' = "bind_proxy"
  /\ \E env \in Environments : config' = FromEnv(env)
  /\ UNCHANGED <<listener, channel, interrupted, joins, conn, at, failure,
                 binding, session>>

BindFails(addr, bound) ==
  /\ Exit("error")
  /\ failure' = IF Bindable(addr, bound) THEN "os" ELSE "address"

\* What the three constructors have in common; each listener gets a service with
\* the upstreams and the timeout of the configuration.
BindTo(protocols, next) ==
  /\ main = "bind_proxy"
  /\ \/ /\ Bindable(config.listen_addr, {})
        /\ listener' = [listener EXCEPT !["proxy"] = "bound"]
        /\ default_protocol' \in protocols
        /\ main' = next
        /\ UNCHANGED <<sender, conn, failure>>
     \/ BindFails(config.listen_addr, {}) /\ UNCHANGED <<listener, default_protocol>>
  /\ UNCHANGED <<inbox, sent, interrupted, joins, at, config, tls_acceptor, ready,
                 session>>

Bind == "bind" \in Constructors /\ BindTo({"Http1"}, "bind_admin")

BindH2c == "bind_h2c" \in Constructors /\ BindTo({"Http2"}, "bind_admin")

\* The acceptor is built after the socket is bound; an error closes the socket.
BindWithTls ==
  \/ "bind_with_tls" \in Constructors /\ BindTo(Protocols, "build_acceptor")
  \/ /\ main = "build_acceptor"
     /\ \E built \in BuildResults :
          \/ /\ built
             /\ tls_acceptor' = AlpnProtocols(default_protocol)
             /\ main' = "bind_admin"
             /\ UNCHANGED <<sender, conn, failure>>
          \/ /\ ~built
             /\ Exit("error") /\ failure' = "tls"
             /\ UNCHANGED tls_acceptor
     /\ UNCHANGED <<listener, inbox, sent, interrupted, joins, at, config,
                    default_protocol, ready, session>>

BindProxy == Bind \/ BindH2c \/ BindWithTls

BindAdmin ==
  LET bound == {config.listen_addr} IN
  /\ main = "bind_admin"
  /\ \/ /\ Bindable(config.metrics_addr, bound)
        /\ listener' = [listener EXCEPT !["admin"] = "bound"]
        /\ ready' = NewReadiness
        /\ config' = Default
        /\ main' = "spawn_proxy"
        /\ UNCHANGED <<sender, conn, failure>>
     \/ BindFails(config.metrics_addr, bound) /\ UNCHANGED <<listener, ready, config>>
  /\ UNCHANGED <<inbox, sent, interrupted, joins, at, default_protocol,
                 tls_acceptor, session>>

\* Each task subscribes before it is spawned, so no broadcast is missed.  The runtime
\* runs it later, and possibly the second one first.
Spawn(l, here, next) ==
  /\ main = here
  /\ main' = next
  /\ listener' = [listener EXCEPT ![l] = "spawned"]
  /\ UNCHANGED <<channel, interrupted, joins, conn, others>>

SpawnAdminOnly == Spawn("admin", "spawn_proxy", "spawn_admin")

SpawnAdminDroppingSender ==
  /\ main = "spawn_admin"
  /\ main' = "select"
  /\ listener' = [listener EXCEPT !["admin"] = "spawned"]
  /\ sender' = FALSE
  /\ UNCHANGED <<inbox, sent, interrupted, joins, conn, others>>

SpawnProxy == Spawn("proxy", "spawn_proxy", "spawn_admin")
SpawnAdmin == Spawn("admin", "spawn_admin", "select")

SelectInterrupt ==
  /\ main = "select" /\ interrupted
  /\ main' = "send"
  /\ UNCHANGED <<listener, channel, interrupted, joins, conn, others>>

SelectTaskUnmarked(l) ==
  /\ main = "select" /\ Ended(l)
  /\ main' = "send"
  /\ joined' = [joined EXCEPT ![l] = TRUE]
  /\ UNCHANGED <<listener, channel, interrupted, finished, conn, others>>

SelectTask(l) ==
  /\ main = "select" /\ Ended(l)
  /\ main' = "send"
  /\ finished' = [finished EXCEPT ![l] = TRUE]
  /\ joined' = [joined EXCEPT ![l] = TRUE]
  /\ UNCHANGED <<listener, channel, interrupted, conn, others>>

SendNothing ==
  /\ main = "send"
  /\ main' = "join_proxy"
  /\ UNCHANGED <<listener, channel, interrupted, joins, conn, others>>

Send ==
  /\ main = "send"
  /\ main' = "join_proxy"
  /\ sent' = TRUE
  /\ inbox' = [l \in Listeners |-> ~Ended(l)]
  /\ UNCHANGED <<listener, sender, interrupted, joins, conn, others>>

\* Awaiting a JoinHandle whose result was already taken panics.
Join(l, here) ==
  /\ main = here /\ ~finished[l]
  /\ Ended(l)
  /\ joined' = [joined EXCEPT ![l] = TRUE]
  /\ UNCHANGED <<listener, inbox, sent, interrupted, finished, others>>

JoinProxyWithoutWaiting ==
  /\ main = "join_proxy"
  /\ main' = "join_admin"
  /\ UNCHANGED <<listener, channel, interrupted, joins, conn, others>>

JoinProxy ==
  \/ /\ Join("proxy", "join_proxy")
     /\ IF joined["proxy"] THEN Exit("panicked")
        ELSE main' = "join_admin" /\ UNCHANGED <<sender, conn>>
  \/ /\ main = "join_proxy" /\ finished["proxy"]
     /\ main' = "join_admin"
     /\ UNCHANGED <<listener, channel, interrupted, joins, conn, others>>

\* run returns, main returns, and the runtime is dropped with its tasks.
JoinAdmin ==
  \/ /\ Join("admin", "join_admin")
     /\ Exit(IF joined["admin"] THEN "panicked" ELSE "exited")
  \/ /\ main = "join_admin" /\ finished["admin"]
     /\ Exit("exited")
     /\ UNCHANGED <<listener, inbox, sent, interrupted, joins, others>>

RunStep ==
  \/ LoadConfig \/ BindProxy \/ BindAdmin \/ SpawnProxy \/ SpawnAdmin
  \/ SelectInterrupt \/ (\E l \in Listeners : SelectTask(l))
  \/ Send \/ JoinProxy \/ JoinAdmin

Gone == main \in {"exited", "error", "killed", "panicked"}

-------------------------------------------------------------------------------
\* serve, the accept loop of either listener

Tls(l) == l = "proxy" /\ tls_acceptor # <<>>

PlainProtocol(l) ==
  IF l = "proxy" /\ default_protocol = "Http2" THEN "Http2" ELSE "Http1"

\* The task is polled for the first time.
Serve(l) ==
  /\ ~Gone
  /\ listener[l] = "spawned"
  /\ listener' = [listener EXCEPT ![l] = "serving"]
  /\ UNCHANGED <<main, channel, interrupted, joins, conn, others>>

\* The accept loop as it would be with the handshake in it.
AcceptInTurn(l, c) ==
  /\ ~Gone
  /\ listener[l] = "serving"
  /\ \A d \in Connections : conn[d] # "handshake"
  /\ conn[c] = "queued" /\ at[c] = l
  /\ conn' = [conn EXCEPT ![c] = IF Tls(l) THEN "handshake" ELSE "open"]
  /\ protocol' = [protocol EXCEPT ![c] = IF Tls(l) THEN @ ELSE PlainProtocol(l)]
  /\ UNCHANGED <<main, listener, channel, interrupted, joins, at, startup, binding,
                 offer, answer>>

\* The connection gets a task of its own, which with TLS begins with a handshake.
\* A failing accept is logged and tried again, which is no step.
Accept(l, c) ==
  /\ ~Gone
  /\ listener[l] = "serving"
  /\ conn[c] = "queued" /\ at[c] = l
  /\ conn' = [conn EXCEPT ![c] = IF Tls(l) THEN "handshake" ELSE "open"]
  /\ protocol' = [protocol EXCEPT ![c] = IF Tls(l) THEN @ ELSE PlainProtocol(l)]
  /\ UNCHANGED <<main, listener, channel, interrupted, joins, at, startup, binding,
                 offer, answer>>

\* recv is ready when the message is there, and when the sender is gone; the
\* branch matches either result.  The accept socket closes with the listener.
ReceiveShutdown(l) ==
  /\ ~Gone
  /\ listener[l] = "serving"
  /\ inbox[l] \/ ~sender
  /\ listener' = [listener EXCEPT ![l] = "stopped"]
  /\ inbox' = [inbox EXCEPT ![l] = FALSE]
  /\ conn' = [c \in Connections |->
       IF conn[c] = "queued" /\ at[c] = l THEN "refused" ELSE conn[c]]
  /\ UNCHANGED <<main, sender, sent, interrupted, joins, others>>

\* The handshake succeeds in a protocol, or fails: nothing in common, a client
\* that leaves.  No timeout ends it.
HandleTlsConnection(c) ==
  /\ ~Gone
  /\ conn[c] = "handshake"
  /\ \/ \E o \in Offers :
          /\ Agrees(tls_acceptor, o)
          /\ conn' = [conn EXCEPT ![c] = "open"]
          /\ offer' = [offer EXCEPT ![c] = o]
          /\ protocol' = [protocol EXCEPT ![c] = FromAlpn(Agreed(tls_acceptor, o))]
     \/ conn' = [conn EXCEPT ![c] = "closed"] /\ UNCHANGED <<offer, protocol>>
  /\ UNCHANGED <<main, listener, channel, interrupted, joins, at, startup, binding,
                 answer>>

\* hyper ends the connection: its exchanges are over, or it is broken, for
\* instance because the client does not speak the protocol.
Finish(l, c) ==
  /\ ~Gone
  /\ conn[c] = "open" /\ at[c] = l
  /\ conn' = [conn EXCEPT ![c] = "closed"]
  /\ offer' = [offer EXCEPT ![c] = {}]
  /\ protocol' = [protocol EXCEPT ![c] = None]
  /\ answer' = [answer EXCEPT ![c] = NoAnswer]
  /\ UNCHANGED <<main, listener, channel, interrupted, joins, at, startup, binding>>

ProxyListener ==
  \/ Serve("proxy") \/ ReceiveShutdown("proxy")
  \/ \E c \in Connections :
       Accept("proxy", c) \/ HandleTlsConnection(c) \/ Finish("proxy", c)

AdminServe ==
  \/ Serve("admin") \/ ReceiveShutdown("admin")
  \/ \E c \in Connections : Accept("admin", c)

\* Any number of requests on one connection, in any method.
AdminRequest(c) ==
  /\ ~Gone
  /\ conn[c] = "open" /\ at[c] = "admin"
  /\ \E path \in Paths, poisoned, encoder_fails \in BOOLEAN :
       answer' = [answer EXCEPT ![c] =
         [path |-> path,
          status |-> HandleRequest(ready, path, Encode(poisoned, encoder_fails))]]
  /\ UNCHANGED <<main, listener, channel, interrupted, joins, conn, at, startup,
                 binding, offer, protocol>>

AdminHandleConnection ==
  \E c \in Connections : AdminRequest(c) \/ Finish("admin", c)

-------------------------------------------------------------------------------
\* The environment

\* The kernel queues a connection on a socket that is bound and listening.
Connect(c, l) ==
  /\ ~Gone
  /\ conn[c] = "none"
  /\ listener[l] \in {"bound", "spawned", "serving"}
  /\ conn' = [conn EXCEPT ![c] = "queued"]
  /\ at' = [at EXCEPT ![c] = l]
  /\ UNCHANGED <<main, listener, channel, interrupted, joins, startup, binding,
                 session>>

TaskFails(l) ==
  /\ ~Gone
  /\ l \in MayFail /\ listener[l] = "serving"
  /\ listener' = [listener EXCEPT ![l] = "failed"]
  /\ conn' = [c \in Connections |->
       IF conn[c] = "queued" /\ at[c] = l THEN "refused" ELSE conn[c]]
  /\ UNCHANGED <<main, channel, interrupted, joins, others>>

Starting == {"load", "bind_proxy", "build_acceptor", "bind_admin", "spawn_proxy",
             "spawn_admin"}

\* Ctrl-C: run has a handler for it from the select on, before that the default
\* action of the signal ends the process.
Interrupt ==
  /\ ~Gone /\ ~interrupted
  /\ interrupted' = TRUE
  /\ \/ main \notin Starting /\ UNCHANGED <<main, sender, conn>>
     \/ main \in Starting /\ Exit("killed")
  /\ UNCHANGED <<listener, inbox, sent, joins, others>>

Next ==
  \/ RunStep
  \/ ProxyListener \/ AdminServe \/ AdminHandleConnection
  \/ \E l \in Listeners : TaskFails(l)
  \/ \E c \in Connections, l \in Listeners : Connect(c, l)
  \/ Interrupt

Spec == Init /\ [][Next]_vars

\* The runtime keeps polling run and the two accept loops; the random order in
\* which select! polls its branches keeps accept and recv from starving each
\* other, and accept does not fail for ever.  Clients owe nothing: a handshake or a
\* connection may last for ever.
FairSpec ==
  /\ Spec
  /\ WF_vars(RunStep)
  /\ \A l \in Listeners : WF_vars(Serve(l))
  /\ \A l \in Listeners : WF_vars(ReceiveShutdown(l))
  /\ \A l \in Listeners : WF_vars(\E c \in Connections : Accept(l, c))

-------------------------------------------------------------------------------
\* Properties

\* A configuration that validate accepts (src/config.rs, lines 148 to 221) starts:
\* run fails only if the operating system refuses an address, if the TLS files
\* are no good, or if the two addresses overlap in a way that the comparison of
\* their texts (line 178) does not see: one is a wildcard for the port of the other,
\* or they are two spellings of one socket.
ValidatedConfigStarts ==
  LET listen == config.listen_addr
      metrics == config.metrics_addr
  IN  main = "error" /\ Validate(config) = "Ok"
        => \/ failure \in {"os", "tls"}
           \/ "any" \in {listen.host, metrics.host}
           \/ /\ <<listen.host, listen.port>> = <<metrics.host, metrics.port>>
              /\ listen.spelling # metrics.spelling

\* What a client without ALPN, or with the given offer, can talk.
Speaks(o) ==
  {p \in {"Http1", "Http2"} :
     IF p = "Http2" THEN "h2" \in o ELSE "http/1.1" \in o \/ o = {}}

\* A TLS connection is served in a protocol its client talks; if ALPN was used, in
\* one the listener was configured for; and by an Auto listener in HTTP/2 if the
\* client talks it ("prefers HTTP/2", src/protocol.rs, line 23).
NegotiatedIsCommon ==
  \A c \in Connections :
    conn[c] = "open" /\ Tls(at[c]) =>
      /\ protocol[c] \in Speaks(offer[c])
      /\ offer[c] # {} => default_protocol \in {protocol[c], "Auto"}
      /\ default_protocol = "Auto" /\ "h2" \in offer[c] => protocol[c] = "Http2"

\* Whoever is told that the process is ready (src/admin.rs, line 121) finds the
\* proxy's accept loop running in the end, unless it dies or the process is stopped.
\* The flag is set when the admin listener is bound, so the answer may come before
\* the loop of the proxy is first polled, and after it has ended.
ReadyIsServed ==
  \A c \in Connections :
    answer[c].status = 200 /\ answer[c].path \in {"/ready", "/readyz"}
      ~> listener["proxy"] = "serving" \/ Ended("proxy") \/ Gone

\* A client that waits in the queue of a listener is accepted or refused in the
\* end, however long the handshakes and connections of others last
\* (src/listener.rs, line 222).
QueuedIsTaken ==
  \A c \in Connections : conn[c] = "queued" ~> conn[c] # "queued"

\* Whichever branch of the select wins, even when a task has ended while Ctrl-C
\* arrives, run never awaits a JoinHandle a second time (lines 94 to 131).
NeverPolledTwice == main # "panicked"

\* A regular exit leaves no listener behind: both accept loops have ended.
ExitJoinsListeners == main = "exited" => \A l \in Listeners : Ended(l)

\* "Serves incoming connections until a shutdown signal is received"
\* (src/listener.rs, line 198): a loop that stopped was told to.
StopsOnlyOnSignal == \A l \in Listeners : listener[l] = "stopped" => sent

\* Once Ctrl-C has been caught, or a listener task has died under a running
\* process, the process ends by itself, however many connections are open.
ShutdownCompletes ==
  main = "select" /\ (interrupted \/ \E l \in Listeners : Ended(l))
    ~> main = "exited"

\* "Clean shutdown with in-flight request completion" (README.md, line 18): an
\* accepted connection is not cut off by a regular exit.
InFlightCompletes ==
  main = "exited" => \A c \in Connections : conn[c] # "aborted"
===============================================================================
