----------------------------- MODULE ProxyConfig -----------------------------
(***************************************************************************)
(* The configuration of src/config.rs: what from_env makes of the          *)
(* environment, and what validate says about the result.  An address is a  *)
(* text, known by what its host part is, by its port and by how the two    *)
(* are spelled: two addresses are equal texts when they are equal records. *)
(***************************************************************************)
EXTENDS Naturals, Sequences, FiniteSets

CONSTANTS
  Unset,    \* an environment variable that is not set
  Garbage   \* a value that does not parse as a number

Addr(host, port, spelling) == [host |-> host, port |-> port, spelling |-> spelling]

\* Literal addresses, one of them in two spellings ("[::1]:1" and "[0::1]:1"), the
\* wildcard, a name that resolves to the literal host, and a text that is no address.
Addresses ==
  {Addr("ip", 0, 1), Addr("ip", 1, 1), Addr("ip", 1, 2), Addr("ip", 2, 1),
   Addr("any", 1, 1), Addr("name", 1, 1), Addr("junk", 0, 1)}

\* The entries of the upstream list: an http or https URL, a text with another or
\* no scheme, a text with the scheme that is no URL, and nothing but blanks.
Upstreams == {"url", "schemeless", "malformed", "blank"}

Millis == {0, 3600000, 3600001}

Environments ==
  [PROXY_LISTEN_ADDR : Addresses \cup {Unset},
   PROXY_UPSTREAM_ADDRS :
     {<<u>> : u \in Upstreams} \cup {<<"url", u>> : u \in Upstreams} \cup {Unset},
   PROXY_METRICS_ADDR : Addresses \cup {Unset},
   PROXY_REQUEST_TIMEOUT_MS : Millis \cup {Unset, Garbage}]

-------------------------------------------------------------------------------

Default ==
  [listen_addr |-> Addr("ip", 1, 1),
   upstream_addrs |-> <<"url">>,
   metrics_addr |-> Addr("ip", 2, 1),
   request_timeout |-> 30000]

OrElse(value, default) == IF value \in {Unset, Garbage} THEN default ELSE value

\* PROXY_MAX_CONNECTIONS, which is parsed like the timeout and then read by no
\* code, is left out.
FromEnv(env) ==
  [listen_addr |-> OrElse(env.PROXY_LISTEN_ADDR, Default.listen_addr),
   upstream_addrs |-> SelectSeq(
     OrElse(env.PROXY_UPSTREAM_ADDRS, Default.upstream_addrs),
     LAMBDA entry : entry # "blank"),
   metrics_addr |-> OrElse(env.PROXY_METRICS_ADDR, Default.metrics_addr),
   request_timeout |-> OrElse(env.PROXY_REQUEST_TIMEOUT_MS, Default.request_timeout)]

IsSocketAddr(addr) == addr.host \in {"ip", "any"}

UpstreamError(addrs) == \E i \in DOMAIN addrs : addrs[i] # "url"

TimeoutError(timeout) == timeout = 0 \/ timeout > 3600 * 1000

ChecksWithoutDuplicates(c) ==
  << <<"InvalidListenAddr", ~IsSocketAddr(c.listen_addr)>>,
     <<"InvalidMetricsAddr", ~IsSocketAddr(c.metrics_addr)>>,
     <<"NoUpstreamAddrs", c.upstream_addrs = <<>> >>,
     <<"InvalidUpstreamAddr", UpstreamError(c.upstream_addrs)>>,
     <<"InvalidTimeout", TimeoutError(c.request_timeout)>> >>

\* The checks in the order in which the code makes them; the first that applies
\* is the error.
Checks(c) ==
  << <<"InvalidListenAddr", ~IsSocketAddr(c.listen_addr)>>,
     <<"InvalidMetricsAddr", ~IsSocketAddr(c.metrics_addr)>>,
     <<"DuplicateAddrs", c.listen_addr = c.metrics_addr>>,
     <<"NoUpstreamAddrs", c.upstream_addrs = <<>> >>,
     <<"InvalidUpstreamAddr", UpstreamError(c.upstream_addrs)>>,
     <<"InvalidTimeout", TimeoutError(c.request_timeout)>> >>

Validate(c) ==
  LET failed == {i \in DOMAIN Checks(c) : Checks(c)[i][2]}
  IN  IF failed = {} THEN "Ok"
      ELSE Checks(c)[CHOOSE i \in failed : \A j \in failed : i <= j][1]

-------------------------------------------------------------------------------
\* TcpListener::bind, which also resolves names

Resolved(addr) == IF addr.host = "name" THEN "ip" ELSE addr.host

\* Two sockets of one port; port 0 asks for any free one.
Collide(a, b) ==
  /\ a.port = b.port /\ a.port # 0
  /\ Resolved(a) = Resolved(b) \/ "any" \in {a.host, b.host}

Bindable(addr, bound) ==
  addr.host # "junk" /\ \A b \in bound : ~Collide(addr, b)
===============================================================================
