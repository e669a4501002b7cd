----------------------------- MODULE HttpProtocol -----------------------------
(***************************************************************************)
(* src/protocol.rs: the protocols a listener offers, the one that ALPN     *)
(* agrees on, and the acceptor built from PEM files.                       *)
(***************************************************************************)
EXTENDS Naturals, Sequences

Protocols == {"Http1", "Http2", "Auto"}

\* Some(name), or None for a connection without ALPN
None == "none"

AlpnProtocols(protocol) ==
  CASE protocol = "Http1" -> <<"http/1.1">>
    [] protocol = "Http2" -> <<"h2">>
    [] protocol = "Auto" -> <<"h2", "http/1.1">>

FromAlpnDefault(alpn) == IF alpn = "http/1.1" THEN "Http1" ELSE "Http2"

FromAlpn(alpn) == IF alpn = "h2" THEN "Http2" ELSE "Http1"

-------------------------------------------------------------------------------
\* build_acceptor.  A PEM file is known by whether a certificate and a key can be
\* read from it: items that do not decode are skipped, and there is nothing in a
\* file that cannot be opened.

PemFiles == SUBSET {"cert", "key"}

LoadCerts(file) == "cert" \in file

LoadPrivateKey(file) == "key" \in file

\* rustls may still refuse the pair, e.g. a key of another certificate.
BuildAcceptor(cert_file, key_file, accepted) ==
  LoadCerts(cert_file) /\ LoadPrivateKey(key_file) /\ accepted

BuildResults ==
  {BuildAcceptor(cert_file, key_file, accepted) :
     cert_file \in PemFiles, key_file \in PemFiles, accepted \in BOOLEAN}

-------------------------------------------------------------------------------
\* ALPN as rustls does it: the first protocol of the server's list that the client
\* offers.  A client that offers nothing is served without, and one that offers
\* only other protocols is turned away.

Offers == SUBSET {"h2", "http/1.1"} \cup {{"other"}}

Common(list, offer) == {i \in DOMAIN list : list[i] \in offer}

Agrees(list, offer) == offer = {} \/ Common(list, offer) # {}

Agreed(list, offer) ==
  IF offer = {} THEN None
  ELSE list[CHOOSE i \in Common(list, offer) : \A j \in Common(list, offer) : i <= j]
===============================================================================
