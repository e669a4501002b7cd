------------------------------- MODULE MCRouter -------------------------------
(* An instance of Router for TLC: overlapping routes of each kind, two of them  *)
(* with the same name, one disabled, one with a pattern that does not compile.  *)
EXTENDS Router, TLC

R(name, type, value, method, headers, upstream) ==
  [name |-> name, path |-> [type |-> type, value |-> value], method |-> method,
   headers |-> headers, upstream |-> upstream, enabled |-> TRUE]

H(type, value) == [type |-> type, name |-> "x-version", value |-> value]

MCCandidates ==
  {R("users", "Exact", "/api/users", "Get", <<>>, "u1"),
   R("api", "Prefix", "/api", "Any", <<>>, "u1"),
   R("api", "Prefix", "/", "Any", <<H("Present", "")>>, "u2"),
   R("beta", "Prefix", "/api", "Any",
     <<H("Contains", "v2"), H("Regex", "beta$")>>, "u2"),
   R("any", "Regex", "^/api", "Any", <<H("Absent", "")>>, "u2"),
   R("bad", "Regex", "(", "Any", <<>>, "u2"),
   [R("off", "Exact", "/home", "Any", <<H("Exact", "v1")>>, "u2")
      EXCEPT !.enabled = FALSE],
   R("home", "Exact", "/home", "Any", <<H("Exact", "v1")>>, "u1")}

MCRequests ==
  {[method |-> m, path |-> p, headers |-> ("x-version" :> v)] :
     m \in {"Get", "Post"}, p \in {"/api/users", "/home"},
     v \in {"v1", "v2-beta", None}}

MCStartsWith == ("/" :> {"/api/users", "/home"}) @@ ("/api" :> {"/api/users"})
MCContaining == ("v2" :> {"v2-beta"})
MCLanguage == ("^/api" :> {"/api/users"}) @@ ("beta$" :> {"v2-beta"})
===============================================================================
