----------------------------- MODULE MCAssembly -----------------------------
(***************************************************************************)
(* Small instances of RequestAssembly for TLC.                             *)
(***************************************************************************)
EXTENDS RequestAssembly

Direct == [scheme |-> "https", host |-> "api", port |-> None,
           path |-> <<"/", "v1">>, slashes |-> 1, key |-> "key1",
           organization |-> None, project |-> None, proxy |-> None,
           auth |-> None, model |-> "m1"]

\* Another provider by a tunnel, a local one by the proxy.
Tunnelled == [Direct EXCEPT !.host = "other", !.port = "8443", !.path = <<>>,
                            !.slashes = 2, !.key = "key2",
                            !.organization = "org", !.project = "proj",
                            !.proxy = "px", !.auth = "secret", !.model = "m2"]
Local == [Tunnelled EXCEPT !.scheme = "http", !.host = "local", !.port = None,
                           !.slashes = 0, !.key = None]

MCProviders == {Direct, Tunnelled, Local}

\* A gateway that names a deployment in its path.
Gateways == {[Direct EXCEPT !.path = <<"/", "model", ":", "v1">>]}

Symmetry == Permutations(PlainCalls) \cup Permutations(StreamCalls)
=============================================================================
