--------------------------- MODULE RequestAssembly ---------------------------
(***************************************************************************)
(* Where a request is sent and with which headers.  Both fetches build the *)
(* URL, the proxy and the body from the OaiCompletionInfo and OaiModelInfo *)
(* when they are called, the headers when the connection is there, and the *)
(* log's model when the answer is made.  The two are shared with the       *)
(* caller, who may change them in between.                                 *)
(*                                                                         *)
(* A URL is a sequence of atoms, in which ":" and "/" are atoms of their   *)
(* own.  HTTP headers are a function from the names of fields to values,   *)
(* None for a field that is not set.                                       *)
(***************************************************************************)
EXTENDS Integers, SequencesExt

CONSTANTS
    PlainCalls,   \* the calls of FetchCompletion
    StreamCalls,  \* the calls of FetchStreamCompletion
    Providers,    \* what the caller may configure
    None          \* no value: an empty string, or an empty optional

ASSUME CallsAssumption == PlainCalls \cap StreamCalls = {}

Calls == PlainCalls \cup StreamCalls

\* A provider is described by its scheme, host, port (or None) and path, a
\* number of slashes that are written after it, its key, organization and
\* project, the model asked of it, and a proxy and its auth.
ASSUME ProvidersAssumption ==
    \A p \in Providers :
        /\ p.path \in Seq(Range(p.path)) /\ p.slashes \in Nat
        /\ p.path = <<>> \/ (p.path[1] = "/" /\ Last(p.path) # "/")
        /\ p.host \notin {"/", ":"} /\ p.port \notin {"/", ":"}

BaseUrl(p) ==
    <<p.scheme, ":", "/", "/", p.host>>
        \o (IF p.port = None THEN <<>> ELSE <<":", p.port>>)
        \o p.path \o [n \in 1 .. p.slashes |-> "/"]

VARIABLES
    info,   \* the provider configured: *info_ and *model_info
    calls   \* the state of each call

assemblyVars == <<info, calls>>

-----------------------------------------------------------------------------

Completions == <<"/", "chat", "/", "completions">>

BuildCompletionsUrl(base_url) ==
    SubSeq(base_url, 1,
           SelectLastInSeq(base_url, LAMBDA atom : atom # "/")) \o Completions

\* std::string::find from a position; npos is 0.
Find(url, atom, from) ==
    SelectInSubSeq(url, from, Len(url), LAMBDA other : other = atom)

\* std::string::find for "://".
FindSchemeEnd(url) ==
    LET at == {k \in 1 .. Len(url) - 2 :
                   SubSeq(url, k, k + 2) = <<":", "/", "/">>}
    IN  IF at = {} THEN 0 ELSE Min(at)

\* The port kept in the host.
MutantParseUrl(url) ==
    LET start == FindSchemeEnd(url) + 3
        path == Find(url, "/", start)
    IN  [scheme |-> SubSeq(url, 1, start - 4),
         host |-> SubSeq(url, start, path - 1), port |-> <<"443">>,
         target |-> SubSeq(url, path, Len(url))]

\* The host ends at the first colon, wherever it is, or else at the first
\* slash; the colon starts a port only if it comes before the slash.
ParseUrl(url) ==
    LET scheme_end == FindSchemeEnd(url)
        scheme == SubSeq(url, 1, scheme_end - 1)
        host_start == scheme_end + 3
        path_start == Find(url, "/", host_start)
        port_sep == Find(url, ":", host_start)
        UpTo(position) == IF position = 0 THEN Len(url) ELSE position - 1
        has_port == port_sep # 0 /\ (path_start = 0 \/ port_sep < path_start)
    IN  IF scheme_end = 0
        THEN [scheme |-> <<"https">>, host |-> url, port |-> <<"443">>,
              target |-> <<"/">>]
        ELSE [scheme |-> scheme,
              host |-> SubSeq(url, host_start,
                              UpTo(IF port_sep # 0 THEN port_sep
                                   ELSE path_start)),
              port |-> IF has_port
                       THEN SubSeq(url, port_sep + 1, UpTo(path_start))
                       ELSE IF scheme = <<"https">> THEN <<"443">>
                       ELSE <<"80">>,
              target |-> IF path_start = 0 THEN <<"/">>
                         ELSE SubSeq(url, path_start, Len(url))]

Fields == {"content-type", "accept", "authorization", "openai-organization",
           "openai-project", "proxy-authorization"}

NoHeaders == [name \in Fields |-> None]

AbsoluteForm(url) ==
    url.scheme \o <<":", "/", "/">> \o url.host \o <<":">> \o url.port
        \o url.target

\* DefaultRequestAssembler, or ProxyRequestAssembler if a proxy is configured:
\* an http request is addressed to the proxy, in absolute form and with the
\* proxy's credentials; for https the credentials go to the CONNECT of the
\* ProxyStreamBuilder.
Assemble(url, p) ==
    LET proxied == p.proxy # None
        tunnel == proxied /\ url.scheme = <<"https">>
    IN  [connection |-> [scheme |-> url.scheme, host |-> url.host,
                         port |-> url.port, proxy |-> p.proxy,
                         connect |-> IF tunnel THEN p.auth ELSE None],
         target |-> IF proxied /\ ~ tunnel THEN AbsoluteForm(url)
                    ELSE url.target,
         headers |-> [NoHeaders EXCEPT !["proxy-authorization"] =
                         IF proxied /\ ~ tunnel THEN p.auth ELSE None]]

\* A field is set if there is a value for it.
SetField(old, value) == IF value = None THEN old ELSE value

\* The project forgotten.
MutantSetHeaders(headers, p, accept) ==
    [headers EXCEPT
        !["content-type"] = "application/json", !["accept"] = accept,
        !["authorization"] = SetField(@, p.key),
        !["openai-organization"] = SetField(@, p.organization)]

\* The configured fields, set over those of the request they are put in.
SetHeaders(headers, p, accept) ==
    [headers EXCEPT
        !["content-type"] = "application/json", !["accept"] = accept,
        !["authorization"] = SetField(@, p.key),
        !["openai-organization"] = SetField(@, p.organization),
        !["openai-project"] = SetField(@, p.project)]

-----------------------------------------------------------------------------

NoRequest == [connection |-> None, target |-> None, headers |-> NoHeaders]

Idle == [stage |-> "idle", fetched |-> None, disturbed |-> FALSE,
         assembled |-> NoRequest, sent |-> NoRequest, body_model |-> None,
         log_model |-> None]

AssemblyInit == info \in Providers /\ calls = [r \in Calls |-> Idle]

\* The caller changes what the objects hold.  (`disturbed' and `fetched' only
\* serve the properties.)
Configure(p) ==
    /\ info' = p
    /\ calls' = [r \in Calls |->
                    [calls[r] EXCEPT !.disturbed =
                        @ \/ calls[r].stage \in {"acquiring", "sent"}]]

Fetch(r) ==
    /\ calls[r].stage = "idle"
    /\ calls' = [calls EXCEPT
           ![r].stage = "acquiring", ![r].fetched = info,
           ![r].assembled =
               Assemble(ParseUrl(BuildCompletionsUrl(BaseUrl(info))), info),
           ![r].body_model = info.model]
    /\ UNCHANGED info

\* A plain request is built anew: of what was assembled, only the connection
\* and the target are used.  (Host is not among the fields: here it is set to
\* the host connected to, in a streaming request the assembler sets it.)
SendPlain(r) ==
    /\ calls[r].stage = "acquiring" /\ r \in PlainCalls
    /\ calls' = [calls EXCEPT
           ![r].stage = "sent",
           ![r].sent = [calls[r].assembled EXCEPT
                           !.headers = SetHeaders(NoHeaders, info,
                                                  "application/json")]]
    /\ UNCHANGED info

\* The assembled headers lost, as in a plain request.
MutantSendStream(r) ==
    /\ calls[r].stage = "acquiring" /\ r \in StreamCalls
    /\ calls' = [calls EXCEPT
           ![r].stage = "sent",
           ![r].sent = [calls[r].assembled EXCEPT
                           !.headers = SetHeaders(NoHeaders, info,
                                                  "text/event-stream")]]
    /\ UNCHANGED info

\* A streaming request is the assembled one, and the fields set over it.
SendStream(r) ==
    /\ calls[r].stage = "acquiring" /\ r \in StreamCalls
    /\ calls' = [calls EXCEPT
           ![r].stage = "sent",
           ![r].sent = [calls[r].assembled EXCEPT
                           !.headers = SetHeaders(@, info,
                                                  "text/event-stream")]]
    /\ UNCHANGED info

\* The answer's log starts with the model configured now, whether a connection
\* was acquired or not.
Answer(r) ==
    /\ calls[r].stage \in {"acquiring", "sent"}
    /\ calls' = [calls EXCEPT ![r].stage = "answered",
                              ![r].log_model = info.model]
    /\ UNCHANGED info

AssemblyNext ==
    \/ \E p \in Providers : Configure(p)
    \/ \E r \in Calls : Fetch(r) \/ SendPlain(r) \/ SendStream(r) \/ Answer(r)

AssemblySpec == AssemblyInit /\ [][AssemblyNext]_assemblyVars

-----------------------------------------------------------------------------
(* Properties *)

\* The target a provider's description means.
PathOf(p) == p.path \o Completions

SentCalls == {r \in Calls : calls[r].sent # NoRequest}

\* docs/manual/oai-completion.md, "Base URL": a request is sent to
\* <base_url>/chat/completions, that is to the host, the port (or the scheme's)
\* and the path of the base_url that was configured when it was asked for.
BaseUrlIsJoined ==
    \A r \in SentCalls :
        LET p == calls[r].fetched
            sent == calls[r].sent
            port == IF p.port # None THEN p.port
                    ELSE IF p.scheme = "https" THEN "443" ELSE "80"
            origin == <<p.scheme, ":", "/", "/", p.host, ":", port>>
        IN  /\ sent.connection.scheme = <<p.scheme>>
            /\ sent.connection.host = <<p.host>>
            /\ sent.connection.port = <<port>>
            /\ sent.target = (IF p.proxy # None /\ p.scheme = "http"
                              THEN origin ELSE <<>>) \o PathOf(p)

\* A request that is not disturbed is one provider's in all its parts: the
\* connection and its proxy, the credentials, the body and the log of its answer
\* all come from the configuration it was asked under, and nothing of one that
\* was configured before.  (Nothing is promised about a request in whose
\* flight the caller changes the objects: it may carry the key of one provider
\* to the other.)
UndisturbedIsOfOneProvider ==
    \A r \in SentCalls : ~ calls[r].disturbed =>
        LET p == calls[r].fetched
            sent == calls[r].sent
        IN  /\ sent.headers["authorization"] = p.key
            /\ sent.headers["openai-organization"] = p.organization
            /\ sent.headers["openai-project"] = p.project
            /\ sent.connection.proxy = p.proxy
            /\ calls[r].body_model = p.model
            /\ calls[r].stage = "answered" => calls[r].log_model = p.model

ProxyKnows(r) ==
    LET p == calls[r].fetched
    IN  p.proxy # None /\ p.auth # None =>
            IF p.scheme = "https"
            THEN calls[r].sent.connection.connect = p.auth
            ELSE calls[r].sent.headers["proxy-authorization"] = p.auth

\* The proxy receives its credentials with every streaming request, and with
\* every plain one that goes through a tunnel.
ProxyIsAuthenticated ==
    \A r \in SentCalls :
        r \in StreamCalls \/ calls[r].fetched.scheme = "https" => ProxyKnows(r)

\* docs/manual/oai-completion.md, "Proxy": a configured proxy authentication is
\* passed to the proxy, whichever fetch is used.
ProxyAuthenticationIsSent == \A r \in SentCalls : ProxyKnows(r)
=============================================================================
