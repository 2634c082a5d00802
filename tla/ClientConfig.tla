---------------------------- MODULE ClientConfig ----------------------------
(***************************************************************************)
(* The configuration of an Elasticsearch client                            *)
(* (src/config/configelasticsearch): Validate checks a ClientConfig,       *)
(* ToClient builds a client from it.  Each finds the endpoints for itself, *)
(* in three fields or in the environment, which may change in between, and *)
(* ToClient does not ask whether Validate was called.                      *)
(*                                                                         *)
(* An address is a URL with what Validate and url.Parse can see of it: its *)
(* scheme, the labels of its host, and whether blanks surround it.  The    *)
(* value of the environment variable is the sequence of addresses between  *)
(* its commas.                                                             *)
(*                                                                         *)
(* External: confighttp.ClientConfig, with a Validate and a ToClient of    *)
(* its own, and elasticsearch.NewClient.                                   *)
(***************************************************************************)
EXTENDS Integers, Sequences

CONSTANTS
    Labels,              \* labels of host names
    BadLabels,           \* those among them url.Parse rejects
    CloudIDs,            \* cloud ids: [colon, base64, parts]
    NoCloudID,           \* the empty cloud id
    Statuses,            \* HTTP status codes
    Configs,             \* the ClientConfigs to look at
    Environments,        \* values of ELASTICSEARCH_URL, <<>> being the empty one
    NoClient

defaultMaxRetries == 2
TooManyRequests == 429

\* Malformed stands for the beginning of a URL that url.Parse rejects.
Malformed == "*:"
HTTP == {"http", "https"}
Addresses ==
    [scheme : HTTP \cup {"", "ftp", Malformed}, host : Seq(Labels), padded : BOOLEAN]

\* The empty string.
Blank == [scheme |-> "", host |-> <<>>, padded |-> FALSE]

ClientConfigs ==
    [Endpoint : Addresses, Endpoints : Seq(Addresses), CloudID : CloudIDs \cup {NoCloudID},
     Compression : {"none", "gzip", "snappy"}, httpValid : BOOLEAN,
     Enabled : BOOLEAN, MaxRetries : Int, RetryOnStatus : SUBSET Statuses,
     LogRequestBody : BOOLEAN, LogResponseBody : BOOLEAN]

ASSUME LabelsAssumption == BadLabels \subseteq Labels
ASSUME CloudIDAssumption ==
    /\ CloudIDs \subseteq [colon : BOOLEAN, base64 : BOOLEAN, parts : Seq(Labels)]
    /\ NoCloudID \notin CloudIDs
ASSUME ConfigsAssumption == Configs \subseteq ClientConfigs
ASSUME EnvironmentsAssumption == Environments \subseteq Seq(Addresses)

\* NewDefaultClientConfig; endpoints are left to the user.
NewDefaultClientConfig ==
    [Endpoint |-> Blank, Endpoints |-> <<>>, CloudID |-> NoCloudID,
     Compression |-> "gzip", httpValid |-> TRUE,
     Enabled |-> TRUE, MaxRetries |-> 0, RetryOnStatus |-> {TooManyRequests},
     LogRequestBody |-> FALSE, LogResponseBody |-> FALSE]

VARIABLES
    cfg,                 \* the ClientConfig
    env,                 \* ELASTICSEARCH_URL
    verdict,             \* what Validate has last returned, "unasked" before
    envSeen,             \* ghost: env when Validate was last called
    failure,             \* the error of ToClient, "ok" if there is none
    client               \* the client ToClient has built

configVars == <<cfg, env, verdict, envSeen, failure, client>>

Clients ==
    [addresses : Seq(Addresses), maxRetries : Int, disableRetry : BOOLEAN,
     retryOnStatus : SUBSET Statuses, logRequestBody : BOOLEAN, logResponseBody : BOOLEAN]

\* Errors, named for what they are about.
Errors == {"cloudid", "endpointRequired", "endpoint", "badURL", "compression", "maxRetries",
           "http"}

-----------------------------------------------------------------------------
(* Endpoints                                                               *)

\* url.Parse: blanks around a URL spoil its scheme or its host.
Parses(a) ==
    /\ a.scheme # Malformed
    /\ a.padded => a.scheme = ""
    /\ \A i \in DOMAIN a.host : a.host[i] \notin BadLabels

Found(s) == [err |-> "ok", endpoints |-> s]
Failed(e) == [err |-> e, endpoints |-> <<>>]

\* The address made of the first two parts of a cloud id.
CloudAddress(id) ==
    [scheme |-> "https", host |-> <<id.parts[2], id.parts[1]>>, padded |-> FALSE]

parseCloudID(id) ==
    IF id.colon /\ id.base64 /\ Len(id.parts) >= 2 /\ Parses(CloudAddress(id))
    THEN Found(<<CloudAddress(id)>>)
    ELSE Failed("cloudid")

\* How many of the three fields hold endpoints.
numEndpointConfigs(c) ==
    (IF c.Endpoint # Blank THEN 1 ELSE 0)
      + (IF c.Endpoints # <<>> THEN 1 ELSE 0)
      + (IF c.CloudID # NoCloudID THEN 1 ELSE 0)

\* The endpoints of the last field that holds some.
ConfiguredEndpoints(c) ==
    CASE c.CloudID # NoCloudID -> parseCloudID(c.CloudID)
      [] c.CloudID = NoCloudID /\ c.Endpoints # <<>> -> Found(c.Endpoints)
      [] c.CloudID = NoCloudID /\ c.Endpoints = <<>> -> Found(<<c.Endpoint>>)

TrimSpace(e) == [i \in DOMAIN e |-> [e[i] EXCEPT !.padded = FALSE]]

\* Mutant: having no endpoint at all is no error.
endpointsOptional(c, e) ==
    CASE c.CloudID # NoCloudID /\ parseCloudID(c.CloudID).err # "ok" -> parseCloudID(c.CloudID)
      [] numEndpointConfigs(c) = 1 -> ConfiguredEndpoints(c)
      [] numEndpointConfigs(c) = 0 -> Found(TrimSpace(e))
      [] OTHER -> Failed("endpointRequired")

\* Mutant: the environment comes before the fields.
endpointsEnvironmentFirst(c, e) ==
    CASE e # <<>> -> Found(TrimSpace(e))
      [] e = <<>> /\ numEndpointConfigs(c) = 1 -> ConfiguredEndpoints(c)
      [] OTHER -> Failed("endpointRequired")

\* A cloud id that cannot be read is an error whatever else is configured; then
\* exactly one field must hold endpoints, or the environment if none does.
endpoints(c, e) ==
    CASE c.CloudID # NoCloudID /\ parseCloudID(c.CloudID).err # "ok" -> parseCloudID(c.CloudID)
      [] numEndpointConfigs(c) = 1 /\ ConfiguredEndpoints(c).err = "ok" -> ConfiguredEndpoints(c)
      [] numEndpointConfigs(c) = 0 /\ e # <<>> -> Found(TrimSpace(e))
      [] OTHER -> Failed("endpointRequired")

-----------------------------------------------------------------------------
(* Validate                                                                *)

\* Mutant: whether an endpoint can be parsed is not looked at.
validateEndpointUnparsed(a) ==
    CASE a = Blank -> "emptyEndpoint"
      [] a # Blank /\ a.scheme = "ftp" -> "scheme"
      [] OTHER -> "ok"

\* Mutant: any scheme will do.
validateEndpointAnyScheme(a) ==
    CASE a = Blank -> "emptyEndpoint"
      [] a # Blank /\ ~Parses(a) -> "badURL"
      [] OTHER -> "ok"

validateEndpoint(a) ==
    CASE a = Blank -> "emptyEndpoint"
      [] a # Blank /\ ~Parses(a) -> "badURL"
      [] a # Blank /\ Parses(a) /\ a.scheme \notin HTTP -> "scheme"
      [] OTHER -> "ok"

\* Mutant: a negative number of retries is accepted.
SettingsErrorAnyRetries(c) ==
    CASE c.Compression \notin {"none", "gzip"} -> "compression"
      [] c.Compression \in {"none", "gzip"} /\ ~c.httpValid -> "http"
      [] OTHER -> "ok"

\* The checks after those of the endpoints, confighttp's own last.
SettingsError(c) ==
    CASE c.Compression \notin {"none", "gzip"} -> "compression"
      [] c.Compression \in {"none", "gzip"} /\ c.MaxRetries < 0 -> "maxRetries"
      [] c.Compression \in {"none", "gzip"} /\ c.MaxRetries >= 0 /\ ~c.httpValid -> "http"
      [] OTHER -> "ok"

\* An endpoint that is not valid is reported before any other error in the
\* settings; with which error is left out.
ValidateResult(c, e) ==
    LET found == endpoints(c, e)
        valid == \A i \in DOMAIN found.endpoints : validateEndpoint(found.endpoints[i]) = "ok"
    IN  CASE found.err # "ok" -> found.err
          [] found.err = "ok" /\ ~valid -> "endpoint"
          [] found.err = "ok" /\ valid -> SettingsError(c)

InitConfig ==
    /\ cfg \in Configs
    /\ env \in Environments
    /\ verdict = "unasked"
    /\ envSeen = env
    /\ failure = "ok"
    /\ client = NoClient

\* ToClient has not been called yet.
Unbuilt == client = NoClient /\ failure = "ok"

Validate ==
    /\ Unbuilt
    /\ verdict' = ValidateResult(cfg, env)
    /\ envSeen' = env
    /\ UNCHANGED <<cfg, env, failure, client>>

\* Some other code of the process calls os.Setenv.
Setenv ==
    /\ Unbuilt
    /\ env' \in Environments
    /\ UNCHANGED <<cfg, verdict, envSeen, failure, client>>

-----------------------------------------------------------------------------
(* ToClient                                                                *)

ToClientFails(err) ==
    /\ Unbuilt
    /\ failure' = err
    /\ UNCHANGED <<cfg, env, verdict, envSeen, client>>

\* confighttp cannot build its client: files, certificates or extensions it
\* needs may be missing now.
HTTPClientFails == ToClientFails("http")

EndpointsFail ==
    /\ endpoints(cfg, env).err # "ok"
    /\ ToClientFails(endpoints(cfg, env).err)

\* NewClient parses the addresses again.
NewClientFails ==
    /\ endpoints(cfg, env).err = "ok"
    /\ \E i \in DOMAIN endpoints(cfg, env).endpoints : ~Parses(endpoints(cfg, env).endpoints[i])
    /\ ToClientFails("badURL")

maxRetries(c) == IF c.MaxRetries # 0 THEN c.MaxRetries ELSE defaultMaxRetries

ClientOf(c, s) ==
    [addresses |-> s, maxRetries |-> maxRetries(c), disableRetry |-> ~c.Enabled,
     retryOnStatus |-> c.RetryOnStatus,
     logRequestBody |-> c.LogRequestBody, logResponseBody |-> c.LogResponseBody]

NewClient ==
    /\ Unbuilt
    /\ LET found == endpoints(cfg, env)
       IN  /\ found.err = "ok"
           /\ \A i \in DOMAIN found.endpoints : Parses(found.endpoints[i])
           /\ client' = ClientOf(cfg, found.endpoints)
    /\ UNCHANGED <<cfg, env, verdict, envSeen, failure>>

ToClient == HTTPClientFails \/ EndpointsFail \/ NewClientFails \/ NewClient

ConfigNext == Validate \/ Setenv \/ ToClient

-----------------------------------------------------------------------------
(* Properties                                                              *)

ConfigTypeOK ==
    /\ cfg \in Configs
    /\ env \in Environments /\ envSeen \in Environments
    /\ verdict \in Errors \cup {"ok", "unasked"}
    /\ failure \in Errors \cup {"ok"}
    /\ client = NoClient \/ (client \in Clients /\ client.addresses # <<>>)

\* Validate has accepted, and what it accepted is what ToClient finds: the
\* endpoints are in a field, or the environment is as it was.
Vouched == verdict = "ok" /\ (numEndpointConfigs(cfg) > 0 \/ env = envSeen)

\* A client whose configuration Validate has accepted speaks HTTP to every one
\* of its addresses, although ToClient finds them anew and does not check them:
\* only a change of the environment, where no field is set, can get in between.
ValidatedAddresses ==
    client # NoClient /\ Vouched =>
        \A i \in DOMAIN client.addresses :
            client.addresses[i].scheme \in HTTP /\ Parses(client.addresses[i])

\* After Validate has accepted, ToClient does not fail over an endpoint: if it
\* fails, then confighttp did, or the environment, on which all depended, has
\* changed.
ValidateForesees == failure \notin {"ok", "http"} => ~Vouched

\* With or without Validate, the addresses of a client come from one source: two
\* fields are never both used nor one preferred, the environment is used if no
\* field is set, and never otherwise.
OneSource ==
    client # NoClient =>
        \/ /\ numEndpointConfigs(cfg) = 1
           /\ client.addresses = ConfiguredEndpoints(cfg).endpoints
        \/ numEndpointConfigs(cfg) = 0 /\ client.addresses = TrimSpace(env) /\ env # <<>>
=============================================================================
