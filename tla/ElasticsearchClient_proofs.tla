--------------------- MODULE ElasticsearchClient_proofs ---------------------
(* What holds of a client and of its requests for any configuration, any     *)
(* environment and any statuses.                                             *)
EXTENDS ElasticsearchClient, TLAPS

\* The client is what its configuration and the environment say now, and so are
\* the verdict for the environment seen then and the failure.
ConfigInv ==
    /\ verdict \in {"unasked", ValidateResult(cfg, envSeen)}
    /\ client # NoClient =>
        /\ endpoints(cfg, env).err = "ok"
        /\ \A i \in DOMAIN endpoints(cfg, env).endpoints : Parses(endpoints(cfg, env).endpoints[i])
        /\ client = ClientOf(cfg, endpoints(cfg, env).endpoints)
    /\ failure \notin {"ok", "http"} =>
        \/ endpoints(cfg, env).err # "ok"
        \/ \E i \in DOMAIN endpoints(cfg, env).endpoints : ~Parses(endpoints(cfg, env).endpoints[i])

\* How the attempts made so far stand to the settings: a further attempt is made
\* of a request that failed and may be sent again.
AttemptsInv ==
    /\ pc = "unbuilt" => attempts = 0
    /\ pc = "send" => attempts <= client.maxRetries /\ (attempts = 0 \/ ~client.disableRetry)
    /\ pc \in {"log", "next", "answered"} /\ attempts > 0 =>
        /\ attempts <= client.maxRetries + 1
        /\ attempts = 1 \/ ~client.disableRetry
        /\ resp # Nothing
    /\ pc = "log" => attempts > 0
    /\ pc = "answered" => ~GoesOn

\* What has been read of the bodies, and what the last record shows of them.
BodiesInv ==
    /\ LoggingTransparent
    /\ pc = "send" => requ = "whole"
    /\ LoggedAsSent

IInv == TypeOK /\ ConfigInv /\ AttemptsInv /\ BodiesInv

-----------------------------------------------------------------------------
(* The operators of ClientConfig                                           *)

\* A configuration is one of its type.
LEMMA ConfigsTyped == ASSUME NEW c \in Configs PROVE c \in ClientConfigs
BY ConfigsAssumption

\* TrimSpace keeps the type, and the number, of addresses.
LEMMA TrimSpaceType ==
    ASSUME NEW e \in Seq(Addresses)
    PROVE  TrimSpace(e) \in Seq(Addresses) /\ (e # <<>> => TrimSpace(e) # <<>>)
<1>1. \A a \in Addresses : [a EXCEPT !.padded = FALSE] \in Addresses
  BY DEF Addresses
<1>2. DOMAIN e = 1..Len(e) /\ Len(e) \in Nat
  OBVIOUS
<1>3. TrimSpace(e) \in [1..Len(e) -> Addresses]
  BY <1>1, <1>2 DEF TrimSpace
<1>4. TrimSpace(e) \in Seq(Addresses) /\ Len(TrimSpace(e)) = Len(e)
  BY <1>2, <1>3
<1>5. QED
  BY <1>4

\* parseCloudID returns one address that can be parsed, or an error.
LEMMA ParseCloudIDType ==
    ASSUME NEW id \in CloudIDs
    PROVE  \/ parseCloudID(id) = Failed("cloudid")
           \/ /\ parseCloudID(id) = Found(<<CloudAddress(id)>>)
              /\ CloudAddress(id) \in Addresses
              /\ Parses(CloudAddress(id))
<1>1. CASE id.colon /\ id.base64 /\ Len(id.parts) >= 2 /\ Parses(CloudAddress(id))
  <2>1. id.parts \in Seq(Labels)
    BY CloudIDAssumption
  <2>2. id.parts[1] \in Labels /\ id.parts[2] \in Labels
    BY <1>1, <2>1
  <2>3. <<id.parts[2], id.parts[1]>> \in Seq(Labels)
    BY <2>2
  <2>4. CloudAddress(id) \in Addresses
    BY <2>3 DEF CloudAddress, Addresses, HTTP
  <2>5. QED
    BY <1>1, <2>4 DEF parseCloudID
<1>2. CASE ~(id.colon /\ id.base64 /\ Len(id.parts) >= 2 /\ Parses(CloudAddress(id)))
  BY <1>2 DEF parseCloudID
<1>3. QED
  BY <1>1, <1>2

\* endpoints fails, takes the one field that is set, or the environment if none
\* is; what it finds is never empty.
LEMMA EndpointsType ==
    ASSUME NEW c \in Configs, NEW e \in Environments
    PROVE  \/ endpoints(c, e) \in {Failed("cloudid"), Failed("endpointRequired")}
           \/ /\ numEndpointConfigs(c) = 1
              /\ endpoints(c, e) = ConfiguredEndpoints(c)
              /\ endpoints(c, e).err = "ok"
              /\ endpoints(c, e).endpoints \in Seq(Addresses) \ {<<>>}
           \/ /\ numEndpointConfigs(c) = 0
              /\ e # <<>>
              /\ endpoints(c, e) = Found(TrimSpace(e))
              /\ endpoints(c, e).endpoints \in Seq(Addresses) \ {<<>>}
<1>1. c \in ClientConfigs /\ e \in Seq(Addresses)
  BY ConfigsTyped, EnvironmentsAssumption
<1>2. CASE c.CloudID # NoCloudID /\ parseCloudID(c.CloudID).err # "ok"
  <2>1. ConfiguredEndpoints(c) = parseCloudID(c.CloudID) /\ numEndpointConfigs(c) # 0
    BY <1>2 DEF ConfiguredEndpoints, numEndpointConfigs
  <2>2. endpoints(c, e) = parseCloudID(c.CloudID)
    BY <1>2, <2>1 DEF endpoints
  <2>3. c.CloudID \in CloudIDs
    BY <1>1, <1>2 DEF ClientConfigs
  <2>4. QED
    BY <1>2, <2>2, <2>3, ParseCloudIDType DEF Found
<1>3. CASE ~(c.CloudID # NoCloudID /\ parseCloudID(c.CloudID).err # "ok")
  <2>1. CASE numEndpointConfigs(c) = 1
    <3>1. /\ ConfiguredEndpoints(c).err = "ok"
          /\ ConfiguredEndpoints(c).endpoints \in Seq(Addresses) \ {<<>>}
      <4>1. CASE c.CloudID # NoCloudID
        <5>1. c.CloudID \in CloudIDs
          BY <1>1, <4>1 DEF ClientConfigs
        <5>2. ConfiguredEndpoints(c) = parseCloudID(c.CloudID)
          BY <4>1 DEF ConfiguredEndpoints
        <5>3. /\ parseCloudID(c.CloudID) = Found(<<CloudAddress(c.CloudID)>>)
              /\ CloudAddress(c.CloudID) \in Addresses
          BY <1>3, <4>1, <5>1, ParseCloudIDType DEF Failed
        <5>4. <<CloudAddress(c.CloudID)>> \in Seq(Addresses) \ {<<>>}
          BY <5>3
        <5>5. QED
          BY <5>2, <5>3, <5>4 DEF Found
      <4>2. CASE c.CloudID = NoCloudID /\ c.Endpoints # <<>>
        BY <1>1, <4>2 DEF ConfiguredEndpoints, Found, ClientConfigs
      <4>3. CASE c.CloudID = NoCloudID /\ c.Endpoints = <<>>
        <5>1. c.Endpoint \in Addresses
          BY <1>1 DEF ClientConfigs
        <5>2. <<c.Endpoint>> \in Seq(Addresses) \ {<<>>}
          BY <5>1
        <5>3. QED
          BY <4>3, <5>2 DEF ConfiguredEndpoints, Found
      <4>4. QED
        BY <4>1, <4>2, <4>3
    <3>2. endpoints(c, e) = ConfiguredEndpoints(c)
      BY <1>3, <2>1, <3>1 DEF endpoints
    <3>3. QED
      BY <2>1, <3>1, <3>2
  <2>2. CASE numEndpointConfigs(c) = 0 /\ e # <<>>
    <3>1. endpoints(c, e) = Found(TrimSpace(e))
      BY <1>3, <2>2 DEF endpoints
    <3>2. QED
      BY <1>1, <2>2, <3>1, TrimSpaceType DEF Found
  <2>3. CASE numEndpointConfigs(c) # 1 /\ ~(numEndpointConfigs(c) = 0 /\ e # <<>>)
    BY <1>3, <2>3 DEF endpoints
  <2>4. QED
    BY <2>1, <2>2, <2>3
<1>4. QED
  BY <1>2, <1>3

\* Endpoints in a field do not depend on the environment.
LEMMA EndpointsOfFields ==
    ASSUME NEW c, NEW e, NEW f, numEndpointConfigs(c) > 0
    PROVE  endpoints(c, e) = endpoints(c, f)
<1>1. numEndpointConfigs(c) # 0
  BY DEF numEndpointConfigs
<1>2. QED
  BY <1>1 DEF endpoints

\* An address that validateEndpoint accepts is an HTTP URL.
LEMMA ValidEndpoint ==
    ASSUME NEW a, validateEndpoint(a) = "ok"
    PROVE  Parses(a) /\ a.scheme \in HTTP
<1>1. a # Blank
  BY DEF validateEndpoint
<1>2. QED
  BY <1>1 DEF validateEndpoint

\* What Validate has looked at when it accepts.
LEMMA Accepted ==
    ASSUME NEW c \in Configs, NEW e \in Environments, ValidateResult(c, e) = "ok"
    PROVE  /\ endpoints(c, e).err = "ok"
           /\ \A i \in DOMAIN endpoints(c, e).endpoints :
                Parses(endpoints(c, e).endpoints[i]) /\ endpoints(c, e).endpoints[i].scheme \in HTTP
           /\ c.MaxRetries >= 0
<1> DEFINE found == endpoints(c, e)
           valid == \A i \in DOMAIN found.endpoints : validateEndpoint(found.endpoints[i]) = "ok"
<1>1. found.err = "ok"
  BY DEF ValidateResult
<1>2. valid
  BY <1>1 DEF ValidateResult
<1>3. SettingsError(c) = "ok"
  BY <1>1, <1>2 DEF ValidateResult
<1>4. c.MaxRetries >= 0
  <2>1. c.MaxRetries \in Int
    BY ConfigsTyped DEF ClientConfigs
  <2>2. c.Compression \in {"none", "gzip"}
    BY <1>3 DEF SettingsError
  <2>3. QED
    BY <1>3, <2>1, <2>2 DEF SettingsError
<1>5. QED
  BY <1>1, <1>2, <1>4, ValidEndpoint

\* Validate accepts or returns one of its errors.
LEMMA ValidateResultType ==
    ASSUME NEW c \in Configs, NEW e \in Environments
    PROVE  ValidateResult(c, e) \in Errors \cup {"ok"} /\ endpoints(c, e).err \in Errors \cup {"ok"}
<1>1. endpoints(c, e).err \in Errors \cup {"ok"}
  BY EndpointsType DEF Failed, Found, Errors
<1>2. SettingsError(c) \in Errors \cup {"ok"}
  BY DEF SettingsError, Errors
<1>3. QED
  BY <1>1, <1>2 DEF ValidateResult, Errors

\* The client made of endpoints that ToClient has found.
LEMMA ClientOfType ==
    ASSUME NEW c \in Configs, NEW s \in Seq(Addresses)
    PROVE  ClientOf(c, s) \in Clients
BY ConfigsTyped DEF ClientOf, Clients, ClientConfigs, maxRetries, defaultMaxRetries

-----------------------------------------------------------------------------
(* The invariant                                                           *)

LEMMA InitIInv == Init => IInv
<1> SUFFICES ASSUME Init PROVE IInv
  OBVIOUS
<1>1. ConfigTypeOK
  BY DEF Init, InitConfig, ConfigTypeOK
<1>2. record \in [request : Shown, response : Shown]
  BY DEF Init, NoRecord, Shown
<1>3. allWhole \in BOOLEAN /\ encoding \in {"", "gzip"} /\ attempts \in Nat
  BY DEF Init
<1>4. TypeOK
  BY <1>1, <1>2, <1>3 DEF Init, InitConfig, TypeOK, BodyState
<1>5. ConfigInv
  BY DEF Init, InitConfig, ConfigInv
<1>6. AttemptsInv
  BY DEF Init, AttemptsInv
<1>7. resp.kind # "response"
  BY DEF Init, Nothing
<1>8. BodiesInv
  BY <1>7 DEF Init, BodiesInv, LoggingTransparent, LoggedAsSent
<1>9. QED
  BY <1>4, <1>5, <1>6, <1>8 DEF IInv

\* The steps before there is a client.
LEMMA ConfigureIInv == ASSUME IInv, Configure PROVE IInv'
<1>1. /\ ConfigTypeOK /\ ConfigInv /\ pc = "unbuilt" /\ attempts = 0 /\ ConfigNext
      /\ cfg' = cfg
  BY DEF IInv, TypeOK, AttemptsInv, Configure, ConfigNext, Validate, Setenv, ToClient,
    HTTPClientFails, EndpointsFail, NewClientFails, ToClientFails, NewClient
<1>2. ConfigTypeOK' /\ ConfigInv'
  <2>1. CASE Validate
    BY <1>1, <2>1, ValidateResultType DEF Validate, Unbuilt, ConfigTypeOK, ConfigInv
  <2>2. CASE Setenv
    BY <1>1, <2>2 DEF Setenv, Unbuilt, ConfigTypeOK, ConfigInv
  <2>3. CASE HTTPClientFails
    BY <1>1, <2>3 DEF HTTPClientFails, ToClientFails, Unbuilt, ConfigTypeOK, ConfigInv, Errors
  <2>4. CASE EndpointsFail
    BY <1>1, <2>4, ValidateResultType DEF EndpointsFail, ToClientFails, Unbuilt, ConfigTypeOK,
      ConfigInv
  <2>5. CASE NewClientFails
    BY <1>1, <2>5 DEF NewClientFails, ToClientFails, Unbuilt, ConfigTypeOK, ConfigInv, Errors
  <2>6. CASE NewClient
    <3> DEFINE found == endpoints(cfg, env)
    <3>1. /\ UNCHANGED <<cfg, env, verdict, envSeen, failure>> /\ failure = "ok"
          /\ found.err = "ok"
          /\ \A i \in DOMAIN found.endpoints : Parses(found.endpoints[i])
          /\ client' = ClientOf(cfg, found.endpoints)
      BY <2>6 DEF NewClient, Unbuilt
    <3>2. found.endpoints \in Seq(Addresses) \ {<<>>}
      BY <1>1, <3>1, EndpointsType DEF ConfigTypeOK, Failed
    <3>3. client' \in Clients /\ client'.addresses # <<>>
      BY <1>1, <3>1, <3>2, ClientOfType DEF ConfigTypeOK, ClientOf
    <3>4. QED
      BY <1>1, <3>1, <3>3 DEF ConfigTypeOK, ConfigInv
  <2>7. QED
    BY <1>1, <2>1, <2>2, <2>3, <2>4, <2>5, <2>6 DEF ConfigNext, ToClient
<1>3. /\ pc' = IF client' = NoClient THEN "unbuilt" ELSE "next"
      /\ UNCHANGED <<encoding, requ, resp, attempts, allWhole, record>>
  BY DEF Configure
<1>4. TypeOK'
  BY <1>2, <1>3 DEF IInv, TypeOK
<1>5. AttemptsInv'
  BY <1>1, <1>3 DEF AttemptsInv
<1>6. BodiesInv'
  BY <1>1, <1>3 DEF IInv, BodiesInv, LoggingTransparent, LoggedAsSent
<1>7. QED
  BY <1>2, <1>4, <1>5, <1>6 DEF IInv

\* A step of a request leaves the configuration as it is.
LEMMA ConfigFrame ==
    ASSUME ConfigTypeOK, ConfigInv, UNCHANGED configVars
    PROVE  ConfigTypeOK' /\ ConfigInv'
BY DEF configVars, ConfigTypeOK, ConfigInv

\* The settings of the client there is once the request has begun.
LEMMA ClientSettings ==
    ASSUME IInv, pc # "unbuilt"
    PROVE  /\ client = ClientOf(cfg, endpoints(cfg, env).endpoints)
           /\ client.maxRetries \in Int /\ client.maxRetries = maxRetries(cfg)
           /\ client.disableRetry = ~cfg.Enabled
           /\ client.logRequestBody = cfg.LogRequestBody
           /\ client.logResponseBody = cfg.LogResponseBody
           /\ cfg \in ClientConfigs
<1>1. client # NoClient /\ cfg \in Configs
  BY DEF IInv, TypeOK, ConfigTypeOK
<1>2. client = ClientOf(cfg, endpoints(cfg, env).endpoints) /\ client \in Clients
  BY <1>1 DEF IInv, TypeOK, ConfigTypeOK, ConfigInv
<1>3. QED
  BY <1>1, <1>2, ConfigsTyped DEF ClientOf, Clients

LEMMA SendIInv == ASSUME IInv, Send PROVE IInv'
<1>1. ConfigTypeOK' /\ ConfigInv'
  BY ConfigFrame DEF IInv, TypeOK, Send
<1>2. QED
  BY <1>1 DEF Send, IInv, TypeOK, AttemptsInv, BodiesInv, LoggingTransparent, LoggedAsSent,
    GoesOn, BodyState, configVars

LEMMA ReturnIInv == ASSUME IInv, Return PROVE IInv'
<1>1. ConfigTypeOK' /\ ConfigInv'
  BY ConfigFrame DEF IInv, TypeOK, Return
<1>2. QED
  BY <1>1 DEF Return, IInv, TypeOK, AttemptsInv, BodiesInv, LoggingTransparent, LoggedAsSent,
    GoesOn, Retriable, retriedStatuses, configVars

LEMMA RoundTripIInv == ASSUME IInv, RoundTrip PROVE IInv'
<1>1. ConfigTypeOK' /\ ConfigInv'
  BY ConfigFrame DEF IInv, TypeOK, RoundTrip
<1>2. /\ resp' \in {Failure} \cup Responses
      /\ resp'.kind = "response" => resp'.body = "whole"
  BY DEF RoundTrip, Failure, Response, Responses, BodyState
<1>3. client.maxRetries \in Int /\ attempts \in Nat
  BY ClientSettings DEF IInv, TypeOK, RoundTrip
<1>4. TypeOK'
  <2>1. attempts' \in Nat
    BY <1>3 DEF RoundTrip
  <2>2. allWhole' \in BOOLEAN
    BY DEF RoundTrip, IInv, TypeOK
  <2>3. requ' \in BodyState /\ pc' = "log" /\ pc # "unbuilt" /\ client' = client
        /\ encoding' = encoding /\ record' = record
    BY DEF RoundTrip, BodyState, configVars
  <2>4. QED
    BY <1>1, <1>2, <2>1, <2>2, <2>3 DEF RoundTrip, IInv, TypeOK
<1>5. AttemptsInv'
  BY <1>2, <1>3 DEF RoundTrip, IInv, AttemptsInv, Nothing, Failure, Responses, configVars
<1>6. BodiesInv'
  BY <1>2 DEF RoundTrip, IInv, BodiesInv, LoggingTransparent, LoggedAsSent, configVars
<1>7. QED
  BY <1>1, <1>4, <1>5, <1>6 DEF IInv

LEMMA LogIInv == ASSUME IInv, Log PROVE IInv'
<1>1. ConfigTypeOK' /\ ConfigInv'
  BY ConfigFrame DEF IInv, TypeOK, Log
<1>2. resp' = resp
  BY DEF Log, ResponseBodyEnabled
<1>3. resp.kind = "response" => resp.body = "whole"
  BY DEF IInv, BodiesInv, LoggingTransparent
<1>4. RequestField("whole") = "text"
  BY DEF RequestField, Bytes, Gunzip, IInv, TypeOK
<1>5. /\ record'.request = IF cfg.LogRequestBody THEN "text" ELSE "absent"
      /\ record'.response = IF cfg.LogResponseBody /\ resp.kind = "response"
                            THEN "text" ELSE "absent"
      /\ record' \in [request : Shown, response : Shown]
  BY <1>3, <1>4, ClientSettings DEF Log, LogRoundTrip, RequestBodyEnabled, ResponseField, Shown
<1>6. TypeOK'
  BY <1>1, <1>2, <1>5 DEF Log, IInv, TypeOK, configVars
<1>7. AttemptsInv'
  BY <1>2 DEF Log, IInv, AttemptsInv, configVars
<1>8. BodiesInv'
  BY <1>2, <1>5 DEF Log, IInv, BodiesInv, LoggingTransparent, LoggedAsSent, configVars
<1>9. QED
  BY <1>1, <1>6, <1>7, <1>8 DEF IInv

LEMMA StutterIInv == ASSUME IInv, UNCHANGED vars PROVE IInv'
<1>1. ConfigTypeOK' /\ ConfigInv'
  BY ConfigFrame DEF IInv, TypeOK, vars
<1>2. TypeOK'
  BY <1>1 DEF IInv, TypeOK, vars, configVars, requestVars
<1>3. AttemptsInv'
  BY DEF IInv, AttemptsInv, GoesOn, Retriable, retriedStatuses, vars, configVars, requestVars
<1>4. BodiesInv'
  BY DEF IInv, BodiesInv, LoggingTransparent, LoggedAsSent, vars, configVars, requestVars
<1>5. QED
  BY <1>1, <1>2, <1>3, <1>4 DEF IInv

LEMMA Invariance == Spec => []IInv
<1>1. IInv /\ [Next]_vars => IInv'
  BY ConfigureIInv, SendIInv, ReturnIInv, RoundTripIInv, LogIInv, StutterIInv DEF Next
<1>2. QED
  BY InitIInv, <1>1, PTL DEF Spec

-----------------------------------------------------------------------------
(* The theorems                                                            *)

\* Every variable has its type, and a client always has an address.
THEOREM TypeCorrect == Spec => []TypeOK
<1>1. IInv => TypeOK
  BY DEF IInv
<1>2. QED
  BY Invariance, <1>1, PTL

\* What Validate has found is what ToClient finds, unless the environment, on which
\* both depend where no field is set, has changed in between.
LEMMA VouchedEndpoints ==
    ASSUME IInv, Vouched
    PROVE  /\ endpoints(cfg, env).err = "ok"
           /\ \A i \in DOMAIN endpoints(cfg, env).endpoints :
                /\ Parses(endpoints(cfg, env).endpoints[i])
                /\ endpoints(cfg, env).endpoints[i].scheme \in HTTP
<1>1. cfg \in Configs /\ envSeen \in Environments
  BY DEF IInv, TypeOK, ConfigTypeOK
<1>2. ValidateResult(cfg, envSeen) = "ok"
  BY DEF IInv, ConfigInv, Vouched
<1>3. endpoints(cfg, env) = endpoints(cfg, envSeen)
  BY EndpointsOfFields DEF Vouched
<1>4. QED
  BY <1>1, <1>2, <1>3, Accepted

\* Whatever the configuration and however the environment changes, a client whose
\* configuration has been accepted speaks HTTP to all of its addresses.
THEOREM AddressesValidated == Spec => []ValidatedAddresses
<1>1. IInv => ValidatedAddresses
  <2>1. SUFFICES ASSUME IInv, client # NoClient, Vouched
                 PROVE  \A i \in DOMAIN client.addresses :
                          client.addresses[i].scheme \in HTTP /\ Parses(client.addresses[i])
    BY DEF ValidatedAddresses
  <2>2. client.addresses = endpoints(cfg, env).endpoints
    BY <2>1 DEF IInv, ConfigInv, ClientOf
  <2>3. QED
    BY <2>1, <2>2, VouchedEndpoints
<1>2. QED
  BY Invariance, <1>1, PTL

\* ToClient fails over an endpoint only if Validate has not accepted, or if the
\* environment has changed since.
THEOREM FailuresForeseen == Spec => []ValidateForesees
<1>1. IInv => ValidateForesees
  <2>1. SUFFICES ASSUME IInv, failure \notin {"ok", "http"} PROVE ~Vouched
    BY DEF ValidateForesees
  <2>2. QED
    BY <2>1, VouchedEndpoints DEF IInv, ConfigInv
<1>2. QED
  BY Invariance, <1>1, PTL

\* The addresses of a client come from the one field that is set, or from the
\* environment if none is.
THEOREM SingleSource == Spec => []OneSource
<1>1. IInv => OneSource
  <2>1. SUFFICES ASSUME IInv, client # NoClient PROVE OneSource
    BY DEF OneSource
  <2>2. cfg \in Configs /\ env \in Environments
    BY <2>1 DEF IInv, TypeOK, ConfigTypeOK
  <2>3. /\ endpoints(cfg, env).err = "ok"
        /\ client.addresses = endpoints(cfg, env).endpoints
    BY <2>1 DEF IInv, ConfigInv, ClientOf
  <2>4. QED
    BY <2>2, <2>3, EndpointsType DEF OneSource, Found, Failed
<1>2. QED
  BY Invariance, <1>1, PTL

\* With any number of retries that Validate accepts, a request is sent at least
\* once and at most as often as the settings say, and as often as they say if it
\* keeps failing.
THEOREM AttemptsBounded == Spec => []RetriesAsConfigured
<1>1. IInv => RetriesAsConfigured
  <2>1. SUFFICES ASSUME IInv, pc = "answered", verdict = "ok" PROVE RetriesAsConfigured
    BY DEF RetriesAsConfigured
  <2>2. /\ client.maxRetries \in Int /\ client.maxRetries = maxRetries(cfg)
        /\ client.disableRetry = ~cfg.Enabled
        /\ cfg.Enabled \in BOOLEAN /\ cfg.MaxRetries \in Int
    BY <2>1, ClientSettings DEF ClientConfigs
  <2>3. cfg.MaxRetries >= 0
    BY <2>1, Accepted DEF IInv, TypeOK, ConfigTypeOK, ConfigInv
  <2>4. /\ client.maxRetries >= 0
        /\ client.maxRetries = IF cfg.MaxRetries = 0 THEN defaultMaxRetries ELSE cfg.MaxRetries
    BY <2>2, <2>3 DEF maxRetries, defaultMaxRetries
  <2>5. attempts \in Nat /\ ~GoesOn
    BY <2>1 DEF IInv, TypeOK, AttemptsInv
  <2>6. attempts # 0
    BY <2>4, <2>2, <2>5 DEF GoesOn
  <2>7. /\ attempts <= client.maxRetries + 1
        /\ attempts = 1 \/ cfg.Enabled
        /\ resp # Nothing
    <3>1. attempts > 0
      BY <2>5, <2>6
    <3>2. QED
      BY <2>1, <2>2, <3>1 DEF IInv, AttemptsInv
  <2>8. Retriable => attempts > client.maxRetries \/ ~cfg.Enabled
    <3>1. Retriable /\ ~client.disableRetry => ~(attempts <= client.maxRetries)
      BY <2>5 DEF GoesOn
    <3>2. client.disableRetry => ~cfg.Enabled
      BY <2>2
    <3>3. ~(attempts <= client.maxRetries) => attempts > client.maxRetries
      BY <2>2, <2>5
    <3>4. QED
      BY <3>1, <3>2, <3>3
  <2>9. CASE ~cfg.Enabled
    BY <2>7, <2>9 DEF RetriesAsConfigured
  <2>10. CASE cfg.Enabled /\ cfg.MaxRetries = 0
    BY <2>2, <2>4, <2>5, <2>6, <2>7, <2>8, <2>10 DEF RetriesAsConfigured, defaultMaxRetries
  <2>11. CASE cfg.Enabled /\ cfg.MaxRetries # 0
    BY <2>2, <2>4, <2>5, <2>6, <2>7, <2>8, <2>11 DEF RetriesAsConfigured
  <2>12. QED
    BY <2>2, <2>9, <2>10, <2>11
<1>2. QED
  BY Invariance, <1>1, PTL

\* The logger, whatever it reads, leaves every request and every response whole.
THEOREM LoggerTransparent == Spec => []LoggingTransparent
<1>1. IInv => LoggingTransparent
  BY DEF IInv, BodiesInv
<1>2. QED
  BY Invariance, <1>1, PTL

\* A record shows the text of what was sent and received, on a retry too.
THEOREM LoggerTruthful == Spec => []LoggedAsSent
<1>1. IInv => LoggedAsSent
  BY DEF IInv, BodiesInv
<1>2. QED
  BY Invariance, <1>1, PTL
=============================================================================
