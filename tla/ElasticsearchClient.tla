------------------------- MODULE ElasticsearchClient -------------------------
(***************************************************************************)
(* A client built by ClientConfig sends a request: it goes out until it is *)
(* answered or its retries are used up, and clientLogger                   *)
(* (src/config/configelasticsearch/esclient.go), which consumes the bodies *)
(* it is handed, is called after every attempt.                            *)
(*                                                                         *)
(* External: the transport, which sends the request, hands the logger      *)
(* copies of the bodies the logger asks for and the bodies themselves      *)
(* otherwise, rewinds the request before it sends it again, and stops.     *)
(* The context of the request is not done; how long a retry waits is the   *)
(* subject of RetryBackoff.                                                *)
(***************************************************************************)
EXTENDS ClientConfig

VARIABLES
    pc,                  \* unbuilt, next, send, log or answered
    encoding,            \* Content-Encoding of the request: "" or gzip
    requ,                \* what is left to read of the body of the request ...
    resp,                \* ... and the outcome of the last attempt
    attempts,            \* ghost: how often the request has been sent
    allWhole,            \* ghost: the server has each time received the whole body
    record               \* the bodies in the last log record

requestVars == <<pc, encoding, requ, resp, attempts, allWhole, record>>
vars == <<configVars, requestVars>>

\* A body not yet read, and one read to its end.
BodyState == {"whole", "spent"}

\* No outcome yet, an error of the connection, or a response: its status and
\* what is left to read of its body.
Nothing == [kind |-> "nothing"]
Failure == [kind |-> "error"]
Response(status, body) == [kind |-> "response", status |-> status, body |-> body]
Responses == [kind : {"response"}, status : Statuses, body : BodyState]

\* What a log record shows of a body: no field, text, bytes of gzip, or nothing
\* because the body had been read before.
Shown == {"absent", "text", "compressed", "empty"}
NoRecord == [request |-> "absent", response |-> "absent"]

Init ==
    /\ InitConfig
    /\ pc = "unbuilt"
    /\ encoding \in {"", "gzip"}
    /\ requ = "whole"
    /\ resp = Nothing
    /\ attempts = 0
    /\ allWhole = TRUE
    /\ record = NoRecord

\* What happens to the configuration until there is a client.
Configure ==
    /\ pc = "unbuilt"
    /\ ConfigNext
    /\ pc' = IF client' = NoClient THEN "unbuilt" ELSE "next"
    /\ UNCHANGED <<encoding, requ, resp, attempts, allWhole, record>>

-----------------------------------------------------------------------------
(* The transport                                                           *)

\* Without a list of its own a client retries on the statuses of the library.
defaultRetryOnStatus == {502, 503, 504}
retriedStatuses ==
    IF client.retryOnStatus = {} THEN defaultRetryOnStatus ELSE client.retryOnStatus

\* The loop runs once and up to maxRetries times more: not at all for a number
\* below zero, when the caller gets neither a response nor an error.
Retriable ==
    \/ resp.kind = "error"
    \/ resp.kind = "response" /\ resp.status \in retriedStatuses

GoesOn ==
    /\ attempts <= client.maxRetries
    /\ attempts = 0 \/ (Retriable /\ ~client.disableRetry)

Send ==
    /\ pc = "next"
    /\ GoesOn
    /\ pc' = "send"
    /\ requ' = "whole"
    /\ UNCHANGED <<configVars, encoding, resp, attempts, allWhole, record>>

Return ==
    /\ pc = "next"
    /\ ~GoesOn
    /\ pc' = "answered"
    /\ UNCHANGED <<configVars, encoding, requ, resp, attempts, allWhole, record>>

\* The request goes to one of the addresses, which must speak HTTP to answer.
RoundTrip ==
    /\ pc = "send"
    /\ \/ resp' = Failure
       \/ /\ \E i \in DOMAIN client.addresses : client.addresses[i].scheme \in HTTP
          /\ \E status \in Statuses : resp' = Response(status, "whole")
    /\ attempts' = attempts + 1
    /\ allWhole' = (allWhole /\ requ = "whole")
    /\ requ' = "spent"
    /\ pc' = "log"
    /\ UNCHANGED <<configVars, encoding, record>>

-----------------------------------------------------------------------------
(* clientLogger                                                            *)

\* Mutant: the logger does not ask for a copy of the body of the request.
RequestBodyNeverEnabled == FALSE

RequestBodyEnabled == client.logRequestBody

\* Mutant: the logger does not ask for a copy of the body of the response.
ResponseBodyNeverEnabled == FALSE

ResponseBodyEnabled == client.logResponseBody

\* What a body of the request holds: sent compressed if its header says so.
Bytes(body) ==
    CASE body = "spent" -> "empty"
      [] body = "whole" /\ encoding = "gzip" -> "compressed"
      [] body = "whole" /\ encoding # "gzip" -> "text"

Gunzip(bytes) == IF bytes = "compressed" THEN "text" ELSE bytes

RequestField(body) == IF encoding = "gzip" THEN Gunzip(Bytes(body)) ELSE Bytes(body)

ResponseField(body) == IF body = "whole" THEN "text" ELSE "empty"

\* LogRoundTrip reads to their ends the bodies it is to log, if there are any; a
\* response without a body is "none".
LogRoundTrip(requBody, respBody) ==
    record' = [request |-> IF client.logRequestBody THEN RequestField(requBody) ELSE "absent",
               response |-> IF client.logResponseBody /\ respBody # "none"
                            THEN ResponseField(respBody) ELSE "absent"]

\* The transport calls the logger.  If asked to it rewinds the request and keeps
\* the response to itself; otherwise the logger has the bodies themselves, and
\* what it reads of the response the caller cannot read any more.
Log ==
    /\ pc = "log"
    /\ LogRoundTrip(IF RequestBodyEnabled THEN "whole" ELSE requ,
                    IF resp.kind = "response" THEN resp.body ELSE "none")
    /\ resp' = IF resp.kind = "response" /\ client.logResponseBody /\ ~ResponseBodyEnabled
               THEN Response(resp.status, "spent") ELSE resp
    /\ pc' = "next"
    /\ UNCHANGED <<configVars, encoding, requ, attempts, allWhole>>

-----------------------------------------------------------------------------
Next == Configure \/ Send \/ RoundTrip \/ Log \/ Return

Spec == Init /\ [][Next]_vars

-----------------------------------------------------------------------------
(* Properties                                                              *)

\* Every variable has its type; the client, if there is one, has an address, as
\* NewClient would take addresses of its own for an empty list.
TypeOK ==
    /\ ConfigTypeOK
    /\ pc \in {"unbuilt", "next", "send", "log", "answered"}
    /\ (pc = "unbuilt") = (client = NoClient)
    /\ encoding \in {"", "gzip"}
    /\ requ \in BodyState
    /\ resp \in {Nothing, Failure} \cup Responses
    /\ attempts \in Nat
    /\ allWhole \in BOOLEAN
    /\ record \in [request : Shown, response : Shown]

\* A request of a client whose configuration Validate has accepted is sent, and
\* no more often than the settings allow; an error, or a response whose status
\* is to be retried, reaches the caller only after as many attempts as they ask
\* for.  Never does the caller get neither a response nor an error.
RetriesAsConfigured ==
    pc = "answered" /\ verdict = "ok" =>
        LET limit == CASE ~cfg.Enabled -> 1
                       [] cfg.Enabled /\ cfg.MaxRetries = 0 -> 1 + defaultMaxRetries
                       [] cfg.Enabled /\ cfg.MaxRetries # 0 -> 1 + cfg.MaxRetries
        IN  /\ resp # Nothing
            /\ 1 <= attempts /\ attempts <= limit
            /\ Retriable => attempts = limit

\* Logging changes nothing for the server or for the caller: every attempt sends
\* the whole body, and the response is returned with its body unread, whatever
\* the logger has read.
LoggingTransparent ==
    /\ allWhole
    /\ resp.kind = "response" => resp.body = "whole"

\* The record of an attempt shows the text of the body that was sent, also of a
\* compressed one and on a retry, and of the response, exactly if the settings
\* ask for it.
LoggedAsSent ==
    pc \in {"next", "answered"} /\ attempts > 0 =>
        /\ record.request = IF cfg.LogRequestBody THEN "text" ELSE "absent"
        /\ record.response = IF cfg.LogResponseBody /\ resp.kind = "response"
                             THEN "text" ELSE "absent"
=============================================================================
