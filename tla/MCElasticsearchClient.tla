----------------------- MODULE MCElasticsearchClient -----------------------
(* A small instance of ElasticsearchClient: every combination of the three     *)
(* fields of endpoints with the default settings, and every combination of the *)
(* settings with one valid endpoint.                                           *)
EXTENDS ElasticsearchClient

MCLabels == {"es", "cloud", "a b"}
MCBadLabels == {"a b"}
MCStatuses == {200, TooManyRequests, 503}

URL(scheme) == [scheme |-> scheme, host |-> <<"es">>, padded |-> FALSE]
Padded(a) == [a EXCEPT !.padded = TRUE]

CloudID(colon, base64, parts) == [colon |-> colon, base64 |-> base64, parts |-> parts]

\* A good one, one for each of the errors of parseCloudID, and one whose host
\* url.Parse rejects.
MCCloudIDs ==
    {CloudID(TRUE, TRUE, <<"cloud", "es", "es">>), CloudID(FALSE, TRUE, <<"cloud", "es">>),
     CloudID(TRUE, FALSE, <<>>), CloudID(TRUE, TRUE, <<"cloud">>),
     CloudID(TRUE, TRUE, <<"cloud", "a b">>)}

EndpointChoices == {Blank, URL("http"), URL(""), Padded(URL("https"))}
EndpointsChoices ==
    {<<>>, <<URL("https")>>, <<URL("http"), URL("https")>>, <<Blank>>,
     <<URL("http"), URL(Malformed)>>, <<URL("ftp"), URL("http")>>}

SourceConfigs ==
    {[NewDefaultClientConfig EXCEPT !.Endpoint = one, !.Endpoints = many, !.CloudID = id] :
        one \in EndpointChoices, many \in EndpointsChoices, id \in MCCloudIDs \cup {NoCloudID}}

SettingConfigs ==
    {[NewDefaultClientConfig EXCEPT !.Endpoints = <<URL("https")>>, !.Compression = comp,
        !.httpValid = valid, !.Enabled = on, !.MaxRetries = n, !.RetryOnStatus = statuses,
        !.LogRequestBody = requLogged, !.LogResponseBody = respLogged] :
        comp \in {"none", "gzip", "snappy"}, valid \in BOOLEAN, on \in BOOLEAN, n \in -1..2,
        statuses \in {{TooManyRequests}, {}},
        requLogged \in BOOLEAN, respLogged \in BOOLEAN}

MCConfigs == SourceConfigs \cup SettingConfigs

\* The empty variable; blanks after a comma; an empty element; errors; a blank.
MCEnvironments ==
    {<<>>, <<URL("http"), Padded(URL("https"))>>, <<URL("http"), Blank>>,
     <<URL("http"), Padded(URL(Malformed))>>, <<Padded(Blank)>>}
=============================================================================
