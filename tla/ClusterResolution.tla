------------------------- MODULE ClusterResolution -------------------------
(***************************************************************************)
(* What a hostname, or a configured URL, makes of a request's target       *)
(* (config.go).  A text is what the code can tell apart of one: the white  *)
(* space around it, its scheme as it is written, its host, a slash at its  *)
(* end.  Hosts that differ in letter case are different hosts here, as     *)
(* they are to the code.                                                   *)
(***************************************************************************)

CONSTANTS
    Labels,             \* hosts without a dot or a colon, like short aliases
    Endpoints,          \* hosts with one: fully qualified, or with a port
    Schemes,            \* URL schemes, in any letter case
    LowerCase,          \* url.Parse writes a scheme in lower case
    Clients,            \* OAuth client names
    Unknown             \* resolveCluster's error

Texts == [blank  : BOOLEAN, scheme : Schemes \cup {""},
          host   : Labels \cup Endpoints \cup {""}, slash : BOOLEAN]

\* A cluster definition: its URL and the client to use for it, if any.
Clusters == [url : Texts, client : Clients \cup {""}]

\* The empty string.
Empty == [blank |-> FALSE, scheme |-> "", host |-> "", slash |-> FALSE]

ASSUME HostsAssumption == "" \notin Labels \cup Endpoints /\ Labels \cap Endpoints = {}
ASSUME SchemesAssumption ==
    /\ "" \notin Schemes /\ "https" \in Schemes
    /\ LowerCase \in [Schemes -> Schemes] /\ LowerCase["https"] = "https"
    /\ \A s \in Schemes : LowerCase[LowerCase[s]] = LowerCase[s]
ASSUME UnknownAssumption == Unknown \notin Texts \cup Clusters /\ "" \notin Clients

TrimSpace(t) == [t EXCEPT !.blank = FALSE]

\* A fault: a slash at the end stays.
TrimURLKeepingSlash(t) == TrimSpace(t)

\* strings.TrimRight(strings.TrimSpace(t), "/")
TrimURL(t) == [TrimSpace(t) EXCEPT !.slash = FALSE]

\* Config.normalize, as far as the clusters are concerned: one of them.
NormalizedCluster(c) == [c EXCEPT !.url = TrimURL(c.url)]

looksLikeEndpoint(t) == t.scheme # "" \/ t.host \in Endpoints

\* A fault: a URL keeps its scheme as it comes.
normalizeEndpointKeepingCase(t) ==
    IF t.host = "" THEN Unknown
    ELSE [t EXCEPT !.scheme = IF t.scheme = "" THEN "https" ELSE t.scheme,
                   !.slash = FALSE]

\* A bare host gets https, a URL is parsed and written again, with its scheme in
\* lower case; a value without a host is rejected.
normalizeEndpoint(t) ==
    IF t.host = "" THEN Unknown
    ELSE [t EXCEPT !.scheme = IF t.scheme = "" THEN "https" ELSE LowerCase[t.scheme],
                   !.slash = FALSE]

\* The server and the OAuth client a hostname selects.  An alias comes first, its
\* URL trimmed and otherwise as it is written; then what looks like an endpoint
\* is one; a bare label is refused.
resolveCluster(aliases, hostname) ==
    LET t   == TrimSpace(hostname)
        url == normalizeEndpoint(t)
    IN  CASE t \in DOMAIN aliases /\ t # Empty ->
               [url |-> TrimURL(aliases[t].url), client |-> aliases[t].client]
          [] t \notin DOMAIN aliases /\ looksLikeEndpoint(t) /\ url # Unknown ->
               [url |-> url, client |-> ""]
          [] OTHER -> Unknown
=============================================================================
