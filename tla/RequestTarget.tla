--------------------------- MODULE RequestTarget ---------------------------
(***************************************************************************)
(* From a request to what it is about: the server, the OAuth client and    *)
(* the service account.  Each RPC makes itself an effective configuration  *)
(* from the one stored at load and the environment (effectiveConfig,       *)
(* auth_handler.go), and resolves its hostname and its scope against it.   *)
(* RPCs run concurrently and all start from the stored configuration: an   *)
(* action is one access to a map of clusters, or the computation between.  *)
(***************************************************************************)
EXTENDS ClusterResolution, SAScope

CONSTANTS
    Calls,              \* concurrent RPCs
    Settings,           \* what the host's settings can hold
    Environments,       \* values of the two environment variables, in order
    Requests,           \* [host, scope] pairs; an absent hostname is Empty
    DefaultClient       \* DefaultOAuthClientID

\* A URL with a scheme has a host; a variable's value is no slash alone.
Sensible(t) == t.scheme # "" => t.host # ""
NoBareSlash(t) == t.host = "" => ~t.slash

ASSUME SettingsAssumption ==
    \A s \in Settings :
        /\ [url |-> s.url, client |-> s.client] \in Clusters /\ Sensible(s.url)
        /\ DOMAIN s.clusters \subseteq Texts
        /\ \A a \in DOMAIN s.clusters :
             s.clusters[a] \in Clusters /\ Sensible(s.clusters[a].url)

ASSUME RequestsAssumption ==
    /\ \A req \in Requests : req.host \in Texts /\ req.scope \in Seq(Tokens)
    /\ \A e \in Environments, i \in 1..2 :
         e[i] \in Texts /\ Sensible(e[i]) /\ NoBareSlash(e[i])
    /\ DefaultClient \in Clients

Shared == "shared"      \* where the stored configuration's clusters are

ASSUME CallsAssumption == Shared \notin Calls
ASSUME NoneAssumption  == None \notin [url : Texts, client : Clients] \cup Accounts

VARIABLES
    settings,   \* what the host configures the plugin with
    env,        \* the environment variables
    config,     \* p.config without its clusters, None until it is set
    maps,       \* the maps of clusters: the stored one and one for each call
    call        \* each RPC's effective config, then its target

vars == <<settings, env, config, maps, call>>

NoClusters == [a \in {} |-> {}]

Idle == [pc |-> "idle", map |-> Shared, todo |-> {}, url |-> Empty, client |-> ""]

Init ==
    /\ settings \in Settings
    /\ env \in Environments
    /\ config = None
    /\ maps = [m \in Calls \cup {Shared} |-> NoClusters]
    /\ call = [r \in Calls |-> Idle]

OrDefault(client) == IF client = "" THEN DefaultClient ELSE client

\* A fault: the settings are stored as they come.
ConfigureWithoutNormalize ==
    /\ config = None
    /\ \A r \in Calls : call[r] = Idle
    /\ config' = [url |-> settings.url, client |-> settings.client]
    /\ maps' = [maps EXCEPT ![Shared] = settings.clusters]
    /\ UNCHANGED <<settings, env, call>>

\* ConfigureAuthHandler runs once, before the other RPCs: the settings over
\* the defaults, normalized.
Configure ==
    /\ config = None
    /\ \A r \in Calls : call[r] = Idle
    /\ config' = [url |-> TrimURL(settings.url), client |-> OrDefault(settings.client)]
    /\ maps' = [maps EXCEPT ![Shared] =
                  [a \in DOMAIN settings.clusters |-> NormalizedCluster(settings.clusters[a])]]
    /\ UNCHANGED <<settings, env, call>>

-----------------------------------------------------------------------------
(* effectiveConfig                                                         *)

\* A fault: the struct is copied and its map shared.
BeginWithoutCopy(r) ==
    /\ call[r].pc = "idle" /\ config # None
    /\ call' = [call EXCEPT ![r] = [Idle EXCEPT
                  !.pc = "copy", !.url = config.url, !.client = config.client]]
    /\ UNCHANGED <<settings, env, config, maps>>

\* The defaults, or a copy of the stored config with a map of its own.
Begin(r) ==
    /\ call[r].pc = "idle"
    /\ call' = [call EXCEPT ![r] =
          [pc     |-> "copy", map |-> r, todo |-> DOMAIN maps[Shared],
           url    |-> IF config = None THEN Empty ELSE config.url,
           client |-> IF config = None THEN DefaultClient ELSE config.client]]
    /\ UNCHANGED <<settings, env, config, maps>>

Put(m, a, c) == [b \in DOMAIN m \cup {a} |-> IF b = a THEN c ELSE m[b]]

CopyCluster(r) ==
    /\ call[r].pc = "copy"
    /\ \E a \in call[r].todo :
         /\ maps' = [maps EXCEPT ![call[r].map] = Put(@, a, maps[Shared][a])]
         /\ call' = [call EXCEPT ![r].todo = @ \ {a}]
    /\ UNCHANGED <<settings, env, config>>

\* The first variable that holds more than white space.
apiServerFromEnv ==
    CASE TrimSpace(env[1]) # Empty -> TrimURL(env[1])
      [] TrimSpace(env[1]) = Empty -> TrimURL(env[2])

\* The environment where no URL is configured, then normalize's defaults.
FillIn(r) ==
    LET c == call[r]
    IN  /\ c.pc = "copy" /\ c.todo = {}
        /\ call' = [call EXCEPT ![r] = [c EXCEPT
              !.pc = "normalize", !.todo = DOMAIN maps[c.map],
              !.url = TrimURL(IF c.url = Empty THEN apiServerFromEnv ELSE c.url),
              !.client = OrDefault(c.client)]]
        /\ UNCHANGED <<settings, env, config, maps>>

NormalizeCluster(r) ==
    /\ call[r].pc = "normalize"
    /\ \E a \in call[r].todo :
         /\ maps' = [maps EXCEPT ![call[r].map] = Put(@, a, NormalizedCluster(@[a]))]
         /\ call' = [call EXCEPT ![r].todo = @ \ {a}]
    /\ UNCHANGED <<settings, env, config>>

-----------------------------------------------------------------------------
(* The request                                                             *)

\* The server and the client of a request, Unknown when its hostname is: what
\* Login, Logout, GetStatus and GetToken make of it.
Target(c, aliases, host) ==
    LET resolved == resolveCluster(aliases, host)
    IN  CASE host = Empty -> [url |-> c.url, client |-> c.client]
          [] host # Empty /\ resolved = Unknown -> Unknown
          [] OTHER -> [url |-> resolved.url,
                       client |-> IF resolved.client # "" THEN resolved.client ELSE c.client]

\* The RPC goes on with its target and its account, or returns an error.
Aim(r) ==
    LET c == call[r]
    IN  /\ c.pc = "normalize" /\ c.todo = {}
        /\ \E req \in Requests :
             LET target == Target(c, maps[c.map], req.host)
             IN  call' = [call EXCEPT ![r] =
                    IF target = Unknown THEN [Idle EXCEPT !.pc = "failed", !.map = r]
                    ELSE [pc |-> "aimed", map |-> c.map, url |-> target.url,
                          client |-> target.client, req |-> req,
                          account |-> parseSAScope(req.scope)]]
        /\ UNCHANGED <<settings, env, config, maps>>

Next ==
    \/ Configure
    \/ \E r \in Calls :
         Begin(r) \/ CopyCluster(r) \/ FillIn(r) \/ NormalizeCluster(r) \/ Aim(r)

Spec == Init /\ [][Next]_vars
-----------------------------------------------------------------------------
(* Correctness                                                             *)

Trimmed == { t \in Texts : ~t.blank /\ ~t.slash }

Preparing == [pc : {"idle", "copy", "normalize", "failed"}, map : Calls \cup {Shared},
              todo : SUBSET Texts, url : Trimmed, client : Clients \cup {""}]

AimedCalls == [pc : {"aimed"}, map : Calls \cup {Shared}, url : Trimmed, client : Clients,
               req : Requests, account : Accounts \cup {None}]

\* The type of every part of the state: what is stored at load, and what a call
\* works with, is trimmed, and a client is never missing (config.go:114-130).
TypeOK ==
    /\ settings \in Settings
    /\ env \in Environments
    /\ config \in [url : Trimmed, client : Clients] \cup {None}
    /\ DOMAIN maps = Calls \cup {Shared}
    /\ \A m \in Calls \cup {Shared} :
         /\ DOMAIN maps[m] \subseteq Texts
         /\ \A a \in DOMAIN maps[m] :
              maps[m][a] \in Clusters /\ maps[m][a].url \in Trimmed
    /\ call \in [Calls -> Preparing \cup AimedCalls]

Writes(r, m) == /\ call[r].map = m
                /\ call[r].pc \in {"copy", "normalize"} /\ call[r].todo # {}

Reads(r, m) == \/ Writes(r, m)
               \/ call[r].pc = "copy" /\ call[r].todo # {} /\ m = Shared
               \/ call[r].pc = "normalize" /\ call[r].map = m

\* "Under concurrent RPCs (login/status/token) that would be a concurrent map
\* write on the shared p.config" (auth_handler.go:375-378): no call writes a map
\* that another reads or writes.
NoMapRace ==
    \A r, q \in Calls, m \in Calls \cup {Shared} :
        r # q => ~(Writes(r, m) /\ Reads(q, m))

Aimed(r) == call[r].pc = "aimed"

\* The first of these values that is more than white space and slashes.
FirstSet(a, b, c) ==
    CASE TrimURL(a) # Empty -> TrimURL(a)
      [] TrimURL(a) = Empty /\ TrimURL(b) # Empty -> TrimURL(b)
      [] OTHER -> TrimURL(c)

\* The endpoint a URL or a bare host stands for, however it is written.
EndpointOf(t) == <<IF t.scheme = "" THEN "https" ELSE LowerCase[t.scheme], t.host>>

\* A hostname that is given and is no alias.
Direct(host) == host # Empty /\ TrimSpace(host) \notin DOMAIN settings.clusters

\* The URL a request's hostname is, is the alias of, or leaves to the settings and
\* the environment.
SpelledURL(host) ==
    CASE Direct(host) -> host
      [] host = Empty -> FirstSet(settings.url, env[1], env[2])
      [] ~Direct(host) /\ host # Empty -> settings.clusters[TrimSpace(host)].url

\* The scheme a request's server is kept with: only a URL given directly is
\* rewritten, one of an alias, of the settings or of a variable is not.
KeptScheme(host) ==
    IF Direct(host) THEN EndpointOf(host)[1] ELSE SpelledURL(host).scheme

\* Two requests are about one server, so that the one finds what the other's login
\* filed, exactly when the endpoints their hostnames spell are the same and their
\* schemes are kept the same.  No two endpoints are ever one server; and all
\* spellings of an endpoint given directly are one, bare or as a URL, in any
\* letter case of the scheme.  An alias, a configured URL or a variable is of
\* that server if its scheme is there and in lower case; one that is written
\* otherwise is a server, hence a key, of its own (config.go:114-175).
SpellingsAgree ==
    \A r, q \in Calls :
        config # None /\ Aimed(r) /\ Aimed(q) =>
          LET h == call[r].req.host
              g == call[q].req.host
          IN  call[r].url = call[q].url <=>
                /\ EndpointOf(SpelledURL(h)) = EndpointOf(SpelledURL(g))
                /\ KeptScheme(h) = KeptScheme(g)

\* A URL written as normalizeEndpoint writes one.
InNormalForm(t) == t.scheme # "" /\ LowerCase[t.scheme] = t.scheme

\* A session is listed under its server's URL (hostnameForEntry,
\* cache.go:271-276).  Unless that is itself the name of an alias, a request that
\* names it as its hostname is about that session's server exactly when the URL
\* is in normal form.  A session of an alias or a setting that is written without
\* a scheme, or with capitals in it, is not found by the hostname it is listed
\* with (config.go:136-175).
SessionFoundAgain ==
    \A r, q \in Calls :
        /\ Aimed(r) /\ call[r].url # Empty
        /\ call[r].url \notin DOMAIN settings.clusters
        /\ call[q].pc = "normalize" /\ call[q].todo = {}
        => LET target == Target(call[q], maps[call[q].map], call[r].url)
           IN  target # Unknown /\ target.url = call[r].url <=> InNormalForm(call[r].url)

\* A request without a hostname is about the server of the settings, or else of
\* the environment's first variable, or else of its second, a blank value
\* counting as none; the client is the alias's, or else the settings', or else
\* the default (auth_handler.go:371-406, config.go:43-49).
ServerByPrecedence ==
    \A r \in Calls :
        LET c == call[r]
            t == TrimSpace(c.req.host)
            ofAlias == IF c.req.host # Empty /\ t \in DOMAIN settings.clusters
                       THEN settings.clusters[t].client ELSE ""
        IN  Aimed(r) /\ config # None =>
              /\ c.req.host = Empty => c.url = FirstSet(settings.url, env[1], env[2])
              /\ c.client = IF ofAlias # "" THEN ofAlias ELSE OrDefault(settings.client)

\* Two token requests look for a service-account token under one key.
SameKey(r, q) ==
    saComposite(call[r].url, call[r].account) = saComposite(call[q].url, call[q].account)

\* Of the accounts tokens are minted and filed for, no two share a key, nor does
\* one share keys between clusters: the joined parts can be told apart
\* (cache.go:61-66).
FiledKeysDistinct ==
    \A r, q \in Calls :
        /\ Aimed(r) /\ Aimed(q)
        /\ Mintable(call[r].account) /\ Mintable(call[q].account)
        /\ SameKey(r, q)
        => call[r].url = call[q].url /\ call[r].account = call[q].account

\* "scoped by profile prefix, cluster, namespace, service account, and audience"
\* (cache.go:61-62): no two accounts a scope can name are looked up under one
\* key, whether a token would be minted for them or not.
LookupKeysDistinct ==
    \A r, q \in Calls :
        /\ Aimed(r) /\ Aimed(q)
        /\ call[r].account # None /\ call[q].account # None
        /\ SameKey(r, q)
        => call[r].url = call[q].url /\ call[r].account = call[q].account

\* The label a minted token is listed and returned with is a scope that asks for
\* that very token again (cache.go:253-264, scope.go:26-58).
LabelAsksAgain ==
    \A r \in Calls :
        Aimed(r) /\ Mintable(call[r].account) =>
            parseSAScope(scopeForEntry(call[r].account)) = call[r].account

\* The documented spellings of an account (scope.go:20-25).
Spellings(acc) ==
    LET aud == IF acc.aud = <<>> THEN <<>> ELSE <<"@">> \o acc.aud
    IN  { acc.ns \o <<"/">> \o acc.sa \o aud,
          <<Canonical>> \o acc.ns \o <<":">> \o acc.sa \o aud }

PlainAccounts == [ns : { <<n>> : n \in Names }, sa : { <<n>> : n \in Names },
                  aud : { <<n>> : n \in Names } \cup {<<>>}]

\* A scope in one of the documented forms, white space around it or not, asks for
\* the account it names and never, as an unreadable one does, for the user's own
\* token (scope.go:14-25, auth_handler.go:278-281).
DocumentedScopesUnderstood ==
    \A r \in Calls :
        Aimed(r) => \A acc \in PlainAccounts :
            Trim(call[r].req.scope) \in Spellings(acc) => call[r].account = acc
=============================================================================
