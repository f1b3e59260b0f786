# Verification of scafctl-plugin-auth-openshift

TLA+ models of the plugin's own logic, TLC configurations that check them on
small instances, and proofs for every instance. Source references are to files
under `internal/openshift/`.

## 1. The system

The plugin is one process that answers RPCs of the scafctl host. It keeps no
credentials itself: every token is in the host's secret store, behind
`GetSecret`, `SetSecret`, `DeleteSecret` and `ListSecrets`. There is no lock and
no transaction, so RPCs interleave between any two of those calls, within one
process and between processes that share the store.

| component | state | operations | promises |
|---|---|---|---|
| auth handler RPCs (`auth_handler.go`) | none beyond its configuration | `Login`, `Logout`, `GetStatus`, `GetToken`, `PurgeExpiredTokens`, `ListCachedTokens` | the token served is the one asked for; a login takes effect; a logout clears its scope and nothing else |
| token cache (`cache.go`) | secrets: user tokens, service-account tokens, one active-cluster marker for each profile | `cacheGet`, `cacheSet`, `cacheClearAll`, `cacheClearCluster`, `cachePurgeExpired`, `setActiveCluster`, `getActiveCluster` | entries are filed for their owner; profiles and clusters never mix |
| token expiry (`cache.go`, `weblogin_flow.go`) | none | `isExpired`, `isUsable`, `isUsableFor`, `expiryFromExpiresIn` | unknown is not expired; usable means beyond the leeway |
| token minting (`tokenrequest.go`) | none | `mintServiceAccountToken`, `validateK8sName` | the bearer goes to its own cluster; no unchecked name in a path |
| browser login (`weblogin_flow.go`) | state nonce, two channels of capacity one, timer, loopback server | `runWebLogin`, `newCallbackHandler`, `handleCallbackPost` | one verdict, with this login's state; no handler hangs |
| cluster resolution (`config.go`) | the aliases | `resolveCluster`, `normalizeEndpoint` | alias before endpoint; a server URL is never that of two endpoints, and which spellings of an endpoint share one |
| effective configuration (`auth_handler.go`, `config.go`) | `p.config`, the environment | `effectiveConfig`, `applySettings`, `normalize` | precedence; the shared map is never written |
| scope parser (`scope.go`) | none | `parseSAScope` | accepted forms; anything else means the user token |
| discovery, whoami, HTTP client | none | one request each | bounded by a timeout |
| browser opener, claims and labels, `main.go` | none | | |

**Interaction.** `Login` resolves the cluster, discovers its OAuth endpoint, runs
the browser login, asks for the user's name, files the token and then the
marker. `GetToken` resolves the cluster (hostname, else configuration, else
marker) and serves the user's token, or a cached service-account token, or mints
one with the user's token as bearer and files it. `Logout` and the purge list the
profile's keys and then visit them one at a time. Inside `Login` the callback
handlers run as goroutines of their own and hand over what they find through a
channel.

**What is hard.** The gap between reading a secret and the write or delete that
depends on it; two secrets written one after the other; host errors that are
logged and swallowed; a call cut short between two writes; keys that must
separate profiles, clusters and accounts; tokens expiring while a call holds
them; and in the browser login, answers that race each other, the timer,
cancellation and the shutdown. `PROJECT.json` lists each with its line.

## 2. Modules

| module | models |
|---|---|
| `TokenExpiry` | the expiry arithmetic; an expiry of 0 is Go's zero time |
| `AuthHandler` | the six RPCs that act on the store, interleaved; implements `TokenCustody` |
| `TokenCustody` | abstract: credentials in custody, the requests and the answers |
| `AuthHandlerInduction` | the inductive invariants of `AuthHandler`: `IInv`, and `QuietInv` for what happens without interference |
| `AuthHandlerProofs` | theorems about `AuthHandler` and their proofs |
| `AuthHandlerQuietProofs` | theorems about calls that nothing disturbs |
| `AuthHandlerProgressProofs` | what the progress of a call rests on |
| `AuthHandlerCustodyProofs` | the proof that it implements `TokenCustody` |
| `ClusterResolution` | `resolveCluster` and `normalizeEndpoint`, as operators |
| `SAScope` | `parseSAScope`, the key and the label of an account, as operators |
| `RequestTarget` | configuration, `effectiveConfig` in concurrent RPCs, and what a request is about; uses the two above |
| `RequestTargetProofs` | theorems about `RequestTarget` and their proofs |
| `RequestTargetScopeProofs` | theorems about the scopes a request can give |
| `OneShotLogin` | abstract: one verdict, a token offered or an error |
| `WebLogin` | `runWebLogin` and its callback handlers; implements `OneShotLogin` |
| `WebLoginProofs` | theorems about `WebLogin` and their proofs |
| `MCAuthHandler`, `MCRequestTarget` | values of the constants for TLC |

The handler is modelled in two halves that meet in a function. `RequestTarget` is
what happens from a request's hostname and scope to a server URL, a client and an
account, before the store is touched. `AuthHandler` starts there: its constants
`Resolved` and `Configured` are any outcome of that half, and its
`ServiceAccounts` have distinct keys. A cluster of `AuthHandler` is a server URL:
`SpellingsAgree` says which hostnames lead to the same one, and `FiledKeysDistinct`
that minted accounts do have distinct keys; `KeyCollision` shows the accounts that
do not.

### AuthHandler

`store` maps every key to an entry, a cluster (the marker) or `None`. `call` is
one record per RPC slot: the request, the step it is at (`pc`) and its locals
(`api` is `apiServer`, `work` the listed keys not visited, `key` the one being
visited, `held` the entry at hand, `shown` what a listing has collected). `now` is
the clock. `granted`, `disturbed` and `faulted` are history: completed browser
logins, calls that another call of their profile interfered with, and calls one of
whose host calls failed.

An action is one host call, or one exchange with a cluster, with the local
computation that follows it up to the next one. A function that makes several is
split at each of them:

| code | actions |
|---|---|
| `Login` | `LoginStart`, `Discover`, `WebLoginSucceeds`/`WebLoginFails`, `Whoami`, `LoginCacheToken`, `LoginSetActive` |
| `Logout` with no hostname | `LogoutStart`, `LogoutList`, `ClearAllDelete` per key, `LogoutReturn` |
| `Logout` of a cluster | `LogoutStart`, `LogoutList`, `ClearClusterGet` and `ClearClusterDelete` per key, `LogoutReturn` |
| `GetStatus` | `StatusStart`, `ReadActive`, `StatusGet` |
| `GetToken`, user | `TokenStart`, `ReadActive`, `UserGet` |
| `GetToken`, service account | `TokenStart`, `ReadActive`, `SAGet`, `BearerGet`, `MintSucceeds`/`MintFails`, `SACache` |
| `ListCachedTokens` | `ListStart`, `ListTokens`, `ListGet` per key, `ListReturn` |
| `PurgeExpiredTokens` | `PurgeStart`, `PurgeList`, `PurgeGet` and `PurgeDelete` per key, `PurgeReturn` |

Each host call may fail when `HostMayFail`; a write that reports failure may or
may not have been made. `Abandon` ends a call anywhere: the process is killed or
the host gives up. What the code swallows is swallowed: a failed `cacheSet` does
not fail a login, a key that cannot be read is left out of a listing.

Abstracted: tokens are records of issuer, subject and profile, as the issuing
cluster knows them, so that what is filed can be compared with what it is. A
key is the record of what is hashed into it (SHA-256 is taken to be injective).
An alias whose URL is empty is mapped to `None`, an error to `Unknown`. Keys are
visited in any order, which covers the order the store returns them in. A nil
host, an unknown handler name and an unsupported flow return before anything
happens and are left out.

### TokenCustody

No keys, listings, clocks or host calls: `granted` pairs of a profile and a
cluster, credentials `held`, the request each slot is `asked` and its `answer`. A
request reaches the clusters its hostname, the configuration or the marker can
select. A credential is kept once its cluster was logged in to, handed out to a
request of its profile that reaches it and names its account, and forgotten by a
request of its profile that reaches it.

`AuthHandler` implements it with the mapping at its end: `Held` is, for each key
of the store that has an entry, the credential of that key's profile, cluster and
account; `Asked` the
request of each call in progress; `Answers` the token of each call that served
one. Reads, failures, retries, the marker and the clock are stutters; a delete is
`Forget`; the write of a login `Keep`; a call that serves a token it could not file
is an `Answer` that keeps nothing. That the entry under a key is the token of the
credential the key stands for is `FiledForItsOwner`: on reachable states the keys
and the entries say the same. Answers are taken from the tokens themselves, so a
token filed under the wrong key makes a later answer one that no custody gives.

### RequestTarget

A text (hostname, alias, URL, variable) is white space around it, a scheme as it
is written, a host, a slash at the end. A label has neither a dot nor a colon, an
endpoint has one. A scope, and the parts of an account, are
sequences of tokens: names, separators, white space and the canonical prefix.

`settings` and `env` are given. `config` is the stored configuration, `maps` the
maps of clusters, the stored one and a private one for each call, and `call` how
far each RPC is. `Configure` is the load. Then each RPC copies the stored struct
(`Begin`), copies its map of clusters one at a time (`CopyCluster`), takes the
server from the environment if it has none (`FillIn`), normalizes the clusters
one at a time (`NormalizeCluster`), and resolves its hostname and its scope
(`Aim`). One access to a map is one action, so that what a shared map would do to
calls that overlap can be seen: `NoMapRace`.

A host or a URL that is given directly goes through `url.Parse` and is written
again: that puts its scheme in lower case (the constant `LowerCase`, any idempotent
function on the schemes), or `https` in front of it if it has none. The URL of an
alias, of the settings or of a variable does not: it is trimmed, and is the server
as it is written. `https://h` given directly and an alias for `HTTPS://h` or for `h`
are thus two servers with two keys, although the first two are the same endpoint to
the HTTP client. `SpellingsAgree` and `SessionFoundAgain` say exactly which
spellings lead to one server and which do not. The code changes the letter
case of no host: `A.example` and `a.example` are two servers wherever they come
from, and two hosts in the model. What else `url.Parse` does is outside the texts: it refuses some
hosts and ports, and rewrites escapes and paths that are not in canonical form.

Taken as given: a URL with a scheme has a host; a variable is not a slash alone,
which `apiServerFromEnv` would prefer to the second variable. The two copies `GetStatus` makes are two
calls. RPCs that come before the load work with the defaults, as in the code.

### WebLogin

`phase` is where `runWebLogin` is, `resultCh` and `errCh` are the channels,
`expired` and `cancelled` the timer and the context, `post[p]` how far the handler
of POST `p` is and what it carries: one of the five cases `handleCallbackPost`
tells apart. Opening the browser is part of `StartServing`: its failure is logged
and changes nothing. A reply is a few bytes, which the server sends when the
handler returns (`Close`). GET requests for the page touch no state and are left
out.

## 3. Runs

| run | instance | shows |
|---|---|---|
| `HandlerClusters` | 2 calls, 1 profile, 2 clusters, 1 account, no failures | `IInv`, `ServedAsRequested`, `BearerStaysHome`, `RemovalsAreScoped`, `QuietLogoutClears` |
| `HandlerProfiles` | 2 calls, 2 profiles, 1 configured cluster, 1 account | `FiledForItsOwner`, `HeldOnlyAfterLogin`, `ImplementsCustody` |
| `HandlerSequences` | 1 call at a time, 2 profiles, 2 clusters, failures and cuts anywhere, an alias with an empty URL, an unknown name, an account name that is invalid | `TypeOK`, `FiledForItsOwner`, `ServedAsRequested`, `QuietLoginTakesEffect` |
| `HandlerTime` | 2 calls, clock to 4, lifetimes unknown and 2, leeway 1, with the purge and the listing | `QuietInv`, `QuietPurgeKeepsLive`, `QuietListingIsExact` |
| `HandlerProgress` | 2 calls, all RPCs, failures, weak fairness | `EveryStepAdvances`, `EveryCallReturns` |
| `RequestTarget` | 2 calls, 12 settings, 3 environments, 11 hostnames, 12 scopes | `TypeOK`, `NoMapRace`, `SpellingsAgree`, `SessionFoundAgain`, `ServerByPrecedence`, `FiledKeysDistinct`, `LabelAsksAgain`, `DocumentedScopesUnderstood` |
| `WebLogin` | 2 callback requests | `TypeOK`, `AnsweredBeforeReturn`, `ReachesOneVerdict`, `HandlersEnd` |

Five further runs look for a violation of what a comment or a text of the code
says, and find it:

| run | property | what happens |
|---|---|---|
| `LogoutRace` | `LogoutStrandsNothing` | a mint files its token after the logout, here of the whole profile, listed the keys; the logout of a cluster has the same gap |
| `PurgeRace` | `PurgeKeepsLive` | a login replaces the expired token between the purge's read and its delete |
| `ExplicitHostname` | `ExplicitHostnameWins` | an alias with an empty URL falls back to the active cluster |
| `KeyCollision` | `LookupKeysDistinct` | two accounts, one of them invalid, are looked up under one key |
| `WebLoginTold` | `ToldTheTruth` | the page reports success for a login that failed |

The "Quiet" properties say what does hold in the first two cases: without
interference the operation does what its comment says. `FiledKeysDistinct` does so
for the fourth.

**Bounds.** Two calls are the smallest number that race, and the hazards listed
are between two calls; the proofs cover any number. Two profiles and two clusters
are needed for a token to end up with the wrong one. One run has both clusters,
another both profiles, since the two meet only in the key. `MaxTime` stops the
clock: 4 is enough for a token of lifetime 2 granted at 1 to be within the leeway,
then expired. Runs about the store alone use lifetime 0 (unknown) and a clock that
hardly moves, and runs about concurrency alone switch failures off; `Issued`
leaves out RPCs a question does not need, and every action fires in some run.
`HandlerProgress` has no service account, with which it would not end in time; the
mint is a branch without a loop, and `StepsAdvance` covers it.
`MinValidFor` is 0 in all of them: no property is about it yet (the theorems hold for
any demand).
Symmetry is over the call slots only and never with liveness.

`RequestTarget` has three aliases, since a copy and a normalization must overlap in the
middle of a map: one spells its URL with a slash and white space and has a client
of its own, one has the name of a host and a URL without a scheme, one has a URL with
its scheme in capitals. The hostnames are the three aliases, four spellings of one
endpoint, one of them in capitals, the same one by another scheme, the endpoint of
the other two aliases, an unknown label and none. Settings and environment are each blank, a slash
alone, or a URL. The scopes have every separator in and out of place. Every hostname is
tried with one scope and every scope with two hostnames, as the two are read apart.

**Fairness.** `FairSpec` has weak fairness of each call's next step: host calls and
exchanges are answered or fail by their deadline. Requests, the clock and
`Abandon` are not fair. In `WebLogin` the goroutines and the timer are fair; a
browser need not post, nor send the whole of what it posts, `Serve` need not fail,
the context need not end. `HandlersEnd` is therefore about handlers that have read
their body: nothing in the code bounds the wait for it.

**Deadlock** is not checked: a handler with no call in progress, an RPC that has
its target and a finished login may rest.

Operators described as a fault next to a definition are never used by a
specification. Each is that definition with a mistake a change could introduce,
and makes one of the properties fail.

## 4. Proofs

All proofs are for any values of the constants that satisfy the named
assumptions, hence any number of calls, and TLC evaluates those assumptions in
the runs.

`AuthHandlerProofs` (any profiles, clusters, accounts, hostnames, lifetimes, leeway
and clock bound) and `AuthHandlerCustodyProofs` prove that `AuthHandler!Spec` implies:

| theorem | property |
|---|---|
| `Invariance` | `[]IInv` |
| `TypeCorrect` | `[]TypeOK` |
| `FiledCorrectly` | `[]FiledForItsOwner` |
| `HeldAfterLogin` | `[]HeldOnlyAfterLogin` |
| `ServedCorrectly` | `[]ServedAsRequested` |
| `BearerCorrect` | `[]BearerStaysHome` |
| `RemovalsScoped` | `RemovalsAreScoped` |
| `CustodyImplemented` | `ImplementsCustody`, that is, `TokenCustody!Spec` |

The properties are not inductive. That a token is filed for its owner depends on
what the call about to file it carries, which depends on what it read as bearer,
which depends on the store, and on the request it started from. `IInv` states all
of it: `TypeOK`; `StoreCoherent`, every key leads to a token of a granted login,
filed for its owner; and for each call, step by step, what its request, its
target, the entry it holds and its list of keys have in common. The proof has a
lemma for the steps calls share (a step that changes one call, a write of a
well-filed value, a delete), one for each action, and reads the properties off
the invariant. `RemovalsScoped` is where the gap between read and delete matters:
the key remembered across it still leads to nothing but that cluster's tokens,
because of how keys are filed.

`CustodyImplemented` uses `IInv` in every step. A lemma says what one call
contributes to `Asked` and `Answers`, another that a credential is held under one key
only, so that a write adds one credential and a delete takes one away. Then each kind
of step has its lemma: a request maps to `Accept`, a step that only moves a call on
to a stutter, an end without a token to `Dismiss`, a login's exchange to `Grant`, its
write to `Keep`, a delete to `Forget`, a served entry to `Answer`.

`AuthHandlerQuietProofs` proves, under the same assumptions, what holds without
interference:

| theorem | property |
|---|---|
| `Undisturbed` | `[]QuietInv` |
| `PurgeKeepsLiveTokens` | `QuietPurgeKeepsLive` |
| `LoginTakesEffect` | `QuietLoginTakesEffect` |
| `LogoutClears` | `QuietLogoutClears` |
| `ListingExact` | `QuietListingIsExact` |

`QuietInv` says, for a call that is neither in `disturbed` nor in `faulted`, what it
knows of the store between two of its host calls: the entry the purge read is still
there and has expired; the token the login filed is there; what the logout has
visited is gone, but for the key it is about to delete; the listing has found exactly
the entries under the keys it has visited. The purge needs only that it is not
disturbed. A step of another call comes in two kinds. One that leaves the
profile's keys alone changes nothing the call knows (`Local` says what a step may
touch, `Watched` at which steps a call knows something). One that writes or deletes a secret of the profile puts the call in
`disturbed`, and nothing is claimed of it any more. So the work is in the call's own
steps, one lemma each, and in the listing that begins a loop: what it did not
list was empty. The four promises are then read off at the step that returns.

`AuthHandlerProgressProofs` is the part of `EveryCallReturns` that needs no fairness:

| theorem | property |
|---|---|
| `StepsAdvance` | `EveryStepAdvances` |
| `NoEndlessCall` | if there are finitely many keys, no endless sequence of calls each of which `Advances` the one before |

A step leads to a later stage of the RPC; or to one key less to visit; or, with the
same keys to visit, from the delete of a key back to the loop. Nothing another call
does, and no failure, adds to what a loop has to do, because the keys are listed
once. That order is well-founded: of any calls there is one at the latest stage,
among these one with fewest keys to visit, among these one between two keys. A
call thus takes finitely many steps; that it takes each of them is fairness,
and stays with TLC.

Assumptions: `LeewayAssumption`, `TimeAssumption`, `NamesAssumption` and
`EntriesAssumption` (a URL is not an entry).

`RequestTargetProofs` (any aliases, spellings, names and scopes of any length) proves
that `RequestTarget!Spec` implies:

| theorem | property |
|---|---|
| `Invariance` | `[]IInv` of that module |
| `TypeCorrect` | `[]TypeOK` |
| `NoRace` | `[]NoMapRace` |
| `OneServer` | `[]SpellingsAgree` |
| `ListedSessionFound` | `[]SessionFoundAgain` |
| `Precedence` | `[]ServerByPrecedence` |
| `DistinctKeys` | `[]FiledKeysDistinct` |

Its invariant adds to `TypeOK` what the stored configuration is of the settings and,
for each call, which of its clusters are copied or normalized by now, so that
once `Aim` is enabled its map is the settings' one, normalized, whatever other calls
did. `NoRace` is one line of it: a call's map is its own. `OneServer` follows from
`SpelledFacts`: the URL of a call has the scheme `KeptScheme` says and the endpoint
its hostname spells, and a trimmed URL is no more than its scheme and its host.
`ListedSessionFound` is both directions of one fact: `normalizeEndpoint` leaves a
URL as it is exactly if it is in normal form. `DistinctKeys` rests on `CompositeParts`: valid names are single tokens other than the
separator, so the first three separators of a key are where they were put, and
the audience, which may hold more of them, is what remains.

`RequestTargetScopeProofs` adds, over scopes of any length:

| theorem | property |
|---|---|
| `LabelsAsk` | `[]LabelAsksAgain` |
| `DocumentedScopes` | `[]DocumentedScopesUnderstood` |

Both follow `parseSAScope` through the text. Lemmas say what `Trim` leaves (a text
with no white space at its ends is left as it is), that a text cut at a separator it
holds once gives back the two parts it was joined from, and that the last `@` is the
one before the audience whenever the audience has none. A reference in
the short form holds one `/`; one in the canonical form begins with the prefix and
holds one `:` after it. For `LabelsAsk` the account is what `IInv` says
an account a scope names is: its audience is trimmed and has no `@`, its names are
valid, hence single tokens.

Assumptions: `SettingsAssumption`, `RequestsAssumption`, `CallsAssumption`,
`NoneAssumption`, `HostsAssumption`, `SchemesAssumption` (lower-casing a scheme twice
is lower-casing it once, and `https` is in lower case), `UnknownAssumption` and
`NamesAssumption`.

`WebLoginProofs` (any number of callback requests) proves that `WebLogin!Spec` implies:

| theorem | property |
|---|---|
| `TypeCorrect` | `[]TypeOK` |
| `Answered` | `[]AnsweredBeforeReturn` |
| `OneVerdictOnly` | the initial state and every step of `ReachesOneVerdict`, without its fairness |

Its invariant adds that nothing is served before the listener opens or after the
shutdown, that no request is taken before it opens, that there is no verdict while
the login waits, and that a token in the channel was offered. Assumption:
`PostsAssumption`.

Only model-checked: liveness (`EveryCallReturns`, `HandlersEnd` and the progress in
`ReachesOneVerdict`), since the prover treats neither fairness nor `ENABLED`. Every
invariant and every action property of the passing runs is a theorem.

## 5. Not modelled

- The browser opener, `main.go`, `StopAuthHandler`, `DetectAvailableFlows` and the
  handler's description: constants, or the start of something external, with no
  state of their own.
- Claims and token responses: formatting of an entry; the entry served is what the
  properties are about.
- Of the HTTP client: headers, TLS policy, the bound on a body, `joinURL`. An
  exchange succeeds or fails by its deadline.
- Of `config.go`: the callback's host, port and timeout (plain fields of a private
  copy), and the aliases named in an error.
- Of `cache.go`: JSON beyond "decodes as an entry or does not"; the order in which
  a store lists keys.
- Of expiry: the width of `expires_in`, which wraps when multiplied by a second,
  and `MinValidFor` for a token minted to meet it (the code does not compare).

## 6. Plan

Done: `AuthHandler` with its six RPCs, `WebLogin`, `TokenCustody`, cluster resolution,
configuration and scopes. Next, in order of importance:

1. `expires_in` with the width of `time.Duration`, and what a `MinValidFor` demand is
   worth when a token is minted for it.
2. For the two violated promises of the store (`LogoutRace`, `PurgeRace`), what a
   logout or a purge does guarantee when it is disturbed, beyond `RemovalsScoped`.
