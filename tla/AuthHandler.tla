---------------------------- MODULE AuthHandler ----------------------------
(***************************************************************************)
(* The OpenShift auth handler: the RPCs Login, Logout, GetStatus, GetToken,*)
(* ListCachedTokens and PurgeExpiredTokens (auth_handler.go) over the      *)
(* token cache they keep in the host's secret store (cache.go).            *)
(*                                                                         *)
(* The plugin holds no lock.  Each RPC is a sequence of calls to the host, *)
(* and RPCs of one plugin process, and of several processes that share the *)
(* store, interleave between any two of them: an action here is one host   *)
(* call, or one exchange with a cluster, with the local computation that   *)
(* follows it.  Every host call may fail, every RPC may be cut short.      *)
(***************************************************************************)
EXTENDS TokenExpiry, FiniteSets

CONSTANTS
    Calls,              \* RPC slots: how many RPCs can be in progress at once
    Profiles,           \* auth profiles, auth.ProfileFromContext
    Clusters,           \* API server URLs
    ServiceAccounts,    \* (namespace, name, audience) triples a scope can name
    InvalidNames,       \* those of them validateK8sName rejects
    Hostnames,          \* what a request can carry as its Hostname
    Resolved,           \* what config.resolveCluster makes of each hostname
    Configured,         \* the effective config's APIServerURL, None when empty
    Lifetimes,          \* lifetimes a cluster grants, 0 when it states none
    MinValids,          \* MinValidFor demands of token requests
    MaxTime,            \* bound: the clock stops here
    Issued,             \* the RPCs the host issues, all of RPCs or some of them
    HostMayFail,        \* whether calls to the secret store can fail
    None,               \* an empty string, a nil pointer, a missing secret
    Unknown             \* resolveCluster's error

RPCs == {"login", "logout", "status", "token", "list", "purge"}

ASSUME TimeAssumption ==
    /\ Lifetimes \subseteq Nat /\ MinValids \subseteq Nat
    /\ MaxTime \in Nat \ {0} /\ 0 \in MinValids

ASSUME NamesAssumption ==
    /\ InvalidNames \subseteq ServiceAccounts
    /\ Resolved \in [Hostnames -> Clusters \cup {None, Unknown}]
    /\ Configured \in Clusters \cup {None}
    /\ HostMayFail \in BOOLEAN
    /\ Issued \subseteq RPCs
    /\ None \notin Profiles \cup Clusters \cup ServiceAccounts \cup Hostnames
    /\ Unknown \notin Clusters \cup {None}

-----------------------------------------------------------------------------
(* Secrets: their keys and their values.                                   *)

\* Faults of the key functions, used only to show that properties notice them.
userTokenKeyIgnoringProfile(p, a) ==
    [prof |-> None, kind |-> "user", api |-> a, sa |-> None]
userTokenKeyIgnoringCluster(p, a) ==
    [prof |-> p, kind |-> "user", api |-> None, sa |-> None]
saTokenKeyIgnoringProfile(p, a, s) ==
    [prof |-> None, kind |-> "sa", api |-> a, sa |-> s]

\* The prefix hash, the kind and the hash of the rest make up a key; SHA-256
\* is taken to be injective.
userTokenKey(p, a)  == [prof |-> p, kind |-> "user", api |-> a, sa |-> None]
saTokenKey(p, a, s) == [prof |-> p, kind |-> "sa", api |-> a, sa |-> s]
activeClusterKey(p) == [prof |-> p, kind |-> "active", api |-> None, sa |-> None]

UserKeys   == { userTokenKey(p, a) : p \in Profiles, a \in Clusters }
SAKeys     == { saTokenKey(p, a, s) :
                  p \in Profiles, a \in Clusters, s \in ServiceAccounts }
ActiveKeys == { activeClusterKey(p) : p \in Profiles }
Keys       == UserKeys \cup SAKeys \cup ActiveKeys

\* A token as its issuer knows it: the cluster that issued it, the identity
\* it stands for (None: the user), and the profile whose login led to it.
Tokens == [iss : Clusters, sub : ServiceAccounts \cup {None}, prof : Profiles]

\* cacheEntry: the token with the metadata the plugin files beside it.
Entries == [kind : {"user", "sa"}, api : Clusters, sa : ServiceAccounts \cup {None},
            exp : Nat, tok : Tokens]

UserEntry(p, a, exp) ==
    [kind |-> "user", api |-> a, sa |-> None, exp |-> exp,
     tok |-> [iss |-> a, sub |-> None, prof |-> p]]

SAEntry(p, a, s, exp) ==
    [kind |-> "sa", api |-> a, sa |-> s, exp |-> exp,
     tok |-> [iss |-> a, sub |-> s, prof |-> p]]

\* An entry is neither a URL nor nothing.
ASSUME EntriesAssumption == \A v \in Clusters \cup {None} : v \notin Entries

\* A secret's value decodes as a cacheEntry unless it is missing or it is the
\* active-cluster marker, a bare URL and no JSON.
IsEntry(v) == v \notin Clusters \cup {None}

-----------------------------------------------------------------------------
VARIABLES
    store,      \* the host's secret store
    call,       \* what each RPC slot is doing: its request and its locals
    now,        \* the clock
    granted,    \* history: the (profile, cluster) pairs a user logged in to
    disturbed,  \* history: calls during which another call changed a secret
                \* of their profile
    faulted     \* history: calls one of whose host calls failed

vars == <<store, call, now, granted, disturbed, faulted>>

Steps == {"idle", "done",
          "discover", "webLogin", "whoami", "cacheToken", "setActive",
          "listAll", "clearAll",
          "listCluster", "clusterGet", "clusterDelete",
          "readActive", "statusGet",
          "userGet", "saGet", "bearerGet", "mint", "saCache",
          "listTokens", "listGet",
          "purgeList", "purgeGet", "purgeDelete"}

Outcomes == {"none", "ok", "error", "token", "authenticated", "unauthenticated"}

CallStates ==
    [op    : RPCs \cup {"none"},
     prof  : Profiles \cup {None},
     host  : Hostnames \cup {None},
     sa    : ServiceAccounts \cup {None},   \* None: the scope names no account
     min   : MinValids,
     force : BOOLEAN,
     pc    : Steps,
     api   : Clusters \cup {None},          \* apiServer
     work  : SUBSET Keys,                   \* listed keys not yet visited
     key   : Keys \cup {None},              \* the key being visited
     held  : Entries \cup {None},           \* the entry at hand
     shown : SUBSET Entries,                \* what a listing has found
     out   : Outcomes]

Idle == [op |-> "none", prof |-> None, host |-> None, sa |-> None, min |-> 0,
         force |-> FALSE, pc |-> "idle", api |-> None, work |-> {}, key |-> None,
         held |-> None, shown |-> {}, out |-> "none"]

InProgress(r) == call[r].pc \notin {"idle", "done"}

Init ==
    /\ store = [k \in Keys |-> None]
    /\ call = [r \in Calls |-> Idle]
    /\ now = 1
    /\ granted = {}
    /\ disturbed = {}
    /\ faulted = {}

-----------------------------------------------------------------------------
(* Steps every call is made of.                                            *)

Become(r, c) == call' = [call EXCEPT ![r] = c]

Goto(r, pc) == Become(r, [call[r] EXCEPT !.pc = pc])

\* Return an outcome that carries no token: nothing of the call remains.
Returned(out) == [Idle EXCEPT !.pc = "done", !.out = out]

Finish(r, out) == Become(r, Returned(out))

\* Return a token or report a session: what was asked for and what was served
\* remain until the slot is used again.
Serve(r, out, entry) ==
    LET c == call[r]
    IN  Become(r, [Idle EXCEPT !.op = c.op, !.prof = c.prof, !.host = c.host,
                               !.sa = c.sa, !.api = c.api, !.pc = "done",
                               !.out = out, !.held = entry])

Others(r) == { q \in Calls \ {r} : InProgress(q) /\ call[q].prof = call[r].prof }

\* SetSecret and DeleteSecret (v = None) as the store sees them.
Write(r, k, v) ==
    /\ store' = [store EXCEPT ![k] = v]
    /\ disturbed' = disturbed \cup Others(r)

\* A host call that fails.  A write that reports failure may have been made.
HostFails(r) == HostMayFail /\ faulted' = faulted \cup {r}

WriteFails(r, k, v) ==
    /\ HostFails(r)
    /\ Write(r, k, v) \/ UNCHANGED <<store, disturbed>>

WriteOk(r, k, v) == Write(r, k, v) /\ UNCHANGED faulted

ReadFails(r) == HostFails(r) /\ UNCHANGED <<store, disturbed>>

ReadOk == UNCHANGED <<store, disturbed, faulted>>

\* A fault: the listing's pattern takes in the user tokens only.
ListedUserTokens(p) == { k \in Keys : k.prof = p /\ k.kind = "user" /\ store[k] # None }

\* A fault: the listing's pattern lacks the profile.
ListedOfAllProfiles(p) == { k \in Keys : store[k] # None }

\* ListSecrets(prefix*): the keys of the profile that hold something.
Listed(p) == { k \in Keys : k.prof = p /\ store[k] # None }

\* The cluster a request names: by its hostname when it has one, else by the
\* configuration.
RequestedServerPreferringConfig(h) ==
    IF h = None \/ Configured # None THEN Configured ELSE Resolved[h]
RequestedServer(h) == IF h = None THEN Configured ELSE Resolved[h]

\* A request arrives in a free slot.  NewCall: its fields and nothing else yet.
NewCall(op, p, h) ==
    [Idle EXCEPT !.op = op, !.prof = p, !.host = h]

Arrive(r, c) ==
    /\ ~InProgress(r)
    /\ Become(r, c)
    /\ disturbed' = disturbed \ {r}
    /\ faulted' = faulted \ {r}
    /\ UNCHANGED <<store, now, granted>>

-----------------------------------------------------------------------------
(* Login                                                                   *)

\* A fault: the error of resolveCluster is not looked at.
LoginStartUnchecked(r, p, h) ==
    Arrive(r, [NewCall("login", p, h) EXCEPT
                 !.pc = "discover", !.api = RequestedServer(h)])

LoginStart(r, p, h) ==
    LET server == RequestedServer(h)
        new    == NewCall("login", p, h)
    IN  Arrive(r, IF server \in {None, Unknown}
                  THEN Returned("error")
                  ELSE [new EXCEPT !.pc = "discover", !.api = server])

\* discoverOAuthMetadata: anything but a complete answer fails the login.
Discover(r) ==
    /\ call[r].pc = "discover"
    /\ Goto(r, "webLogin") \/ Finish(r, "error")
    /\ UNCHANGED <<store, now, granted, disturbed, faulted>>

\* runWebLogin: a token of the cluster for whoever logged in, or an error.
WebLoginSucceeds(r) ==
    /\ call[r].pc = "webLogin"
    /\ \E l \in Lifetimes :
         LET c == call[r]
         IN  Become(r, [c EXCEPT !.pc = "whoami",
                                 !.held = UserEntry(c.prof, c.api, ExpiryOf(now, l))])
    /\ granted' = granted \cup {<<call[r].prof, call[r].api>>}
    /\ UNCHANGED <<store, now, disturbed, faulted>>

WebLoginFails(r) ==
    /\ call[r].pc = "webLogin"
    /\ Finish(r, "error")
    /\ UNCHANGED <<store, now, granted, disturbed, faulted>>

\* resolveUsername sends the new token to its cluster; without an answer the
\* name stays empty and the login goes on.
Whoami(r) ==
    /\ call[r].pc = "whoami"
    /\ Goto(r, "cacheToken")
    /\ UNCHANGED <<store, now, granted, disturbed, faulted>>

\* cacheSet: a failure is logged and the login goes on.
LoginCacheToken(r) ==
    LET c == call[r]
        k == userTokenKey(c.prof, c.api)
    IN  /\ c.pc = "cacheToken"
        /\ WriteOk(r, k, c.held) \/ WriteFails(r, k, c.held)
        /\ Goto(r, "setActive")
        /\ UNCHANGED <<now, granted>>

\* A fault: the configured cluster is recorded, not the one logged in to.
LoginSetsConfiguredCluster(r) ==
    LET c == call[r]
        k == activeClusterKey(c.prof)
    IN  /\ c.pc = "setActive"
        /\ WriteOk(r, k, Configured) \/ WriteFails(r, k, Configured)
        /\ Finish(r, "ok")
        /\ UNCHANGED <<now, granted>>

\* setActiveCluster: a failure is logged and the login succeeds.
LoginSetActive(r) ==
    LET c == call[r]
        k == activeClusterKey(c.prof)
    IN  /\ c.pc = "setActive"
        /\ WriteOk(r, k, c.api) \/ WriteFails(r, k, c.api)
        /\ Finish(r, "ok")
        /\ UNCHANGED <<now, granted>>

-----------------------------------------------------------------------------
(* Logout                                                                  *)

LogoutStart(r, p, h) ==
    LET new == NewCall("logout", p, h)
    IN  Arrive(r, CASE h = None -> [new EXCEPT !.pc = "listAll"]
                    [] h # None /\ Resolved[h] = Unknown ->
                         Returned("error")
                    [] OTHER ->
                         [new EXCEPT !.pc = "listCluster", !.api = Resolved[h]])

\* A failed listing is logged and the logout succeeds.
LogoutList(r) ==
    LET c == call[r]
    IN  /\ c.pc \in {"listAll", "listCluster"}
        /\ \/ /\ ReadOk
              /\ Become(r, [c EXCEPT !.work = Listed(c.prof),
                     !.pc = IF c.pc = "listAll" THEN "clearAll" ELSE "clusterGet"])
           \/ ReadFails(r) /\ Finish(r, "ok")
        /\ UNCHANGED <<now, granted>>

\* A fault: the listing is tried again from the start after a failed delete.
ClearAllRetries(r) ==
    LET c == call[r]
    IN  /\ c.pc = "clearAll"
        /\ \E k \in c.work :
             \/ WriteOk(r, k, None) /\ Become(r, [c EXCEPT !.work = @ \ {k}])
             \/ WriteFails(r, k, None) /\ Goto(r, "listAll")
        /\ UNCHANGED <<now, granted>>

\* cacheClearAll deletes each listed key, whatever it holds; a failure is
\* logged and the next key is tried.
ClearAllDelete(r) ==
    LET c == call[r]
    IN  /\ c.pc = "clearAll"
        /\ \E k \in c.work :
             /\ WriteOk(r, k, None) \/ WriteFails(r, k, None)
             /\ Become(r, [c EXCEPT !.work = @ \ {k}])
        /\ UNCHANGED <<now, granted>>

\* A fault: the entry's cluster is not compared.
BelongsToProfile(v, a) == IsEntry(v)

\* cacheClearCluster's test of a secret it has read.
BelongsToCluster(v, a) == IsEntry(v) /\ v.api = a

ClearClusterGet(r) ==
    LET c == call[r]
    IN  /\ c.pc = "clusterGet"
        /\ \E k \in c.work :
             \/ /\ ReadOk
                /\ Become(r, IF BelongsToCluster(store[k], c.api)
                             THEN [c EXCEPT !.work = @ \ {k}, !.key = k,
                                            !.pc = "clusterDelete"]
                             ELSE [c EXCEPT !.work = @ \ {k}])
             \/ ReadFails(r) /\ Become(r, [c EXCEPT !.work = @ \ {k}])
        /\ UNCHANGED <<now, granted>>

ClearClusterDelete(r) ==
    LET c == call[r]
    IN  /\ c.pc = "clusterDelete"
        /\ WriteOk(r, c.key, None) \/ WriteFails(r, c.key, None)
        /\ Become(r, [c EXCEPT !.pc = "clusterGet", !.key = None])
        /\ UNCHANGED <<now, granted>>

LogoutReturn(r) ==
    /\ call[r].pc \in {"clearAll", "clusterGet"}
    /\ call[r].work = {}
    /\ Finish(r, "ok")
    /\ UNCHANGED <<store, now, granted, disturbed, faulted>>

-----------------------------------------------------------------------------
(* GetStatus and GetToken                                                  *)

StatusStart(r, p, h) ==
    LET server == RequestedServer(h)
        new    == NewCall("status", p, h)
    IN  Arrive(r, CASE server = Unknown ->
                         Returned("unauthenticated")
                    [] server = None -> [new EXCEPT !.pc = "readActive"]
                    [] OTHER -> [new EXCEPT !.pc = "statusGet", !.api = server])

\* Which secret a token request looks at first.
FirstGet(s, force) ==
    CASE s = None               -> "userGet"
      [] s # None /\ force      -> "bearerGet"
      [] s # None /\ ~force     -> "saGet"

TokenStart(r, p, h, s, min, force) ==
    LET server == RequestedServer(h)
        new    == [NewCall("token", p, h) EXCEPT
                     !.sa = s, !.min = min, !.force = force]
    IN  Arrive(r, CASE server = Unknown ->
                         Returned("error")
                    [] server = None -> [new EXCEPT !.pc = "readActive"]
                    [] OTHER -> [new EXCEPT !.pc = FirstGet(s, force), !.api = server])

NotServed(op) == IF op = "status" THEN "unauthenticated" ELSE "error"

\* getActiveCluster: a failed lookup counts as no active cluster.
ReadActive(r) ==
    LET c == call[r]
        v == store[activeClusterKey(c.prof)]
    IN  /\ c.pc = "readActive"
        /\ \/ /\ ReadOk
              /\ IF v = None
                 THEN Finish(r, NotServed(c.op))
                 ELSE Become(r, [c EXCEPT !.api = v,
                        !.pc = IF c.op = "status" THEN "statusGet"
                               ELSE FirstGet(c.sa, c.force)])
           \/ ReadFails(r) /\ Finish(r, NotServed(c.op))
        /\ UNCHANGED <<now, granted>>

StatusGet(r) ==
    LET c == call[r]
        v == store[userTokenKey(c.prof, c.api)]
    IN  /\ c.pc = "statusGet"
        /\ \/ /\ ReadOk
              /\ IF IsEntry(v) /\ isUsable(now, v.exp)
                 THEN Serve(r, "authenticated", v)
                 ELSE Finish(r, "unauthenticated")
           \/ ReadFails(r) /\ Finish(r, "unauthenticated")
        /\ UNCHANGED <<now, granted>>

\* getUserToken
UserGet(r) ==
    LET c == call[r]
        v == store[userTokenKey(c.prof, c.api)]
    IN  /\ c.pc = "userGet"
        /\ \/ /\ ReadOk
              /\ IF IsEntry(v) /\ isUsableFor(now, v.exp, c.min)
                 THEN Serve(r, "token", v)
                 ELSE Finish(r, "error")
           \/ ReadFails(r) /\ Finish(r, "error")
        /\ UNCHANGED <<now, granted>>

\* getServiceAccountToken, the cached token: anything but a usable one, a
\* failed read included, leads on to the mint.
SAGet(r) ==
    LET c == call[r]
        v == store[saTokenKey(c.prof, c.api, c.sa)]
    IN  /\ c.pc = "saGet"
        /\ \/ /\ ReadOk
              /\ IF IsEntry(v) /\ isUsableFor(now, v.exp, c.min)
                 THEN Serve(r, "token", v)
                 ELSE Goto(r, "bearerGet")
           \/ ReadFails(r) /\ Goto(r, "bearerGet")
        /\ UNCHANGED <<now, granted>>

\* A fault: the bearer is the active cluster's token, not the target's.
BearerOfActiveCluster(r) ==
    LET a == store[activeClusterKey(call[r].prof)]
    IN  IF a = None THEN None ELSE store[userTokenKey(call[r].prof, a)]

\* The secret the mint's bearer is read from.
Bearer(r) == store[userTokenKey(call[r].prof, call[r].api)]

BearerGet(r) ==
    LET c == call[r]
        v == Bearer(r)
    IN  /\ c.pc = "bearerGet"
        /\ \/ /\ ReadOk
              /\ IF IsEntry(v) /\ isUsable(now, v.exp)
                 THEN Become(r, [c EXCEPT !.pc = "mint", !.held = v])
                 ELSE Finish(r, "error")
           \/ ReadFails(r) /\ Finish(r, "error")
        /\ UNCHANGED <<now, granted>>

\* The cluster answers a TokenRequest whose bearer it issued and still honours.
ServerAccepts(api, tok, exp) == tok.iss = api /\ ~isExpired(now, exp)

\* A fault: any name is put into the request's path.
MintableWithoutNameCheck(s) == s \in ServiceAccounts
\* validateK8sName of the namespace and the account, before anything is sent.
Mintable(s) == s \in ServiceAccounts \ InvalidNames

MintSucceeds(r) ==
    LET c == call[r]
    IN  /\ c.pc = "mint"
        /\ Mintable(c.sa)
        /\ ServerAccepts(c.api, c.held.tok, c.held.exp)
        /\ \E l \in Lifetimes :
             Become(r, [c EXCEPT !.pc = "saCache",
                !.held = SAEntry(c.held.tok.prof, c.api, c.sa, ExpiryOf(now, l))])
        /\ UNCHANGED <<store, now, granted, disturbed, faulted>>

MintFails(r) ==
    /\ call[r].pc = "mint"
    /\ Finish(r, "error")
    /\ UNCHANGED <<store, now, granted, disturbed, faulted>>

\* cacheSet of the minted token: a failure is logged, the token is served.
SACache(r) ==
    LET c == call[r]
        k == saTokenKey(c.prof, c.api, c.sa)
    IN  /\ c.pc = "saCache"
        /\ WriteOk(r, k, c.held) \/ WriteFails(r, k, c.held)
        /\ Serve(r, "token", c.held)
        /\ UNCHANGED <<now, granted>>

-----------------------------------------------------------------------------
(* ListCachedTokens                                                        *)

ListStart(r, p) ==
    Arrive(r, [NewCall("list", p, None) EXCEPT !.pc = "listTokens"])

ListTokens(r) ==
    LET c == call[r]
    IN  /\ c.pc = "listTokens"
        /\ \/ /\ ReadOk
              /\ Become(r, [c EXCEPT !.work = Listed(c.prof), !.pc = "listGet"])
           \/ ReadFails(r) /\ Finish(r, "error")
        /\ UNCHANGED <<now, granted>>

\* What cannot be read, is gone or is no entry is left out.
ListGet(r) ==
    LET c == call[r]
    IN  /\ c.pc = "listGet"
        /\ \E k \in c.work :
             \/ /\ ReadOk
                /\ Become(r, [c EXCEPT !.work = @ \ {k},
                       !.shown = IF IsEntry(store[k]) THEN @ \cup {store[k]} ELSE @])
             \/ ReadFails(r) /\ Become(r, [c EXCEPT !.work = @ \ {k}])
        /\ UNCHANGED <<now, granted>>

ListReturn(r) ==
    /\ call[r].pc = "listGet"
    /\ call[r].work = {}
    /\ Finish(r, "ok")
    /\ UNCHANGED <<store, now, granted, disturbed, faulted>>

-----------------------------------------------------------------------------
(* PurgeExpiredTokens                                                      *)

PurgeStart(r, p) ==
    Arrive(r, [NewCall("purge", p, None) EXCEPT !.pc = "purgeList"])

PurgeList(r) ==
    LET c == call[r]
    IN  /\ c.pc = "purgeList"
        /\ \/ /\ ReadOk
              /\ Become(r, [c EXCEPT !.work = Listed(c.prof), !.pc = "purgeGet"])
           \/ ReadFails(r) /\ Finish(r, "error")
        /\ UNCHANGED <<now, granted>>

PurgeGet(r) ==
    LET c == call[r]
    IN  /\ c.pc = "purgeGet"
        /\ \E k \in c.work :
             \/ /\ ReadOk
                /\ Become(r, IF IsEntry(store[k]) /\ isExpired(now, store[k].exp)
                             THEN [c EXCEPT !.work = @ \ {k}, !.key = k,
                                            !.pc = "purgeDelete"]
                             ELSE [c EXCEPT !.work = @ \ {k}])
             \/ ReadFails(r) /\ Become(r, [c EXCEPT !.work = @ \ {k}])
        /\ UNCHANGED <<now, granted>>

\* The delete names the key and not the value that was seen to be expired.
PurgeDelete(r) ==
    LET c == call[r]
    IN  /\ c.pc = "purgeDelete"
        /\ WriteOk(r, c.key, None) \/ WriteFails(r, c.key, None)
        /\ Become(r, [c EXCEPT !.pc = "purgeGet", !.key = None])
        /\ UNCHANGED <<now, granted>>

PurgeReturn(r) ==
    /\ call[r].pc = "purgeGet"
    /\ call[r].work = {}
    /\ Finish(r, "ok")
    /\ UNCHANGED <<store, now, granted, disturbed, faulted>>

-----------------------------------------------------------------------------
(* The environment and the whole.                                          *)

\* The plugin process is killed, or the host gives up on the call.
Abandon(r) ==
    /\ InProgress(r)
    /\ Become(r, Idle)
    /\ disturbed' = disturbed \ {r}
    /\ faulted' = faulted \ {r}
    /\ UNCHANGED <<store, now, granted>>

Tick ==
    /\ now < MaxTime
    /\ now' = now + 1
    /\ UNCHANGED <<store, call, granted, disturbed, faulted>>

\* A request comes in.  ForceRefresh is read for service accounts only.
Request(r) ==
    \E p \in Profiles, h \in Hostnames \cup {None} :
        \/ "login" \in Issued /\ LoginStart(r, p, h)
        \/ "logout" \in Issued /\ LogoutStart(r, p, h)
        \/ "status" \in Issued /\ StatusStart(r, p, h)
        \/ /\ "token" \in Issued
           /\ \E s \in ServiceAccounts \cup {None}, min \in MinValids, force \in BOOLEAN :
                (s = None => ~force) /\ TokenStart(r, p, h, s, min, force)
        \/ "list" \in Issued /\ ListStart(r, p)
        \/ "purge" \in Issued /\ PurgeStart(r, p)

\* The next step of a call in progress.
Proceed(r) ==
    \/ Discover(r) \/ WebLoginSucceeds(r) \/ WebLoginFails(r) \/ Whoami(r)
    \/ LoginCacheToken(r) \/ LoginSetActive(r)
    \/ LogoutList(r) \/ ClearAllDelete(r)
    \/ ClearClusterGet(r) \/ ClearClusterDelete(r) \/ LogoutReturn(r)
    \/ ReadActive(r) \/ StatusGet(r) \/ UserGet(r)
    \/ SAGet(r) \/ BearerGet(r) \/ MintSucceeds(r) \/ MintFails(r) \/ SACache(r)
    \/ ListTokens(r) \/ ListGet(r) \/ ListReturn(r)
    \/ PurgeList(r) \/ PurgeGet(r) \/ PurgeDelete(r) \/ PurgeReturn(r)

Next ==
    \/ \E r \in Calls : Request(r) \/ Proceed(r) \/ Abandon(r)
    \/ Tick

Spec == Init /\ [][Next]_vars

\* Every host call and every exchange with a cluster is answered, at the
\* latest by its deadline, so a call that is neither killed nor given up on
\* takes its next step.
FairSpec == Spec /\ \A r \in Calls : WF_vars(Proceed(r))

-----------------------------------------------------------------------------
(* Correctness: invariants                                                 *)

TypeOK ==
    /\ store \in [Keys -> Entries \cup Clusters \cup {None}]
    /\ call \in [Calls -> CallStates]
    /\ now \in 1..MaxTime
    /\ granted \subseteq Profiles \X Clusters
    /\ disturbed \subseteq Calls
    /\ faulted \subseteq Calls

\* What the profile, cluster and account of a request lead to in the store was
\* filed for that profile, cluster and account, is the token its metadata
\* says it is, and is for an account whose name was validated
\* (userTokenKey and saTokenKey, cache.go:47-66).
FiledForItsOwner ==
    \A p \in Profiles, a \in Clusters :
        /\ LET v == store[userTokenKey(p, a)]
           IN  v # None => IsEntry(v) /\ v = UserEntry(p, a, v.exp)
        /\ \A s \in ServiceAccounts :
             LET v == store[saTokenKey(p, a, s)]
             IN  v # None => /\ IsEntry(v) /\ v = SAEntry(p, a, s, v.exp)
                             /\ s \notin InvalidNames

\* Looking up a cluster's tokens under a profile finds something only if a user
\* of that profile has completed the browser login at that very cluster,
\* whatever other profiles and other clusters were logged in to.
HeldOnlyAfterLogin ==
    \A p \in Profiles, a \in Clusters :
        /\ store[userTokenKey(p, a)] # None => <<p, a>> \in granted
        /\ \A s \in ServiceAccounts :
             store[saTokenKey(p, a, s)] # None => <<p, a>> \in granted

\* A hostname that resolves to a cluster selects it; without a hostname the
\* configured server, if there is one, is selected.
Selects(host, api) ==
    /\ host # None => Resolved[host] \in {None, api}
    /\ host = None => Configured \in {None, api}

Served(c) == c.pc = "done" /\ c.out \in {"token", "authenticated"}

\* The token GetToken returns, and the one GetStatus reports, belongs to the
\* profile of the request, to the service account its scope names, and was
\* issued by the cluster the request selects: the hostname, else the
\* configured server (auth_handler.go:257-273).  This holds whatever logins,
\* logouts and requests for other clusters interleave.
ServedAsRequested ==
    \A r \in Calls :
        LET c == call[r]
        IN  Served(c) =>
              /\ c.held.tok = [iss |-> c.api, sub |-> c.sa, prof |-> c.prof]
              /\ Selects(c.host, c.api)
              /\ <<c.prof, c.api>> \in granted

\* "An explicit per-request hostname wins" (auth_handler.go:257): a request
\* that names a cluster is served that cluster's token or none.
ExplicitHostnameWins ==
    \A r \in Calls :
        Served(call[r]) /\ call[r].host # None => Resolved[call[r].host] = call[r].api

\* The credential sent with a TokenRequest, or to ask who has logged in, is the
\* user's own token of the cluster it is sent to (auth_handler.go:137, 308-322).
BearerStaysHome ==
    \A r \in Calls :
        LET c == call[r]
        IN  c.pc \in {"whoami", "mint"} =>
              c.held.tok = [iss |-> c.api, sub |-> None, prof |-> c.prof]

-----------------------------------------------------------------------------
(* Correctness: what a step may never do                                   *)

Removed(k) == store[k] # None /\ store'[k] = None

Returns(r, op) == call[r].op = op /\ InProgress(r) /\ call'[r].pc = "done"

\* Whether this is a step of a call that may delete the secret: a logout
\* deletes within its profile and, given a hostname, only that cluster's
\* tokens, never the marker; a purge deletes tokens of its profile.
MayRemove(r, k) ==
    LET c == call[r]
    IN  /\ InProgress(r) /\ call'[r] # c
        /\ c.prof = k.prof
        /\ \/ c.op = "logout" /\ c.host = None
           \/ /\ c.op = "logout" /\ c.host # None
              /\ IsEntry(store[k]) /\ store[k].tok.iss = Resolved[c.host]
           \/ c.op = "purge" /\ IsEntry(store[k])

\* Credentials of other profiles, and on a logout with a hostname those of
\* other clusters, survive, even though the value tested and the value deleted
\* are read at different times (cache.go:154-183).
RemovalsAreScoped ==
    [][\A k \in Keys : Removed(k) => \E r \in Calls : MayRemove(r, k)]_vars

LogoutScope(c) ==
    { k \in Keys : k.prof = c.prof
                   /\ (c.host = None \/ (k.kind # "active" /\ k.api = c.api)) }

ClearsItsScope(r) ==
    Returns(r, "logout") => \A k \in LogoutScope(call[r]) : store'[k] = None

\* A logout none of whose host calls fails, and during which no other call
\* changes a secret of the profile, leaves nothing of what it was asked to
\* clear (auth_handler.go:166-168).
QuietLogoutClears ==
    [][\A r \in Calls : r \notin disturbed' \cup faulted' /\ call'[r].out = "ok"
                          => ClearsItsScope(r)]_vars

\* A logout "clears just that cluster's user and service-account tokens"
\* (auth_handler.go:166-168): when it returns with its host calls successful, a
\* service-account token is held only where a user token is, of a login since.
LogoutStrandsNothing ==
    [][\A r \in Calls :
         Returns(r, "logout") /\ r \notin faulted' /\ call'[r].out = "ok" =>
           \A k \in LogoutScope(call[r]) :
             k.kind = "sa" /\ store'[k] # None => store'[userTokenKey(k.prof, k.api)] # None]_vars

\* A login that is not disturbed and whose host calls succeed leaves the token
\* of its cluster held and that cluster active (auth_handler.go:149-157).
QuietLoginTakesEffect ==
    [][\A r \in Calls :
         Returns(r, "login") /\ call'[r].out = "ok" /\ r \notin disturbed' \cup faulted'
           => LET c == call[r]
              IN  /\ store'[userTokenKey(c.prof, c.api)] = c.held
                  /\ store'[activeClusterKey(c.prof)] = c.api]_vars

\* A listing that no other call disturbs and whose host calls succeed shows what
\* is held under its profile, expired or not, and nothing else
\* (cache.go:185-221).
QuietListingIsExact ==
    [][\A r \in Calls :
         Returns(r, "list") /\ call'[r].out = "ok" /\ r \notin disturbed' \cup faulted'
           => call[r].shown =
                { v \in { store[k] : k \in { l \in Keys : l.prof = call[r].prof } } :
                    IsEntry(v) }]_vars

RemovesOnlyExpired(r) ==
    call[r].pc = "purgeDelete" /\ call'[r] # call[r] =>
        \A k \in Keys : Removed(k) =>
            store[k].exp # UnknownExpiry /\ store[k].exp < now

\* A purge that no other call disturbs deletes expired tokens only: none whose
\* expiry is unknown and none that is merely within the leeway.
QuietPurgeKeepsLive ==
    [][\A r \in Calls : r \notin disturbed' => RemovesOnlyExpired(r)]_vars

\* "cachePurgeExpired deletes expired openshift entries" (cache.go:223-224),
\* whatever else runs.
PurgeKeepsLive == [][\A r \in Calls : RemovesOnlyExpired(r)]_vars

-----------------------------------------------------------------------------
(* Correctness: progress                                                   *)

\* How much of its way a call has before it; a loop is one stage of it.
StagesLeft(pc) ==
    CASE pc \in {"idle", "done"} -> 0
      [] pc \in {"setActive", "saCache", "statusGet", "userGet", "clearAll", "clusterGet",
                 "clusterDelete", "listGet", "purgeGet", "purgeDelete"} -> 1
      [] pc \in {"cacheToken", "mint", "listAll", "listCluster", "listTokens",
                 "purgeList"} -> 2
      [] pc \in {"whoami", "bearerGet"} -> 3
      [] pc \in {"webLogin", "saGet"} -> 4
      [] pc \in {"discover", "readActive"} -> 5

\* A call goes on to a later stage, or takes up another of the keys its loop has
\* yet to visit, or is done with the one it took up.
Advances(c, d) ==
    \/ StagesLeft(d.pc) < StagesLeft(c.pc)
    \/ /\ StagesLeft(d.pc) = StagesLeft(c.pc)
       /\ \/ d.work \subseteq c.work /\ d.work # c.work
          \/ /\ d.work = c.work
             /\ c.pc \in {"clusterDelete", "purgeDelete"}
             /\ d.pc \notin {"clusterDelete", "purgeDelete"}

\* Whatever fails and whatever other calls add to the store, no step of a call
\* leads it back, nor gives its loop more to do than it had listed at first: the
\* loops of the logouts, the purge and the listing visit each key once
\* (cache.go:147-152, 168-183, 199-219, 233-249).
EveryStepAdvances ==
    [][\A r \in Calls :
         InProgress(r) /\ (Proceed(r) \/ call'[r] # call[r])
           => Advances(call[r], call'[r])]_vars

\* Every RPC returns or is cut short, whatever fails: no error of the store and
\* no interference from other calls makes one of its loops go on for ever.
EveryCallReturns == \A r \in Calls : InProgress(r) ~> ~InProgress(r)

-----------------------------------------------------------------------------
(* What it implements                                                      *)

\* The clusters a request is about: those a logout or a purge may clear, those
\* another request may select.
Reach(c) ==
    { a \in Clusters :
        CASE c.op = "logout" -> c.host # None => Resolved[c.host] = a
          [] c.op \in {"list", "purge"} -> TRUE
          [] OTHER -> Selects(c.host, a) }

Credential(tok) == [prof |-> tok.prof, api |-> tok.iss, sa |-> tok.sub]

Held ==
    { [prof |-> k.prof, api |-> k.api, sa |-> k.sa] :
        k \in { l \in Keys : l.kind # "active" /\ store[l] # None } }

Asked ==
    [r \in Calls |->
        IF InProgress(r)
        THEN [op |-> call[r].op, prof |-> call[r].prof, sa |-> call[r].sa,
              reach |-> Reach(call[r])]
        ELSE None]

Answers ==
    [r \in Calls |-> IF Served(call[r]) THEN Credential(call[r].held.tok) ELSE None]

Custody == INSTANCE TokenCustody
    WITH Slots <- Calls, Accounts <- ServiceAccounts,
         held <- Held, asked <- Asked, answer <- Answers

\* Keys, host calls, listings and the clock implement the custody of
\* credentials, under any interleaving and any failure (cache.go:47-73,
\* auth_handler.go:91-348).
ImplementsCustody == Custody!Spec
=============================================================================
