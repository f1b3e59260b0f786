------------------------ MODULE AuthHandlerInduction ------------------------
(***************************************************************************)
(* The inductive invariant behind the safety properties of AuthHandler.    *)
(* They are not inductive by themselves: that a token is filed for its     *)
(* owner depends on what a call that is about to file one carries, which   *)
(* depends on what it read and on the request it started from.             *)
(***************************************************************************)
EXTENDS AuthHandler

\* What a key may lead to: a marker to a cluster; any other key, if to anything,
\* to a token of a completed login, filed for its owner.
WellFiled(k, v) ==
    /\ k.kind = "active" => v \in Clusters \cup {None}
    /\ k.kind # "active" /\ v # None =>
         /\ IsEntry(v)
         /\ v = [kind |-> k.kind, api |-> k.api, sa |-> k.sa, exp |-> v.exp,
                 tok |-> [iss |-> k.api, sub |-> k.sa, prof |-> k.prof]]
         /\ <<k.prof, k.api>> \in granted
         /\ k.sa \notin InvalidNames

StoreCoherent == \A k \in Keys : WellFiled(k, store[k])

\* What a call knows at each of its steps.
LoginSteps  == {"discover", "webLogin", "whoami", "cacheToken", "setActive"}
AllSteps    == {"listAll", "clearAll"}
ClusterSteps == {"listCluster", "clusterGet", "clusterDelete"}
ListSteps   == {"listTokens", "listGet"}
PurgeSteps  == {"purgeList", "purgeGet", "purgeDelete"}
UserSteps   == {"statusGet", "userGet"}
SASteps     == {"saGet", "bearerGet", "mint", "saCache"}
TargetKnown == LoginSteps \cup UserSteps \cup SASteps

\* The request the step is part of.
RequestCoherent(c) ==
    /\ c.pc \notin {"idle", "done"} => c.prof \in Profiles
    /\ c.pc \in AllSteps => c.op = "logout" /\ c.host = None
    /\ c.pc \in ClusterSteps =>
         c.op = "logout" /\ c.host # None /\ Resolved[c.host] = c.api
    /\ c.pc \in LoginSteps => c.op = "login"
    /\ c.pc \in ListSteps => c.op = "list"
    /\ c.pc \in PurgeSteps => c.op = "purge"
    /\ c.pc = "statusGet" => c.op = "status"
    /\ c.pc \in {"userGet"} \cup SASteps => c.op = "token"
    /\ c.pc = "readActive" =>
         /\ c.op \in {"status", "token"} /\ RequestedServer(c.host) = None
         /\ c.op = "status" => c.sa = None

\* The cluster and the account the step is about.
TargetCoherent(c) ==
    /\ c.pc \in TargetKnown =>
         c.api \in Clusters /\ RequestedServer(c.host) \in {None, c.api}
    /\ c.pc \in UserSteps => c.sa = None
    /\ c.pc \in SASteps => c.sa \in ServiceAccounts

\* The entry the step carries.
HeldCoherent(c) ==
    /\ c.pc \in {"whoami", "cacheToken", "setActive", "mint", "saCache"} => c.held \in Entries
    /\ c.pc \in {"whoami", "cacheToken", "setActive", "mint"} =>
         c.held = UserEntry(c.prof, c.api, c.held.exp) /\ <<c.prof, c.api>> \in granted
    /\ c.pc = "saCache" =>
         /\ c.held = SAEntry(c.prof, c.api, c.sa, c.held.exp)
         /\ <<c.prof, c.api>> \in granted
         /\ c.sa \notin InvalidNames

\* The keys the step has yet to visit, and the one it is about to delete.
WorkCoherent(c) ==
    /\ \A k \in c.work : k.prof = c.prof
    /\ \A e \in c.shown : e.tok.prof = c.prof
    /\ c.pc = "clusterDelete" =>
         c.key \in UserKeys \cup SAKeys /\ c.key.prof = c.prof /\ c.key.api = c.api
    /\ c.pc = "purgeDelete" => c.key \in UserKeys \cup SAKeys /\ c.key.prof = c.prof

ServedCoherent(c) ==
    Served(c) =>
        /\ c.held.tok = [iss |-> c.api, sub |-> c.sa, prof |-> c.prof]
        /\ RequestedServer(c.host) \in {None, c.api}
        /\ <<c.prof, c.api>> \in granted

CallCoherent(c) ==
    /\ RequestCoherent(c)
    /\ TargetCoherent(c)
    /\ HeldCoherent(c)
    /\ WorkCoherent(c)
    /\ ServedCoherent(c)

\* The inductive invariant: every reachable state, and every state a step
\* leads to from such a state, has a coherent store and coherent calls
\* (auth_handler.go:91-331, cache.go:76-250).
IInv ==
    /\ TypeOK
    /\ StoreCoherent
    /\ \A r \in Calls : CallCoherent(call[r])

-----------------------------------------------------------------------------
(* What a call that nothing hinders can rely on: no other call has changed a *)
(* secret of its profile, so what it read, or did, is still so.              *)

KeysOf(p) == { k \in Keys : k.prof = p }

EntriesAt(keys) == { v \in { store[k] : k \in keys } : IsEntry(v) }

\* What the purge is about to delete has expired.
PurgeQuiet(c) ==
    c.pc = "purgeDelete" => IsEntry(store[c.key]) /\ isExpired(now, store[c.key].exp)

\* The token the login filed is there.
LoginQuiet(c) ==
    c.pc = "setActive" => store[userTokenKey(c.prof, c.api)] = c.held

\* Of what the logout is to clear, nothing is left but what it has yet to visit.
LogoutQuiet(c) ==
    /\ c.pc = "clearAll" => \A k \in KeysOf(c.prof) \ c.work : store[k] = None
    /\ c.pc \in {"clusterGet", "clusterDelete"} =>
         \A k \in KeysOf(c.prof) \ c.work :
           k.kind # "active" /\ k.api = c.api =>
             store[k] = None \/ (c.pc = "clusterDelete" /\ k = c.key)

\* The listing has found what the keys it has visited lead to, and nothing at
\* first.
ListQuiet(c) ==
    /\ c.pc = "listTokens" => c.shown = {}
    /\ c.pc = "listGet" => c.shown = EntriesAt(KeysOf(c.prof) \ c.work)

QuietCoherent(r) ==
    /\ r \notin disturbed => PurgeQuiet(call[r])
    /\ r \notin disturbed \cup faulted =>
         LoginQuiet(call[r]) /\ LogoutQuiet(call[r]) /\ ListQuiet(call[r])

\* The inductive invariant for what happens without interference.
QuietInv == \A r \in Calls : QuietCoherent(r)
=============================================================================
