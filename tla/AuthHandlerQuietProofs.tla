----------------------- MODULE AuthHandlerQuietProofs -----------------------
(***************************************************************************)
(* What AuthHandler promises a call that nothing hinders: the purge keeps  *)
(* live tokens, a login takes effect, a logout clears its scope, a listing *)
(* is exact.  No lock enforces it.  Calls of one profile that run at once  *)
(* break it, and each has then disturbed the other; the invariant QuietInv *)
(* says what a call may rely on as long as none has.                       *)
(***************************************************************************)
EXTENDS AuthHandlerProofs

USE DEF LoginSteps, AllSteps, ClusterSteps, ListSteps, PurgeSteps, UserSteps, SASteps, TargetKnown

-----------------------------------------------------------------------------
(* What a step of one call is to the others                                *)

\* A step of r leaves the other calls as they are, and forgets of no other call
\* that it was disturbed or hit by a fault.  What it writes is its own profile's,
\* and disturbs whoever else works on that profile.
Local(r) ==
    /\ \A q \in Calls \ {r} : call'[q] = call[q]
    /\ disturbed \ {r} \subseteq disturbed' /\ faulted \ {r} \subseteq faulted'
    /\ now' = now
    /\ \A k \in Keys : store'[k] # store[k] =>
         InProgress(r) /\ k.prof = call[r].prof /\ Others(r) \subseteq disturbed'

LEMMA ArriveLocal ==
    ASSUME IInv, NEW r \in Calls, NEW c, Arrive(r, c)
    PROVE  Local(r)
  BY DEF IInv, TypeOK, Arrive, Become, Local

LEMMA StillLocal ==
    ASSUME IInv, NEW r \in Calls, NEW c, Become(r, c),
           UNCHANGED <<store, now, disturbed, faulted>>
    PROVE  Local(r)
  BY DEF IInv, TypeOK, Become, Local

LEMMA ReadLocal ==
    ASSUME IInv, NEW r \in Calls, NEW c, Become(r, c), UNCHANGED now,
           ReadOk \/ ReadFails(r)
    PROVE  Local(r)
  BY DEF IInv, TypeOK, Become, Local, ReadOk, ReadFails, HostFails

LEMMA WriteLocal ==
    ASSUME IInv, NEW r \in Calls, NEW c, Become(r, c), UNCHANGED now, InProgress(r),
           NEW k \in Keys, k.prof = call[r].prof, NEW v,
           WriteOk(r, k, v) \/ WriteFails(r, k, v)
    PROVE  Local(r)
<1>1. \A q \in Calls \ {r} : call'[q] = call[q]
  BY DEF IInv, TypeOK, Become
<1>2. disturbed \subseteq disturbed' /\ faulted \subseteq faulted'
  BY DEF WriteOk, WriteFails, Write, HostFails
<1>3. ASSUME NEW l \in Keys, store'[l] # store[l]
      PROVE  l = k /\ Others(r) \subseteq disturbed'
  BY <1>3 DEF IInv, TypeOK, WriteOk, WriteFails, Write
<1>4. QED
  BY <1>1, <1>2, <1>3 DEF Local

LEMMA RequestLocal ==
    ASSUME IInv, NEW r \in Calls, Request(r)
    PROVE  Local(r)
<1>1. ASSUME NEW p, NEW h, LoginStart(r, p, h) PROVE Local(r)
  BY <1>1, ArriveLocal DEF LoginStart
<1>2. ASSUME NEW p, NEW h, LogoutStart(r, p, h) PROVE Local(r)
  BY <1>2, ArriveLocal DEF LogoutStart
<1>3. ASSUME NEW p, NEW h, StatusStart(r, p, h) PROVE Local(r)
  BY <1>3, ArriveLocal DEF StatusStart
<1>4. ASSUME NEW p, NEW h, NEW s, NEW min, NEW force, TokenStart(r, p, h, s, min, force)
      PROVE  Local(r)
  BY <1>4, ArriveLocal DEF TokenStart
<1>5. ASSUME NEW p, ListStart(r, p) \/ PurgeStart(r, p) PROVE Local(r)
  BY <1>5, ArriveLocal DEF ListStart, PurgeStart
<1>6. QED
  BY <1>1, <1>2, <1>3, <1>4, <1>5 DEF Request

\* The steps that change no secret.
LEMMA ReadingLocal ==
    ASSUME IInv, NEW r \in Calls,
           \/ Discover(r) \/ WebLoginSucceeds(r) \/ WebLoginFails(r) \/ Whoami(r)
           \/ LogoutList(r) \/ ClearClusterGet(r) \/ LogoutReturn(r)
           \/ ReadActive(r) \/ StatusGet(r) \/ UserGet(r) \/ SAGet(r)
           \/ BearerGet(r) \/ MintSucceeds(r) \/ MintFails(r)
           \/ ListTokens(r) \/ ListGet(r) \/ ListReturn(r)
           \/ PurgeList(r) \/ PurgeGet(r) \/ PurgeReturn(r)
    PROVE  Local(r)
<1>1. CASE \/ Discover(r) \/ WebLoginSucceeds(r) \/ WebLoginFails(r) \/ Whoami(r)
           \/ LogoutReturn(r) \/ MintSucceeds(r) \/ MintFails(r) \/ ListReturn(r)
           \/ PurgeReturn(r)
  BY <1>1, StillLocal DEF Discover, WebLoginSucceeds, WebLoginFails, Whoami, LogoutReturn,
     MintSucceeds, MintFails, ListReturn, PurgeReturn, Goto, Finish
<1>2. CASE \/ LogoutList(r) \/ ClearClusterGet(r) \/ ListTokens(r) \/ ListGet(r)
           \/ PurgeList(r) \/ PurgeGet(r)
  BY <1>2, ReadLocal DEF LogoutList, ClearClusterGet, ListTokens, ListGet, PurgeList,
     PurgeGet, Finish
<1>3. CASE \/ ReadActive(r) \/ StatusGet(r) \/ UserGet(r) \/ SAGet(r) \/ BearerGet(r)
  BY <1>3, ReadLocal DEF ReadActive, StatusGet, UserGet, SAGet, BearerGet, Finish, Goto, Serve
<1>4. QED
  BY <1>1, <1>2, <1>3

\* The steps that write or delete a secret.
LEMMA WritingLocal ==
    ASSUME IInv, NEW r \in Calls,
           \/ LoginCacheToken(r) \/ LoginSetActive(r) \/ SACache(r)
           \/ ClearAllDelete(r) \/ ClearClusterDelete(r) \/ PurgeDelete(r)
    PROVE  Local(r)
<1> DEFINE c == call[r]
<1>1. c \in CallStates /\ CallCoherent(c)
  BY SlotFacts
<1>2. CASE LoginCacheToken(r)
  <2>1. c.prof \in Profiles /\ c.api \in Clusters
    BY <1>1, <1>2 DEF LoginCacheToken, CallCoherent, RequestCoherent, TargetCoherent
  <2>2. userTokenKey(c.prof, c.api) \in Keys /\ userTokenKey(c.prof, c.api).prof = c.prof
    BY <2>1, KeyFacts DEF userTokenKey
  <2>3. InProgress(r)
    BY <1>2 DEF LoginCacheToken, InProgress
  <2>4. QED
    BY <1>2, <2>2, <2>3, WriteLocal DEF LoginCacheToken, Goto
<1>3. CASE LoginSetActive(r)
  <2>1. c.prof \in Profiles
    BY <1>1, <1>3 DEF LoginSetActive, CallCoherent, RequestCoherent
  <2>2. activeClusterKey(c.prof) \in Keys /\ activeClusterKey(c.prof).prof = c.prof
    BY <2>1, KeyFacts DEF activeClusterKey
  <2>3. InProgress(r)
    BY <1>3 DEF LoginSetActive, InProgress
  <2>4. QED
    BY <1>3, <2>2, <2>3, WriteLocal DEF LoginSetActive, Finish
<1>4. CASE SACache(r)
  <2>1. c.prof \in Profiles /\ c.api \in Clusters /\ c.sa \in ServiceAccounts
    BY <1>1, <1>4 DEF SACache, CallCoherent, RequestCoherent, TargetCoherent
  <2>2. /\ saTokenKey(c.prof, c.api, c.sa) \in Keys
        /\ saTokenKey(c.prof, c.api, c.sa).prof = c.prof
    BY <2>1, KeyFacts DEF saTokenKey
  <2>3. InProgress(r)
    BY <1>4 DEF SACache, InProgress
  <2>4. QED
    BY <1>4, <2>2, <2>3, WriteLocal DEF SACache, Serve
<1>5. CASE ClearAllDelete(r)
  <2>1. InProgress(r) /\ UNCHANGED now
    BY <1>5 DEF ClearAllDelete, InProgress
  <2>2. PICK k \in c.work :
          /\ WriteOk(r, k, None) \/ WriteFails(r, k, None)
          /\ Become(r, [c EXCEPT !.work = c.work \ {k}])
    BY <1>5 DEF ClearAllDelete
  <2>3. k \in Keys /\ k.prof = c.prof
    BY <1>1, <2>2 DEF CallStates, CallCoherent, WorkCoherent
  <2>4. QED
    BY <2>1, <2>2, <2>3, WriteLocal
<1>6. CASE ClearClusterDelete(r) \/ PurgeDelete(r)
  <2>1. c.key \in Keys /\ c.key.prof = c.prof
    BY <1>1, <1>6, KeyShape DEF ClearClusterDelete, PurgeDelete, CallCoherent, WorkCoherent
  <2>2. InProgress(r)
    BY <1>6 DEF ClearClusterDelete, PurgeDelete, InProgress
  <2>3. QED
    BY <1>6, <2>1, <2>2, WriteLocal DEF ClearClusterDelete, PurgeDelete
<1>7. QED
  BY <1>2, <1>3, <1>4, <1>5, <1>6

\* Every step of a call is local.
LEMMA StepsAreLocal ==
    ASSUME IInv, NEW r \in Calls, Request(r) \/ Proceed(r) \/ Abandon(r)
    PROVE  Local(r)
<1>1. CASE Abandon(r)
  BY <1>1 DEF Abandon, IInv, TypeOK, Become, Local
<1>2. QED
  BY <1>1, RequestLocal, ReadingLocal, WritingLocal DEF Proceed

-----------------------------------------------------------------------------
(* A step of another call, or of the clock                                 *)

\* The steps QuietInv says something about.
Watched == {"setActive", "clearAll", "clusterGet", "clusterDelete",
            "listTokens", "listGet", "purgeDelete"}

\* Where the profile's secrets and the call are as they were, what the call can
\* rely on still holds, however late it has become.
LEMMA Unhindered ==
    ASSUME IInv, NEW r \in Calls, call'[r] = call[r],
           now' \in Nat, now' >= now,
           call[r].pc \in Watched => \A k \in KeysOf(call[r].prof) : store'[k] = store[k]
    PROVE  /\ PurgeQuiet(call[r]) => PurgeQuiet(call[r])'
           /\ LoginQuiet(call[r]) => LoginQuiet(call[r])'
           /\ LogoutQuiet(call[r]) => LogoutQuiet(call[r])'
           /\ ListQuiet(call[r]) => ListQuiet(call[r])'
<1> DEFINE c == call[r]
<1>1. CallCoherent(c) /\ c \in CallStates
  BY SlotFacts
<1>2. PurgeQuiet(c) => PurgeQuiet(c)'
  <2> SUFFICES ASSUME PurgeQuiet(c), c.pc = "purgeDelete"
               PROVE  IsEntry(store'[c.key]) /\ isExpired(now', store'[c.key].exp)
    BY DEF PurgeQuiet
  <2>1. c.key \in Keys /\ c.key \in KeysOf(c.prof)
    BY <1>1, KeyShape DEF CallCoherent, WorkCoherent, KeysOf
  <2>2. store'[c.key] = store[c.key]
    BY <2>1 DEF Watched
  <2>3. IsEntry(store[c.key]) /\ isExpired(now, store[c.key].exp)
    BY DEF PurgeQuiet
  <2>4. store[c.key].exp \in Nat
    BY <2>1, <2>3, EntryKey
  <2>5. now \in Nat
    BY DEF IInv, TypeOK
  <2>6. isExpired(now', store[c.key].exp)
    BY <2>3, <2>4, <2>5 DEF isExpired
  <2>7. QED
    BY <2>2, <2>3, <2>6
<1>3. LoginQuiet(c) => LoginQuiet(c)'
  <2> SUFFICES ASSUME LoginQuiet(c), c.pc = "setActive"
               PROVE  store'[userTokenKey(c.prof, c.api)] = c.held
    BY DEF LoginQuiet
  <2>1. c.prof \in Profiles /\ c.api \in Clusters
    BY <1>1 DEF CallCoherent, RequestCoherent, TargetCoherent
  <2>2. userTokenKey(c.prof, c.api) \in KeysOf(c.prof)
    BY <2>1, KeyFacts DEF KeysOf, userTokenKey
  <2>3. QED
    BY <2>2 DEF Watched, LoginQuiet
<1>4. LogoutQuiet(c) => LogoutQuiet(c)'
  BY DEF LogoutQuiet, Watched
<1>5. ListQuiet(c) => ListQuiet(c)'
  <2> SUFFICES ASSUME ListQuiet(c), c.pc = "listGet"
               PROVE  c.shown = EntriesAt(KeysOf(c.prof) \ c.work)'
    BY DEF ListQuiet
  <2>1. \A k \in KeysOf(c.prof) \ c.work : store'[k] = store[k]
    BY DEF Watched
  <2>2. EntriesAt(KeysOf(c.prof) \ c.work)' = EntriesAt(KeysOf(c.prof) \ c.work)
    BY <2>1 DEF EntriesAt, KeysOf
  <2>3. QED
    BY <2>2 DEF ListQuiet
<1>6. QED
  BY <1>2, <1>3, <1>4, <1>5

\* Steps of other calls leave a call what it can rely on, or disturb it.
LEMMA OthersKeepQuiet ==
    ASSUME IInv, QuietInv, NEW q \in Calls, Local(q), NEW r \in Calls \ {q}
    PROVE  QuietCoherent(r)'
<1> DEFINE c == call[r]
<1> SUFFICES ASSUME r \notin disturbed' PROVE QuietCoherent(r)'
  BY DEF QuietCoherent
<1>1. call'[r] = c /\ r \notin disturbed /\ (r \notin faulted' => r \notin faulted)
  BY DEF Local
<1>2. now \in Nat /\ now' = now
  BY DEF IInv, TypeOK, Local
<1>3. c.pc \in Watched => \A k \in KeysOf(c.prof) : store'[k] = store[k]
  <2> SUFFICES ASSUME c.pc \in Watched, NEW k \in KeysOf(c.prof), store'[k] # store[k]
               PROVE  FALSE
    OBVIOUS
  <2>1. InProgress(q) /\ call[q].prof = c.prof /\ Others(q) \subseteq disturbed'
    BY DEF Local, KeysOf
  <2>2. r \in Others(q)
    BY <2>1 DEF Others, InProgress, Watched
  <2>3. QED
    BY <2>1, <2>2
<1>4. QED
  BY <1>1, <1>2, <1>3, Unhindered DEF QuietInv, QuietCoherent

\* Time passes.
LEMMA TickKeepsQuiet ==
    ASSUME IInv, QuietInv, Tick, NEW r \in Calls
    PROVE  QuietCoherent(r)'
<1>1. now \in Nat /\ now' = now + 1 /\ UNCHANGED <<store, call, disturbed, faulted>>
  BY DEF IInv, TypeOK, Tick
<1>2. QED
  BY <1>1, Unhindered DEF QuietInv, QuietCoherent

-----------------------------------------------------------------------------
(* A step of the call itself                                               *)

LEMMA UnwatchedQuiet ==
    ASSUME NEW r \in Calls, call'[r].pc \notin Watched
    PROVE  QuietCoherent(r)'
  BY DEF Watched, QuietCoherent, PurgeQuiet, LoginQuiet, LogoutQuiet, ListQuiet

\* Where a step leads.
LEMMA Landing ==
    ASSUME IInv, NEW r \in Calls
    PROVE  /\ \A pc : Goto(r, pc) => call'[r].pc = pc
           /\ \A out : Finish(r, out) => call'[r].pc = "done"
           /\ \A out : \A e : Serve(r, out, e) => call'[r].pc = "done"
<1>1. call[r] \in CallStates
  BY SlotFacts
<1>2. ASSUME NEW pc, Goto(r, pc) PROVE call'[r].pc = pc
  BY <1>1, <1>2, SlotFacts DEF Goto, CallStates
<1>3. ASSUME NEW out, Finish(r, out) PROVE call'[r].pc = "done"
  BY <1>3, SlotFacts DEF Finish, Returned, Idle
<1>4. ASSUME NEW out, NEW e, Serve(r, out, e) PROVE call'[r].pc = "done"
  <2> DEFINE c == call[r]
             d == ServedSlot(c.op, c.prof, c.host, c.sa, c.api, out, e)
  <2>1. Become(r, d)
    BY <1>4 DEF Serve, ServedSlot
  <2>2. d.pc = "done"
    BY DEF ServedSlot, Idle
  <2> HIDE DEF d
  <2>3. call'[r] = d
    BY <2>1, SlotFacts
  <2>4. QED
    BY <2>2, <2>3
<1>5. QED
  BY <1>2, <1>3, <1>4

\* The step a new call is at, or one that fails at once.
LEMMA NewCallStep ==
    ASSUME NEW op, NEW p, NEW h, NEW pc, NEW api
    PROVE  /\ [NewCall(op, p, h) EXCEPT !.pc = pc].pc = pc
           /\ [NewCall(op, p, h) EXCEPT !.pc = pc, !.api = api].pc = pc
  BY DEF NewCall, Idle

LEMMA ReturnedStep == \A out : Returned(out).pc = "done"
  BY DEF Returned, Idle

LEMMA RequestQuiet ==
    ASSUME IInv, NEW r \in Calls, Request(r)
    PROVE  QuietCoherent(r)'
<1>1. \A c : Arrive(r, c) => call'[r] = c
  BY SlotFacts DEF Arrive
<1>2. ASSUME NEW p, NEW h, LoginStart(r, p, h) PROVE call'[r].pc \notin Watched
  <2> DEFINE found == [NewCall("login", p, h) EXCEPT !.pc = "discover",
                                                    !.api = RequestedServer(h)]
  <2>1. call'[r] = Returned("error") \/ call'[r] = found
    BY <1>1, <1>2 DEF LoginStart
  <2>2. found.pc = "discover"
    BY NewCallStep
  <2> HIDE DEF found
  <2>3. QED
    BY <2>1, <2>2, ReturnedStep DEF Watched
<1>3. ASSUME NEW p, NEW h, LogoutStart(r, p, h) PROVE call'[r].pc \notin Watched
  <2> DEFINE all == [NewCall("logout", p, h) EXCEPT !.pc = "listAll"]
             one == [NewCall("logout", p, h) EXCEPT !.pc = "listCluster",
                                                  !.api = Resolved[h]]
  <2>1. call'[r] \in {Returned("error"), all, one}
    BY <1>1, <1>3 DEF LogoutStart
  <2>2. all.pc = "listAll" /\ one.pc = "listCluster"
    BY NewCallStep
  <2> HIDE DEF all, one
  <2>3. QED
    BY <2>1, <2>2, ReturnedStep DEF Watched
<1>4. ASSUME NEW p, NEW h, StatusStart(r, p, h) PROVE call'[r].pc \notin Watched
  <2> DEFINE active == [NewCall("status", p, h) EXCEPT !.pc = "readActive"]
             found  == [NewCall("status", p, h) EXCEPT !.pc = "statusGet",
                                                     !.api = RequestedServer(h)]
  <2>1. call'[r] \in {Returned("unauthenticated"), active, found}
    BY <1>1, <1>4 DEF StatusStart
  <2>2. active.pc = "readActive" /\ found.pc = "statusGet"
    BY NewCallStep
  <2> HIDE DEF active, found
  <2>3. QED
    BY <2>1, <2>2, ReturnedStep DEF Watched
<1>5. ASSUME NEW p, NEW h, NEW s, NEW min, NEW force, TokenStart(r, p, h, s, min, force)
      PROVE  call'[r].pc \notin Watched
  <2> DEFINE new == [NewCall("token", p, h) EXCEPT !.sa = s, !.min = min, !.force = force]
  <2>1. FirstGet(s, force) \in {"userGet", "bearerGet", "saGet"}
    BY DEF FirstGet
  <2>2. /\ [new EXCEPT !.pc = "readActive"].pc = "readActive"
        /\ [new EXCEPT !.pc = FirstGet(s, force), !.api = RequestedServer(h)].pc
             = FirstGet(s, force)
    BY DEF NewCall, Idle
  <2>3. Returned("error").pc = "done"
    BY DEF Returned, Idle
  <2>4. PICK d : /\ Arrive(r, d)
                 /\ \/ d = Returned("error")
                    \/ d = [new EXCEPT !.pc = "readActive"]
                    \/ d = [new EXCEPT !.pc = FirstGet(s, force), !.api = RequestedServer(h)]
    BY <1>5 DEF TokenStart
  <2>5. call'[r] = d
    BY <1>1, <2>4
  <2> HIDE DEF new
  <2>6. d.pc \in {"done", "readActive", FirstGet(s, force)}
    BY <2>2, <2>3, <2>4
  <2>7. QED
    BY <2>1, <2>5, <2>6 DEF Watched
<1>6. ASSUME NEW p, PurgeStart(r, p) PROVE call'[r].pc \notin Watched
  <2>1. call'[r] = [NewCall("purge", p, None) EXCEPT !.pc = "purgeList"]
    BY <1>1, <1>6 DEF PurgeStart
  <2>2. call'[r].pc = "purgeList"
    BY <2>1, NewCallStep
  <2>3. QED
    BY <2>2 DEF Watched
<1>7. ASSUME NEW p, ListStart(r, p) PROVE QuietCoherent(r)'
  <2>1. call'[r].pc = "listTokens" /\ call'[r].shown = {}
    BY <1>1, <1>7 DEF ListStart, NewCall, Idle
  <2>2. QED
    BY <2>1 DEF QuietCoherent, PurgeQuiet, LoginQuiet, LogoutQuiet, ListQuiet
<1>8. QED
  BY <1>2, <1>3, <1>4, <1>5, <1>6, <1>7, UnwatchedQuiet DEF Request

\* Reads and writes that go well, and those that fail.
LEMMA HostCallFacts ==
    ASSUME NEW r \in Calls
    PROVE  /\ ReadFails(r) => r \in faulted'
           /\ ReadOk => UNCHANGED <<store, disturbed, faulted>>
           /\ \A k \in Keys : \A v :
                /\ WriteOk(r, k, v) \/ WriteFails(r, k, v) =>
                     disturbed \subseteq disturbed' /\ faulted \subseteq faulted'
                /\ WriteFails(r, k, v) => r \in faulted'
                /\ WriteOk(r, k, v) => store' = [store EXCEPT ![k] = v]
  BY DEF ReadFails, ReadOk, WriteOk, WriteFails, Write, HostFails

LEMMA LoginCacheTokenQuiet ==
    ASSUME IInv, NEW r \in Calls, LoginCacheToken(r)
    PROVE  QuietCoherent(r)'
<1> DEFINE c == call[r]
           k == userTokenKey(c.prof, c.api)
<1>1. c \in CallStates /\ CallCoherent(c)
  BY SlotFacts
<1>2. /\ c.pc = "cacheToken" /\ Become(r, [c EXCEPT !.pc = "setActive"])
      /\ WriteOk(r, k, c.held) \/ WriteFails(r, k, c.held)
  BY DEF LoginCacheToken, Goto
<1>3. call'[r] = [c EXCEPT !.pc = "setActive"]
  BY <1>2, SlotFacts
<1>4. /\ call'[r].pc = "setActive" /\ call'[r].prof = c.prof /\ call'[r].api = c.api
      /\ call'[r].held = c.held
  BY <1>1, <1>3 DEF CallStates
<1>5. k \in Keys
  BY <1>1, <1>2, KeyFacts DEF CallCoherent, RequestCoherent, TargetCoherent
<1>6. r \notin faulted' => store'[k] = c.held
  BY <1>2, <1>5, HostCallFacts DEF IInv, TypeOK
<1>7. QED
  BY <1>4, <1>6 DEF QuietCoherent, PurgeQuiet, LoginQuiet, LogoutQuiet, ListQuiet

\* The keys the listing leaves out lead to nothing.
LEMMA UnlistedEmpty ==
    ASSUME NEW p
    PROVE  \A k \in KeysOf(p) \ Listed(p) : store[k] = None
  BY DEF KeysOf, Listed

LEMMA LogoutListQuiet ==
    ASSUME IInv, NEW r \in Calls, LogoutList(r)
    PROVE  QuietCoherent(r)'
<1> DEFINE c == call[r]
           pc == IF c.pc = "listAll" THEN "clearAll" ELSE "clusterGet"
           d == [c EXCEPT !.work = Listed(c.prof), !.pc = pc]
<1>1. \/ ReadOk /\ Become(r, d)
      \/ ReadFails(r) /\ Finish(r, "ok")
  BY DEF LogoutList
<1>2. CASE Finish(r, "ok")
  BY <1>2, Landing, UnwatchedQuiet DEF Watched
<1>3. CASE ReadOk /\ Become(r, d)
  <2>1. call'[r] = d /\ c \in CallStates
    BY <1>3, SlotFacts
  <2>2. call'[r].pc = pc /\ call'[r].prof = c.prof /\ call'[r].work = Listed(c.prof)
    BY <2>1 DEF CallStates
  <2>3. store' = store
    BY <1>3, HostCallFacts
  <2>4. LogoutQuiet(call[r])'
    BY <2>2, <2>3, UnlistedEmpty DEF LogoutQuiet, KeysOf
  <2>5. QED
    BY <2>2, <2>4 DEF QuietCoherent, PurgeQuiet, LoginQuiet, ListQuiet
<1>4. QED
  BY <1>1, <1>2, <1>3

LEMMA ClearAllDeleteQuiet ==
    ASSUME IInv, NEW r \in Calls, QuietCoherent(r), ClearAllDelete(r)
    PROVE  QuietCoherent(r)'
<1> DEFINE c == call[r]
<1>1. c \in CallStates /\ CallCoherent(c) /\ c.pc = "clearAll"
  BY SlotFacts DEF ClearAllDelete
<1>2. PICK k \in c.work :
        /\ WriteOk(r, k, None) \/ WriteFails(r, k, None)
        /\ Become(r, [c EXCEPT !.work = c.work \ {k}])
  BY DEF ClearAllDelete
<1>3. k \in Keys
  BY <1>1, <1>2 DEF CallStates
<1>4. call'[r] = [c EXCEPT !.work = c.work \ {k}]
  BY <1>2, SlotFacts
<1>5. call'[r].pc = "clearAll" /\ call'[r].prof = c.prof /\ call'[r].work = c.work \ {k}
  BY <1>1, <1>4 DEF CallStates
<1>6. ASSUME r \notin disturbed' \cup faulted' PROVE LogoutQuiet(call[r])'
  <2>1. r \notin disturbed \cup faulted /\ store' = [store EXCEPT ![k] = None]
    BY <1>2, <1>3, <1>6, HostCallFacts
  <2>2. \A l \in KeysOf(c.prof) \ c.work : store[l] = None
    BY <1>1, <2>1 DEF QuietCoherent, LogoutQuiet
  <2>3. \A l \in KeysOf(c.prof) \ (c.work \ {k}) : store'[l] = None
    BY <1>3, <2>1, <2>2 DEF IInv, TypeOK, KeysOf
  <2>4. QED
    BY <1>5, <2>3 DEF LogoutQuiet, KeysOf
<1>7. QED
  BY <1>5, <1>6 DEF QuietCoherent, PurgeQuiet, LoginQuiet, ListQuiet

\* What of the cluster's is filed under a token's key is recognised as such.
LEMMA ClusterRecognised ==
    ASSUME IInv, NEW k \in Keys, k.kind # "active", store[k] # None
    PROVE  BelongsToCluster(store[k], k.api)
<1>1. WellFiled(k, store[k])
  BY DEF IInv, StoreCoherent
<1>2. IsEntry(store[k])
  BY <1>1 DEF WellFiled
<1>3. QED
  BY <1>2, EntryKey DEF BelongsToCluster

LEMMA ClearClusterGetQuiet ==
    ASSUME IInv, NEW r \in Calls, QuietCoherent(r), ClearClusterGet(r)
    PROVE  QuietCoherent(r)'
<1> DEFINE c == call[r]
<1>1. c \in CallStates /\ c.pc = "clusterGet"
  BY SlotFacts DEF ClearClusterGet
<1>2. PICK k \in c.work :
        LET skip == [c EXCEPT !.work = c.work \ {k}]
            hit  == [c EXCEPT !.work = c.work \ {k}, !.key = k, !.pc = "clusterDelete"]
        IN  \/ /\ ReadOk
               /\ \/ BelongsToCluster(store[k], c.api) /\ Become(r, hit)
                  \/ ~BelongsToCluster(store[k], c.api) /\ Become(r, skip)
            \/ ReadFails(r) /\ Become(r, skip)
  BY DEF ClearClusterGet
<1> DEFINE skip == [c EXCEPT !.work = c.work \ {k}]
           hit  == [c EXCEPT !.work = c.work \ {k}, !.key = k, !.pc = "clusterDelete"]
<1>3. /\ skip.pc = "clusterGet" /\ skip.prof = c.prof /\ skip.api = c.api
      /\ skip.work = c.work \ {k}
      /\ hit.pc = "clusterDelete" /\ hit.prof = c.prof /\ hit.api = c.api
      /\ hit.work = c.work \ {k} /\ hit.key = k
  BY <1>1 DEF CallStates
<1>4. /\ call'[r] \in {skip, hit} /\ (ReadFails(r) \/ ReadOk)
      /\ BelongsToCluster(store[k], c.api) \/ ReadFails(r) \/ call'[r] = skip
      /\ call'[r] = hit \/ ReadFails(r) \/ ~BelongsToCluster(store[k], c.api)
  BY <1>2, SlotFacts
<1> HIDE DEF skip, hit
<1>5. ASSUME r \notin disturbed' \cup faulted' PROVE LogoutQuiet(call[r])'
  <2>1. /\ UNCHANGED <<store, disturbed, faulted>>
        /\ call'[r] = hit \/ (call'[r] = skip /\ ~BelongsToCluster(store[k], c.api))
    BY <1>4, <1>5, HostCallFacts
  <2>2. \A l \in KeysOf(c.prof) \ c.work :
          l.kind # "active" /\ l.api = c.api => store[l] = None
    BY <1>1, <1>5, <2>1 DEF QuietCoherent, LogoutQuiet
  <2>3. \A l \in KeysOf(c.prof) \ (c.work \ {k}) :
          l.kind # "active" /\ l.api = c.api =>
            store[l] = None \/ (l = k /\ BelongsToCluster(store[k], c.api))
    BY <2>2, ClusterRecognised DEF KeysOf
  <2>4. QED
    BY <1>3, <2>1, <2>3 DEF LogoutQuiet, KeysOf
<1>6. QED
  BY <1>3, <1>4, <1>5 DEF QuietCoherent, PurgeQuiet, LoginQuiet, ListQuiet

LEMMA ClearClusterDeleteQuiet ==
    ASSUME IInv, NEW r \in Calls, QuietCoherent(r), ClearClusterDelete(r)
    PROVE  QuietCoherent(r)'
<1> DEFINE c == call[r]
<1>1. c \in CallStates /\ CallCoherent(c) /\ c.pc = "clusterDelete"
  BY SlotFacts DEF ClearClusterDelete
<1>2. /\ WriteOk(r, c.key, None) \/ WriteFails(r, c.key, None)
      /\ Become(r, [c EXCEPT !.pc = "clusterGet", !.key = None])
  BY DEF ClearClusterDelete
<1>3. c.key \in Keys
  BY <1>1, KeyShape DEF CallCoherent, WorkCoherent
<1>4. call'[r] = [c EXCEPT !.pc = "clusterGet", !.key = None]
  BY <1>2, SlotFacts
<1>5. /\ call'[r].pc = "clusterGet" /\ call'[r].prof = c.prof /\ call'[r].api = c.api
      /\ call'[r].work = c.work
  BY <1>1, <1>4 DEF CallStates
<1>6. ASSUME r \notin disturbed' \cup faulted' PROVE LogoutQuiet(call[r])'
  <2>1. r \notin disturbed \cup faulted /\ store' = [store EXCEPT ![c.key] = None]
    BY <1>2, <1>3, <1>6, HostCallFacts
  <2>2. \A l \in KeysOf(c.prof) \ c.work :
          l.kind # "active" /\ l.api = c.api => store[l] = None \/ l = c.key
    BY <1>1, <2>1 DEF QuietCoherent, LogoutQuiet
  <2>3. \A l \in KeysOf(c.prof) \ c.work :
          l.kind # "active" /\ l.api = c.api => store'[l] = None
    BY <1>3, <2>1, <2>2 DEF IInv, TypeOK, KeysOf
  <2>4. QED
    BY <1>5, <2>3 DEF LogoutQuiet, KeysOf
<1>7. QED
  BY <1>5, <1>6 DEF QuietCoherent, PurgeQuiet, LoginQuiet, ListQuiet

LEMMA ListTokensQuiet ==
    ASSUME IInv, NEW r \in Calls, QuietCoherent(r), ListTokens(r)
    PROVE  QuietCoherent(r)'
<1> DEFINE c == call[r]
           d == [c EXCEPT !.work = Listed(c.prof), !.pc = "listGet"]
<1>1. /\ c.pc = "listTokens"
      /\ \/ ReadOk /\ Become(r, d)
         \/ ReadFails(r) /\ Finish(r, "error")
  BY DEF ListTokens
<1>2. CASE Finish(r, "error")
  BY <1>2, Landing, UnwatchedQuiet DEF Watched
<1>3. CASE ReadOk /\ Become(r, d)
  <2>1. call'[r] = d /\ c \in CallStates
    BY <1>3, SlotFacts
  <2>2. /\ call'[r].pc = "listGet" /\ call'[r].prof = c.prof /\ call'[r].shown = c.shown
        /\ call'[r].work = Listed(c.prof)
    BY <2>1 DEF CallStates
  <2>3. UNCHANGED <<store, disturbed, faulted>>
    BY <1>3, HostCallFacts
  <2>4. ASSUME r \notin disturbed' \cup faulted' PROVE ListQuiet(call[r])'
    <3>1. c.shown = {}
      BY <1>1, <2>3, <2>4 DEF QuietCoherent, ListQuiet
    <3>2. \A v \in {store'[k] : k \in KeysOf(c.prof) \ Listed(c.prof)} : ~IsEntry(v)
      BY <2>3, UnlistedEmpty DEF IsEntry, KeysOf
    <3>3. {v \in {store'[k] : k \in KeysOf(c.prof) \ Listed(c.prof)} : IsEntry(v)} = {}
      BY <3>2
    <3>4. QED
      BY <2>2, <3>1, <3>3 DEF ListQuiet, EntriesAt, KeysOf
  <2>5. QED
    BY <2>2, <2>4 DEF QuietCoherent, PurgeQuiet, LoginQuiet, LogoutQuiet
<1>4. QED
  BY <1>1, <1>2, <1>3

LEMMA ListGetQuiet ==
    ASSUME IInv, NEW r \in Calls, QuietCoherent(r), ListGet(r)
    PROVE  QuietCoherent(r)'
<1> DEFINE c == call[r]
<1>1. c \in CallStates /\ CallCoherent(c) /\ c.pc = "listGet"
  BY SlotFacts DEF ListGet
<1>2. PICK k \in c.work :
        LET more == IF IsEntry(store[k]) THEN c.shown \cup {store[k]} ELSE c.shown
        IN  \/ ReadOk /\ Become(r, [c EXCEPT !.work = c.work \ {k}, !.shown = more])
            \/ ReadFails(r) /\ Become(r, [c EXCEPT !.work = c.work \ {k}])
  BY DEF ListGet
<1> DEFINE more == IF IsEntry(store[k]) THEN c.shown \cup {store[k]} ELSE c.shown
           skip == [c EXCEPT !.work = c.work \ {k}]
           hit  == [c EXCEPT !.work = c.work \ {k}, !.shown = more]
<1>3. /\ skip.pc = "listGet"
      /\ hit.pc = "listGet" /\ hit.prof = c.prof /\ hit.work = c.work \ {k} /\ hit.shown = more
  BY <1>1 DEF CallStates
<1>4. (call'[r] = hit /\ ReadOk) \/ (call'[r] = skip /\ ReadFails(r))
  BY <1>2, SlotFacts
<1> HIDE DEF skip, hit
<1>5. ASSUME r \notin disturbed' \cup faulted' PROVE ListQuiet(call[r])'
  <2>1. UNCHANGED <<store, disturbed, faulted>> /\ call'[r] = hit
    BY <1>4, <1>5, HostCallFacts
  <2>2. c.shown = EntriesAt(KeysOf(c.prof) \ c.work)
    BY <1>1, <1>5, <2>1 DEF QuietCoherent, ListQuiet
  <2>3. k \in KeysOf(c.prof)
    BY <1>1, <1>2 DEF CallStates, CallCoherent, WorkCoherent, KeysOf
  <2>4. KeysOf(c.prof) \ (c.work \ {k}) = (KeysOf(c.prof) \ c.work) \cup {k}
    BY <2>3
  <2>5. more = EntriesAt((KeysOf(c.prof) \ c.work) \cup {k})
    BY <2>2 DEF EntriesAt
  <2>6. more = {v \in {store'[l] : l \in KeysOf(c.prof) \ (c.work \ {k})} : IsEntry(v)}
    BY <2>1, <2>4, <2>5 DEF EntriesAt
  <2> HIDE DEF more
  <2>7. QED
    BY <1>3, <2>1, <2>6 DEF ListQuiet, EntriesAt, KeysOf
<1>6. call'[r].pc = "listGet"
  BY <1>3, <1>4
<1>7. QED
  BY <1>5, <1>6 DEF QuietCoherent, PurgeQuiet, LoginQuiet, LogoutQuiet

LEMMA PurgeGetQuiet ==
    ASSUME IInv, NEW r \in Calls, PurgeGet(r)
    PROVE  QuietCoherent(r)'
<1> DEFINE c == call[r]
<1>1. c \in CallStates /\ c.pc = "purgeGet" /\ now' = now
  BY SlotFacts DEF PurgeGet
<1>2. PICK k \in c.work :
        LET skip == [c EXCEPT !.work = c.work \ {k}]
            hit  == [c EXCEPT !.work = c.work \ {k}, !.key = k, !.pc = "purgeDelete"]
        IN  \/ /\ ReadOk /\ Become(r, hit)
               /\ IsEntry(store[k]) /\ isExpired(now, store[k].exp)
            \/ Become(r, skip)
  BY DEF PurgeGet
<1> DEFINE skip == [c EXCEPT !.work = c.work \ {k}]
           hit  == [c EXCEPT !.work = c.work \ {k}, !.key = k, !.pc = "purgeDelete"]
<1>3. skip.pc = "purgeGet" /\ hit.pc = "purgeDelete" /\ hit.key = k
  BY <1>1 DEF CallStates
<1>4. CASE Become(r, skip)
  <2>1. call'[r] = skip
    BY <1>4, SlotFacts
  <2> HIDE DEF skip
  <2>2. QED
    BY <1>3, <2>1, UnwatchedQuiet DEF Watched
<1>5. CASE ReadOk /\ Become(r, hit) /\ IsEntry(store[k]) /\ isExpired(now, store[k].exp)
  <2>1. call'[r] = hit
    BY <1>5, SlotFacts
  <2> HIDE DEF hit
  <2>2. call'[r].pc = "purgeDelete" /\ call'[r].key = k
    BY <1>3, <2>1
  <2>3. PurgeQuiet(call[r])'
    BY <1>1, <1>5, <2>2, HostCallFacts DEF PurgeQuiet, IsEntry
  <2>4. QED
    BY <2>2, <2>3 DEF QuietCoherent, LoginQuiet, LogoutQuiet, ListQuiet
<1>6. QED
  BY <1>2, <1>4, <1>5

\* The other steps lead to where nothing need be relied on.
LEMMA OtherStepsQuiet ==
    ASSUME IInv, NEW r \in Calls,
           \/ Discover(r) \/ WebLoginSucceeds(r) \/ WebLoginFails(r) \/ Whoami(r)
           \/ LoginSetActive(r) \/ LogoutReturn(r)
           \/ ReadActive(r) \/ StatusGet(r) \/ UserGet(r) \/ SAGet(r)
           \/ BearerGet(r) \/ MintSucceeds(r) \/ MintFails(r) \/ SACache(r)
           \/ ListReturn(r) \/ PurgeList(r) \/ PurgeDelete(r) \/ PurgeReturn(r)
    PROVE  call'[r].pc \notin Watched
<1> DEFINE c == call[r]
<1>1. c \in CallStates /\ \A d : Become(r, d) => call'[r] = d
  BY SlotFacts
<1>2. CASE \/ Discover(r) \/ WebLoginFails(r) \/ Whoami(r) \/ LoginSetActive(r)
           \/ LogoutReturn(r) \/ StatusGet(r) \/ UserGet(r) \/ SAGet(r) \/ MintFails(r)
           \/ SACache(r) \/ ListReturn(r) \/ PurgeReturn(r)
  <2>1. call'[r].pc \in {"webLogin", "cacheToken", "bearerGet", "done"}
    BY <1>2, Landing DEF Discover, WebLoginFails, Whoami, LoginSetActive, LogoutReturn,
       StatusGet, UserGet, SAGet, MintFails, SACache, ListReturn, PurgeReturn
  <2>2. QED
    BY <2>1 DEF Watched
<1>3. CASE WebLoginSucceeds(r)
  <2>1. PICK e : Become(r, [c EXCEPT !.pc = "whoami", !.held = e])
    BY <1>3 DEF WebLoginSucceeds
  <2>2. call'[r].pc = "whoami"
    BY <1>1, <2>1 DEF CallStates
  <2>3. QED
    BY <2>2 DEF Watched
<1>4. CASE ReadActive(r)
  <2>1. FirstGet(c.sa, c.force) \in {"userGet", "bearerGet", "saGet"}
    BY DEF FirstGet
  <2>2. PICK a, pc : /\ Finish(r, NotServed(c.op)) \/ Become(r, [c EXCEPT !.api = a, !.pc = pc])
                     /\ pc \in {"statusGet", FirstGet(c.sa, c.force)}
    BY <1>4 DEF ReadActive
  <2>3. call'[r].pc \in {"done", pc}
    BY <1>1, <2>2, Landing DEF CallStates
  <2>4. QED
    BY <2>1, <2>2, <2>3 DEF Watched
<1>5. CASE BearerGet(r)
  <2>1. PICK e : Finish(r, "error") \/ Become(r, [c EXCEPT !.pc = "mint", !.held = e])
    BY <1>5 DEF BearerGet
  <2>2. call'[r].pc \in {"done", "mint"}
    BY <1>1, <2>1, Landing DEF CallStates
  <2>3. QED
    BY <2>2 DEF Watched
<1>6. CASE MintSucceeds(r)
  <2>1. PICK e : Become(r, [c EXCEPT !.pc = "saCache", !.held = e])
    BY <1>6 DEF MintSucceeds
  <2>2. call'[r].pc = "saCache"
    BY <1>1, <2>1 DEF CallStates
  <2>3. QED
    BY <2>2 DEF Watched
<1>7. CASE PurgeList(r)
  <2>1. Finish(r, "error") \/ Become(r, [c EXCEPT !.work = Listed(c.prof), !.pc = "purgeGet"])
    BY <1>7 DEF PurgeList
  <2>2. call'[r].pc \in {"done", "purgeGet"}
    BY <1>1, <2>1, Landing DEF CallStates
  <2>3. QED
    BY <2>2 DEF Watched
<1>8. CASE PurgeDelete(r)
  <2>1. Become(r, [c EXCEPT !.pc = "purgeGet", !.key = None])
    BY <1>8 DEF PurgeDelete
  <2>2. call'[r].pc = "purgeGet"
    BY <1>1, <2>1 DEF CallStates
  <2>3. QED
    BY <2>2 DEF Watched
<1>9. QED
  BY <1>2, <1>3, <1>4, <1>5, <1>6, <1>7, <1>8

LEMMA OwnStepQuiet ==
    ASSUME IInv, QuietInv, NEW r \in Calls, Request(r) \/ Proceed(r) \/ Abandon(r)
    PROVE  QuietCoherent(r)'
<1>1. CASE Request(r)
  BY <1>1, RequestQuiet
<1>2. CASE Proceed(r)
  BY <1>2, OtherStepsQuiet, UnwatchedQuiet, LoginCacheTokenQuiet, LogoutListQuiet,
     ClearAllDeleteQuiet, ClearClusterGetQuiet, ClearClusterDeleteQuiet, ListTokensQuiet,
     ListGetQuiet, PurgeGetQuiet DEF Proceed, QuietInv
<1>3. CASE Abandon(r)
  <2>1. call'[r] = Idle
    BY <1>3, SlotFacts DEF Abandon
  <2>2. QED
    BY <2>1, UnwatchedQuiet DEF Idle, Watched
<1>4. QED
  BY <1>1, <1>2, <1>3

LEMMA InitQuiet == Init => QuietInv
  BY DEF Init, Idle, QuietInv, QuietCoherent, PurgeQuiet, LoginQuiet, LogoutQuiet, ListQuiet

LEMMA NextQuiet == IInv /\ QuietInv /\ [Next]_vars => QuietInv'
<1> SUFFICES ASSUME IInv, QuietInv, [Next]_vars, NEW r \in Calls PROVE QuietCoherent(r)'
  BY DEF QuietInv
<1>1. ASSUME NEW q \in Calls, Request(q) \/ Proceed(q) \/ Abandon(q) PROVE QuietCoherent(r)'
  BY <1>1, StepsAreLocal, OthersKeepQuiet, OwnStepQuiet
<1>2. CASE Tick
  BY <1>2, TickKeepsQuiet
<1>3. CASE UNCHANGED vars
  <2>1. UNCHANGED <<store, call, now, disturbed, faulted>> /\ now \in Nat
    BY <1>3 DEF vars, IInv, TypeOK
  <2>2. QED
    BY <2>1, Unhindered DEF QuietInv, QuietCoherent
<1>4. QED
  BY <1>1, <1>2, <1>3 DEF Next

\* Whatever runs beside it, a call that no other call of its profile has
\* disturbed, and none of whose host calls failed, finds the store as its own
\* steps left it: the login its token, the logout nothing behind it but what it
\* has yet to visit, the listing what it has found, the purge the expired token
\* it read (cache.go:76-250, where no lock is held between two host calls).
THEOREM Undisturbed == Spec => []QuietInv
<1>1. IInv /\ QuietInv /\ [Next]_vars => QuietInv'
  BY NextQuiet
<1>2. QED
  BY <1>1, InitQuiet, Invariance, PTL DEF Spec

-----------------------------------------------------------------------------
(* What follows for a step that ends a call                                *)

\* Only a call itself ends it.
LEMMA EndedByItself ==
    ASSUME IInv, [Next]_vars, NEW r \in Calls, InProgress(r), call'[r] # call[r]
    PROVE  Local(r) /\ (Proceed(r) \/ Abandon(r))
<1>1. PICK q \in Calls : Request(q) \/ Proceed(q) \/ Abandon(q)
  BY DEF Next, Tick, vars
<1>2. Local(q)
  BY <1>1, StepsAreLocal
<1>3. q = r
  BY <1>2 DEF Local
<1>4. ~Request(r)
  <2>1. ASSUME NEW c PROVE ~Arrive(r, c)
    BY DEF Arrive
  <2>2. ASSUME NEW p, NEW h PROVE ~LoginStart(r, p, h) /\ ~LogoutStart(r, p, h)
    BY <2>1 DEF LoginStart, LogoutStart
  <2>3. ASSUME NEW p, NEW h PROVE ~StatusStart(r, p, h)
    BY <2>1 DEF StatusStart
  <2>4. ASSUME NEW p, NEW h, NEW s, NEW min, NEW force PROVE ~TokenStart(r, p, h, s, min, force)
    BY <2>1 DEF TokenStart
  <2>5. ASSUME NEW p PROVE ~ListStart(r, p) /\ ~PurgeStart(r, p)
    BY <2>1 DEF ListStart, PurgeStart
  <2>6. QED
    BY <2>2, <2>3, <2>4, <2>5 DEF Request
<1>5. QED
  BY <1>1, <1>2, <1>3, <1>4

\* The steps with which a call returns "ok".
LEMMA OkReturns ==
    ASSUME IInv, [Next]_vars, NEW r \in Calls, InProgress(r),
           call'[r].pc = "done", call'[r].out = "ok"
    PROVE  \/ LoginSetActive(r) \/ LogoutReturn(r) \/ ListReturn(r) \/ PurgeReturn(r)
           \/ LogoutList(r) /\ r \in faulted'
<1> DEFINE c == call[r]
<1>1. c \in CallStates /\ \A d : Become(r, d) => call'[r] = d
  BY SlotFacts
<1>2. Proceed(r)
  <2>1. ~Abandon(r)
    BY <1>1 DEF Abandon, Idle
  <2>2. QED
    BY <2>1, EndedByItself DEF InProgress
<1>3. \A out : \A e : Finish(r, out) \/ Serve(r, out, e) => out = "ok"
  <2>1. ASSUME NEW out, Finish(r, out) PROVE out = "ok"
    BY <1>1, <2>1 DEF Finish, Returned, Idle
  <2>2. ASSUME NEW out, NEW e, Serve(r, out, e) PROVE out = "ok"
    <3> DEFINE d == ServedSlot(c.op, c.prof, c.host, c.sa, c.api, out, e)
    <3>1. Become(r, d)
      BY <2>2 DEF Serve, ServedSlot
    <3>2. d.out = out
      BY DEF ServedSlot, Idle
    <3> HIDE DEF d
    <3>3. QED
      BY <1>1, <3>1, <3>2
  <2>3. QED
    BY <2>1, <2>2
<1>4. ~(Discover(r) \/ WebLoginFails(r) \/ Whoami(r) \/ StatusGet(r) \/ UserGet(r)
        \/ SAGet(r) \/ MintFails(r) \/ SACache(r) \/ LoginCacheToken(r))
  BY <1>3, Landing DEF Discover, WebLoginFails, Whoami, StatusGet, UserGet, SAGet,
     MintFails, SACache, LoginCacheToken
<1>5. ~(WebLoginSucceeds(r) \/ MintSucceeds(r) \/ BearerGet(r))
  <2>1. ASSUME NEW pc \in {"whoami", "saCache", "mint"}, NEW e,
               Become(r, [c EXCEPT !.pc = pc, !.held = e])
        PROVE  FALSE
    BY <1>1, <2>1 DEF CallStates
  <2>2. QED
    BY <1>3, <2>1 DEF WebLoginSucceeds, MintSucceeds, BearerGet
<1>6. ~ReadActive(r)
  <2>1. ASSUME NEW a, NEW pc \in {"statusGet", FirstGet(c.sa, c.force)},
               Become(r, [c EXCEPT !.api = a, !.pc = pc])
        PROVE  FALSE
    <3>1. FirstGet(c.sa, c.force) \in {"userGet", "bearerGet", "saGet"}
      BY DEF FirstGet
    <3>2. call'[r].pc = pc
      BY <1>1, <2>1 DEF CallStates
    <3>3. QED
      BY <3>1, <3>2
  <2>2. ~Finish(r, NotServed(c.op))
    BY <1>3 DEF NotServed
  <2>3. QED
    BY <2>1, <2>2 DEF ReadActive
<1>7. ~(ClearAllDelete(r) \/ ListGet(r) \/ ClearClusterDelete(r) \/ PurgeDelete(r))
  <2>1. \A w, s : /\ ~(c.pc # "done" /\ Become(r, [c EXCEPT !.work = w]))
                  /\ ~(c.pc # "done" /\ Become(r, [c EXCEPT !.work = w, !.shown = s]))
    BY <1>1 DEF CallStates
  <2>2. \A pc \in {"clusterGet", "purgeGet"} : ~Become(r, [c EXCEPT !.pc = pc, !.key = None])
    BY <1>1 DEF CallStates
  <2>3. QED
    BY <2>1, <2>2 DEF ClearAllDelete, ListGet, ClearClusterDelete, PurgeDelete
<1>8. ~(ClearClusterGet(r) \/ PurgeGet(r))
  <2>1. \A w : ~(c.pc # "done" /\ Become(r, [c EXCEPT !.work = w]))
    BY <1>1 DEF CallStates
  <2>2. \A w, k : \A pc \in {"clusterDelete", "purgeDelete"} :
          ~Become(r, [c EXCEPT !.work = w, !.key = k, !.pc = pc])
    BY <1>1 DEF CallStates
  <2>3. QED
    BY <2>1, <2>2 DEF ClearClusterGet, PurgeGet
<1>9. ~(ListTokens(r) \/ PurgeList(r)) /\ (LogoutList(r) => r \in faulted')
  <2>1. \A w : \A pc \in {"listGet", "purgeGet", "clearAll", "clusterGet"} :
          ~Become(r, [c EXCEPT !.work = w, !.pc = pc])
    BY <1>1 DEF CallStates
  <2>2. ~Finish(r, "error")
    BY <1>3
  <2>3. ~(ListTokens(r) \/ PurgeList(r))
    BY <2>1, <2>2 DEF ListTokens, PurgeList
  <2>4. LogoutList(r) => r \in faulted'
    BY <2>1, HostCallFacts DEF LogoutList
  <2>5. QED
    BY <2>3, <2>4
<1>10. QED
  BY <1>2, <1>4, <1>5, <1>6, <1>7, <1>8, <1>9 DEF Proceed

\* Which of them each kind of call returns with.
LEMMA ReturnOf ==
    ASSUME IInv, [Next]_vars, NEW r \in Calls, NEW op, Returns(r, op), call'[r].out = "ok"
    PROVE  /\ op = "login" => LoginSetActive(r)
           /\ op = "logout" => LogoutReturn(r) \/ r \in faulted'
           /\ op = "list" => ListReturn(r)
<1>1. \/ LoginSetActive(r) \/ LogoutReturn(r) \/ ListReturn(r) \/ PurgeReturn(r)
      \/ LogoutList(r) /\ r \in faulted'
  BY OkReturns DEF Returns
<1>2. RequestCoherent(call[r]) /\ call[r].op = op
  BY SlotFacts DEF CallCoherent, Returns
<1>3. LoginSetActive(r) => op = "login"
  BY <1>2 DEF LoginSetActive, RequestCoherent
<1>4. LogoutReturn(r) \/ LogoutList(r) => op = "logout"
  BY <1>2 DEF LogoutReturn, LogoutList, RequestCoherent
<1>5. ListReturn(r) => op = "list"
  BY <1>2 DEF ListReturn, RequestCoherent
<1>6. PurgeReturn(r) => op = "purge"
  BY <1>2 DEF PurgeReturn, RequestCoherent
<1>7. QED
  BY <1>1, <1>3, <1>4, <1>5, <1>6

-----------------------------------------------------------------------------
(* The promises                                                            *)

\* A purge that no other call of its profile disturbs deletes expired tokens
\* only, however long it waits between reading a token and deleting what its key
\* leads to (cachePurgeExpired, cache.go:223-250).
THEOREM PurgeKeepsLiveTokens == Spec => QuietPurgeKeepsLive
<1>1. ASSUME IInv, QuietInv, [Next]_vars, NEW r \in Calls, r \notin disturbed'
      PROVE  RemovesOnlyExpired(r)
  <2> DEFINE c == call[r]
  <2> SUFFICES ASSUME c.pc = "purgeDelete", call'[r] # c, NEW k \in Keys, Removed(k)
               PROVE  store[k].exp # UnknownExpiry /\ store[k].exp < now
    BY DEF RemovesOnlyExpired
  <2>1. Proceed(r) \/ Abandon(r)
    BY <1>1, EndedByItself DEF InProgress
  <2>2. ~Abandon(r)
    BY DEF Abandon, Removed
  <2>3. WriteOk(r, c.key, None) \/ WriteFails(r, c.key, None)
    <3>1. \/ PurgeDelete(r) \/ LoginCacheToken(r) \/ LoginSetActive(r) \/ SACache(r)
          \/ ClearAllDelete(r) \/ ClearClusterDelete(r)
      BY <1>1, <2>1, <2>2, StoreUntouched DEF Proceed, Removed
    <3>2. PurgeDelete(r)
      BY <3>1 DEF LoginCacheToken, LoginSetActive, SACache, ClearAllDelete, ClearClusterDelete
    <3>3. QED
      BY <3>2 DEF PurgeDelete
  <2>4. c.key \in Keys
    BY <1>1, SlotFacts, KeyShape DEF CallCoherent, WorkCoherent
  <2>5. k = c.key
    BY <1>1, <2>3, <2>4, RemovedByWrite
  <2>6. r \notin disturbed
    BY <1>1, <2>3, <2>4, HostCallFacts
  <2>7. IsEntry(store[k]) /\ isExpired(now, store[k].exp)
    BY <1>1, <2>5, <2>6 DEF QuietInv, QuietCoherent, PurgeQuiet
  <2>8. store[k].exp \in Nat
    BY <1>1, <2>7, EntryKey
  <2>9. now \in Nat
    BY <1>1 DEF IInv, TypeOK
  <2>10. QED
    BY <2>7, <2>8, <2>9 DEF isExpired
<1>2. IInv /\ QuietInv /\ [Next]_vars
        => [\A r \in Calls : r \notin disturbed' => RemovesOnlyExpired(r)]_vars
  BY <1>1
<1>3. QED
  BY <1>2, Invariance, Undisturbed, PTL DEF Spec, QuietPurgeKeepsLive

\* A login that no other call of its profile disturbs and none of whose host
\* calls fails has taken effect when it returns: its token is held and its
\* cluster is the active one, although the two are written one after the other
\* (auth_handler.go:149-157).
THEOREM LoginTakesEffect == Spec => QuietLoginTakesEffect
<1> DEFINE Effect(r) ==
      Returns(r, "login") /\ call'[r].out = "ok" /\ r \notin disturbed' \cup faulted'
        => LET c == call[r]
           IN  /\ store'[userTokenKey(c.prof, c.api)] = c.held
               /\ store'[activeClusterKey(c.prof)] = c.api
<1>1. ASSUME IInv, QuietInv, [Next]_vars, NEW r \in Calls
      PROVE  Effect(r)
  <2> DEFINE c == call[r]
             k == activeClusterKey(c.prof)
             u == userTokenKey(c.prof, c.api)
  <2> SUFFICES ASSUME Returns(r, "login"), call'[r].out = "ok", r \notin disturbed' \cup faulted'
               PROVE  store'[u] = c.held /\ store'[k] = c.api
    OBVIOUS
  <2>1. c.pc = "setActive" /\ (WriteOk(r, k, c.api) \/ WriteFails(r, k, c.api))
    BY <1>1, ReturnOf DEF LoginSetActive
  <2>2. c.prof \in Profiles /\ c.api \in Clusters
    BY <1>1, <2>1, SlotFacts DEF CallCoherent, RequestCoherent, TargetCoherent
  <2>3. k \in Keys /\ u \in Keys /\ k # u
    BY <2>2, KeyFacts DEF activeClusterKey, userTokenKey
  <2>4. store' = [store EXCEPT ![k] = c.api] /\ r \notin disturbed \cup faulted
    BY <2>1, <2>3, HostCallFacts
  <2>5. store[u] = c.held
    BY <1>1, <2>1, <2>4 DEF QuietInv, QuietCoherent, LoginQuiet
  <2>6. QED
    BY <1>1, <2>3, <2>4, <2>5 DEF IInv, TypeOK
<1>2. IInv /\ QuietInv /\ [Next]_vars => [\A r \in Calls : Effect(r)]_vars
  BY <1>1
<1>3. QED
  BY <1>2, Invariance, Undisturbed, PTL DEF Spec, QuietLoginTakesEffect

\* A logout that no other call of its profile disturbs and none of whose host
\* calls fails leaves nothing of what it was asked to clear: without a hostname
\* the profile's secrets, the marker included, with one the tokens of that
\* cluster (auth_handler.go:166-194, cache.go:138-183).
THEOREM LogoutClears == Spec => QuietLogoutClears
<1>1. ASSUME IInv, QuietInv, [Next]_vars, NEW r \in Calls,
             r \notin disturbed' \cup faulted', call'[r].out = "ok"
      PROVE  ClearsItsScope(r)
  <2> DEFINE c == call[r]
  <2> SUFFICES ASSUME Returns(r, "logout"), NEW k \in LogoutScope(c)
               PROVE  store'[k] = None
    BY DEF ClearsItsScope
  <2>1. LogoutReturn(r)
    BY <1>1, ReturnOf
  <2>2. /\ c.pc \in {"clearAll", "clusterGet"} /\ c.work = {}
        /\ UNCHANGED <<store, disturbed, faulted>>
    BY <2>1 DEF LogoutReturn
  <2>3. LogoutQuiet(c)
    BY <1>1, <2>2 DEF QuietInv, QuietCoherent
  <2>4. k \in KeysOf(c.prof) \ c.work
    BY <2>2 DEF LogoutScope, KeysOf
  <2>5. CASE c.pc = "clearAll"
    BY <2>2, <2>3, <2>4, <2>5 DEF LogoutQuiet
  <2>6. CASE c.pc = "clusterGet"
    <3>1. c.host # None
      BY <1>1, <2>6, SlotFacts DEF CallCoherent, RequestCoherent
    <3>2. k.kind # "active" /\ k.api = c.api
      BY <3>1 DEF LogoutScope
    <3>3. QED
      BY <2>2, <2>3, <2>4, <2>6, <3>2 DEF LogoutQuiet
  <2>7. QED
    BY <2>2, <2>5, <2>6
<1>2. IInv /\ QuietInv /\ [Next]_vars
        => [\A r \in Calls : r \notin disturbed' \cup faulted' /\ call'[r].out = "ok"
                               => ClearsItsScope(r)]_vars
  BY <1>1
<1>3. QED
  BY <1>2, Invariance, Undisturbed, PTL DEF Spec, QuietLogoutClears

\* A listing that no other call of its profile disturbs and none of whose host
\* calls fails shows every token held under its profile and nothing else, though
\* it reads the secrets one at a time (cache.go:185-221).
THEOREM ListingExact == Spec => QuietListingIsExact
<1> DEFINE Exact(r) ==
      Returns(r, "list") /\ call'[r].out = "ok" /\ r \notin disturbed' \cup faulted'
        => call[r].shown =
             { v \in { store[k] : k \in { l \in Keys : l.prof = call[r].prof } } : IsEntry(v) }
<1>1. ASSUME IInv, QuietInv, [Next]_vars, NEW r \in Calls
      PROVE  Exact(r)
  <2> DEFINE c == call[r]
  <2> SUFFICES ASSUME Returns(r, "list"), call'[r].out = "ok", r \notin disturbed' \cup faulted'
               PROVE  c.shown = EntriesAt(KeysOf(c.prof))
    BY DEF EntriesAt, KeysOf
  <2>1. ListReturn(r)
    BY <1>1, ReturnOf
  <2>2. c.pc = "listGet" /\ c.work = {} /\ UNCHANGED <<disturbed, faulted>>
    BY <2>1 DEF ListReturn
  <2>3. c.shown = EntriesAt(KeysOf(c.prof) \ c.work)
    BY <1>1, <2>2 DEF QuietInv, QuietCoherent, ListQuiet
  <2>4. KeysOf(c.prof) \ c.work = KeysOf(c.prof)
    BY <2>2
  <2>5. QED
    BY <2>3, <2>4
<1>2. IInv /\ QuietInv /\ [Next]_vars => [\A r \in Calls : Exact(r)]_vars
  BY <1>1
<1>3. QED
  BY <1>2, Invariance, Undisturbed, PTL DEF Spec, QuietListingIsExact
=============================================================================
