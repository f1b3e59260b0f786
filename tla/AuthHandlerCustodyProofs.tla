---------------------- MODULE AuthHandlerCustodyProofs ----------------------
(***************************************************************************)
(* AuthHandler implements TokenCustody for every value of the constants:   *)
(* each of its steps, seen through what is held, asked and answered, is    *)
(* one step of the custody of credentials, or none.                        *)
(***************************************************************************)
EXTENDS AuthHandlerProofs

USE DEF LoginSteps, AllSteps, ClusterSteps, ListSteps, PurgeSteps, UserSteps, SASteps, TargetKnown

-----------------------------------------------------------------------------
(* One slot at a time                                                      *)

\* What one slot contributes to Asked and to Answers.
AskedOf(c) ==
    IF c.pc \notin {"idle", "done"}
    THEN [op |-> c.op, prof |-> c.prof, sa |-> c.sa, reach |-> Reach(c)]
    ELSE None

AnswerOf(c) == IF Served(c) THEN Credential(c.held.tok) ELSE None

\* The call goes on with the request it had; it ends and serves nothing.
GoesOn(c, d) ==
    /\ d.op = c.op /\ d.prof = c.prof /\ d.host = c.host /\ d.sa = c.sa
    /\ d.pc \notin {"idle", "done"}

EndsUnserved(d) == d.pc \in {"idle", "done"} /\ ~Served(d)

LEMMA SlotsMapped ==
    ASSUME NEW r \in Calls
    PROVE  /\ Asked = [q \in Calls |-> AskedOf(call[q])]
           /\ Answers = [q \in Calls |-> AnswerOf(call[q])]
           /\ Asked[r] = AskedOf(call[r]) /\ Answers[r] = AnswerOf(call[r])
  BY DEF Asked, Answers, AskedOf, AnswerOf, InProgress, Credential

\* A step that changes one call changes what that slot asks and answers only.
LEMMA OneSlot ==
    ASSUME IInv, NEW r \in Calls, NEW c, Become(r, c)
    PROVE  /\ Asked' = [Asked EXCEPT ![r] = AskedOf(c)]
           /\ Answers' = [Answers EXCEPT ![r] = AnswerOf(c)]
           /\ Asked'[r] = AskedOf(c)
<1>1. call' = [call EXCEPT ![r] = c] /\ \A q \in Calls : call'[q] = IF q = r THEN c ELSE call[q]
  BY DEF Become, IInv, TypeOK
<1>2. Asked' = [q \in Calls |-> AskedOf(call'[q])]
  BY DEF Asked, AskedOf, InProgress, Reach, Selects
<1>3. Answers' = [q \in Calls |-> AnswerOf(call'[q])]
  BY DEF Answers, AnswerOf, Served, Credential
<1>4. QED
  BY <1>1, <1>2, <1>3, SlotsMapped

-----------------------------------------------------------------------------
(* What is held                                                            *)

CredentialAt(k) == [prof |-> k.prof, api |-> k.api, sa |-> k.sa]

TokenKeys == UserKeys \cup SAKeys

\* A credential is held under one key.
LEMMA OneKeyEach ==
    \A k \in TokenKeys, l \in TokenKeys : CredentialAt(k) = CredentialAt(l) => k = l
<1>1. None \notin ServiceAccounts
  BY NamesAssumption
<1>2. QED
  BY <1>1 DEF TokenKeys, CredentialAt, UserKeys, SAKeys, userTokenKey, saTokenKey

LEMMA HeldUnderKeys == Held = { CredentialAt(k) : k \in { l \in TokenKeys : store[l] # None } }
<1>1. TokenKeys = { l \in Keys : l.kind # "active" }
  BY KeyShape DEF TokenKeys, Keys
<1>2. QED
  BY <1>1 DEF Held, CredentialAt

\* What is held after one secret changed.
LEMMA HeldAfterWrite ==
    ASSUME IInv, NEW k \in Keys, NEW v, store' = [store EXCEPT ![k] = v]
    PROVE  /\ k \in ActiveKeys => Held' = Held
           /\ k \in TokenKeys /\ v = None => Held' = Held \ {CredentialAt(k)}
           /\ k \in TokenKeys /\ v # None => Held' = Held \cup {CredentialAt(k)}
<1>1. \A l \in Keys : store'[l] = IF l = k THEN v ELSE store[l]
  BY DEF IInv, TypeOK
<1>2. Held' = { CredentialAt(l) : l \in { m \in TokenKeys : store'[m] # None } }
  <2>1. TokenKeys = { l \in Keys : l.kind # "active" }
    BY KeyShape DEF TokenKeys, Keys
  <2>2. QED
    BY <2>1 DEF Held, CredentialAt
<1>3. TokenKeys \subseteq Keys
  BY DEF TokenKeys, Keys
<1>4. k \in ActiveKeys => k \notin TokenKeys
  BY KeyShape DEF TokenKeys
<1>5. CASE k \in ActiveKeys
  BY <1>1, <1>2, <1>3, <1>4, <1>5, HeldUnderKeys
<1>6. CASE k \in TokenKeys /\ v = None
  <2> HIDE DEF CredentialAt
  <2>1. ASSUME NEW x \in Held' PROVE x \in Held \ {CredentialAt(k)}
    <3>1. PICK l \in TokenKeys : store'[l] # None /\ x = CredentialAt(l)
      BY <1>2, <2>1
    <3>2. l # k /\ store[l] # None
      BY <1>1, <1>3, <1>6, <3>1
    <3>3. QED
      BY <1>6, <3>1, <3>2, OneKeyEach, HeldUnderKeys
  <2>2. ASSUME NEW x \in Held \ {CredentialAt(k)} PROVE x \in Held'
    <3>1. PICK l \in TokenKeys : store[l] # None /\ x = CredentialAt(l)
      BY <2>2, HeldUnderKeys
    <3>2. store'[l] # None
      BY <1>1, <1>3, <2>2, <3>1
    <3>3. QED
      BY <1>2, <3>1, <3>2
  <2>3. QED
    BY <1>4, <1>6, <2>1, <2>2
<1>7. CASE k \in TokenKeys /\ v # None
  <2> HIDE DEF CredentialAt
  <2>1. ASSUME NEW x \in Held' PROVE x \in Held \cup {CredentialAt(k)}
    <3>1. PICK l \in TokenKeys : store'[l] # None /\ x = CredentialAt(l)
      BY <1>2, <2>1
    <3>2. l = k \/ store[l] # None
      BY <1>1, <1>3, <3>1
    <3>3. QED
      BY <3>1, <3>2, HeldUnderKeys
  <2>2. ASSUME NEW x \in Held \cup {CredentialAt(k)} PROVE x \in Held'
    <3>1. PICK l \in TokenKeys : (store[l] # None \/ l = k) /\ x = CredentialAt(l)
      BY <1>7, <2>2, HeldUnderKeys
    <3>2. store'[l] # None
      BY <1>1, <1>3, <1>7, <3>1
    <3>3. QED
      BY <1>2, <3>1, <3>2
  <2>3. QED
    BY <1>4, <1>7, <2>1, <2>2
<1>8. QED
  BY <1>4, <1>5, <1>6, <1>7

LEMMA HeldKept == ASSUME UNCHANGED store PROVE Held' = Held
  BY DEF Held

-----------------------------------------------------------------------------
(* Kinds of steps                                                          *)

\* A request that is taken up.
LEMMA AcceptStep ==
    ASSUME IInv, NEW r \in Calls, NEW c, Arrive(r, c),
           c.op \in RPCs, c.prof \in Profiles, c.sa \in ServiceAccounts \cup {None},
           c.pc \notin {"idle", "done"}
    PROVE  Custody!Accept(r)
<1>1. Become(r, c) /\ ~InProgress(r) /\ UNCHANGED <<store, granted>>
  BY DEF Arrive
<1>2. Asked[r] = None
  BY <1>1 DEF Asked
<1>3. /\ Asked' = [Asked EXCEPT ![r] = AskedOf(c)] /\ Asked'[r] = AskedOf(c)
      /\ Answers' = [Answers EXCEPT ![r] = AnswerOf(c)]
  BY <1>1, OneSlot
<1>4. AskedOf(c) \in Custody!Requests
  <2>1. Reach(c) \in SUBSET Clusters
    BY DEF Reach
  <2> HIDE DEF Reach
  <2>2. QED
    BY <2>1 DEF AskedOf, Custody!Requests, RPCs
<1>5. AnswerOf(c) = None
  BY DEF AnswerOf, Served
<1>6. QED
  BY <1>1, <1>2, <1>3, <1>4, <1>5, HeldKept DEF Custody!Accept

\* A call that ends and serves nothing.
LEMMA DismissStep ==
    ASSUME IInv, NEW r \in Calls, NEW c, Become(r, c), EndsUnserved(c),
           UNCHANGED granted, Held' = Held
    PROVE  Custody!Dismiss(r)
<1>1. AskedOf(c) = None /\ AnswerOf(c) = None
  BY DEF EndsUnserved, AskedOf, AnswerOf
<1>2. QED
  BY <1>1, OneSlot DEF Custody!Dismiss

\* A call that goes on asks the same and has answered nothing.
LEMMA GoingOn ==
    ASSUME IInv, NEW r \in Calls, NEW c, Become(r, c), InProgress(r), GoesOn(call[r], c)
    PROVE  UNCHANGED <<Asked, Answers>>
<1>1. AskedOf(c) = AskedOf(call[r])
  BY DEF AskedOf, GoesOn, InProgress, Reach, Selects
<1>2. AnswerOf(c) = None /\ AnswerOf(call[r]) = None
  BY DEF AnswerOf, GoesOn, InProgress, Served
<1>3. Asked' = Asked /\ Answers' = Answers
  BY <1>1, <1>2, OneSlot, SlotsMapped
<1>4. QED
  BY <1>3

\* A call that moves on, or ends, with nothing served, written or granted.
LEMMA SilentStep ==
    ASSUME IInv, NEW r \in Calls, NEW c, Become(r, c), InProgress(r),
           UNCHANGED <<store, granted>>, GoesOn(call[r], c) \/ EndsUnserved(c)
    PROVE  [Custody!Next]_Custody!vars
<1>1. CASE GoesOn(call[r], c)
  BY <1>1, GoingOn, HeldKept DEF Custody!vars
<1>2. CASE EndsUnserved(c)
  BY <1>2, DismissStep, HeldKept DEF Custody!Next
<1>3. QED
  BY <1>1, <1>2

LEMMA ReturnsUnserved ==
    \A out \in {"ok", "error", "unauthenticated"} : EndsUnserved(Returned(out)) /\ EndsUnserved(Idle)
  BY DEF EndsUnserved, Returned, Idle, Served

\* The steps that end a call with nothing served.
LEMMA EndingStep ==
    ASSUME IInv, NEW r \in Calls,
           \/ WebLoginFails(r) \/ LogoutReturn(r) \/ MintFails(r)
           \/ ListReturn(r) \/ PurgeReturn(r) \/ Abandon(r)
    PROVE  [Custody!Next]_Custody!vars
<1>1. /\ InProgress(r) /\ UNCHANGED <<store, granted>>
      /\ \E c \in {Returned("ok"), Returned("error"), Idle} : Become(r, c)
  BY DEF WebLoginFails, LogoutReturn, MintFails, ListReturn, PurgeReturn, Abandon,
     InProgress, Finish
<1>2. QED
  BY <1>1, ReturnsUnserved, SilentStep

\* The steps of a login, a mint and a lookup that go on or give up.
LEMMA MovingStep ==
    ASSUME IInv, NEW r \in Calls,
           Discover(r) \/ Whoami(r) \/ BearerGet(r) \/ MintSucceeds(r)
    PROVE  [Custody!Next]_Custody!vars
<1> DEFINE c == call[r]
<1>1. c \in CallStates
  BY SlotFacts
<1>2. UNCHANGED <<store, granted>> /\ InProgress(r)
  BY StoreUntouched DEF Discover, Whoami, BearerGet, MintSucceeds, InProgress
<1>3. \A e : \A pc \in {"webLogin", "cacheToken", "mint", "saCache"} :
        /\ GoesOn(c, [c EXCEPT !.pc = pc])
        /\ GoesOn(c, [c EXCEPT !.pc = pc, !.held = e])
  BY <1>1 DEF GoesOn, CallStates
<1>4. \/ Become(r, Returned("error"))
      \/ \E e : \E pc \in {"webLogin", "cacheToken", "mint", "saCache"} :
           Become(r, [c EXCEPT !.pc = pc]) \/ Become(r, [c EXCEPT !.pc = pc, !.held = e])
  BY DEF Discover, Whoami, BearerGet, MintSucceeds, Goto, Finish
<1>5. QED
  BY <1>2, <1>3, <1>4, ReturnsUnserved, SilentStep

\* What the loops put into their slot.
WithWork(c, w)         == [c EXCEPT !.work = w]
WithWorkAt(c, w, pc)   == [c EXCEPT !.work = w, !.pc = pc]
WithKeyAt(c, w, k, pc) == [c EXCEPT !.work = w, !.key = k, !.pc = pc]
WithShown(c, w, x)     == [c EXCEPT !.work = w, !.shown = x]

LEMMA LoopGoesOn ==
    ASSUME NEW c \in CallStates, c.pc \notin {"idle", "done"},
           NEW w, NEW k, NEW x, NEW pc, pc \notin {"idle", "done"}
    PROVE  /\ GoesOn(c, WithWork(c, w)) /\ GoesOn(c, WithWorkAt(c, w, pc))
           /\ GoesOn(c, WithKeyAt(c, w, k, pc)) /\ GoesOn(c, WithShown(c, w, x))
  BY DEF GoesOn, CallStates, WithWork, WithWorkAt, WithKeyAt, WithShown

\* The steps of the loops that read.
LEMMA LoopStep ==
    ASSUME IInv, NEW r \in Calls,
           \/ LogoutList(r) \/ ClearClusterGet(r) \/ ListTokens(r) \/ ListGet(r)
           \/ PurgeList(r) \/ PurgeGet(r)
    PROVE  [Custody!Next]_Custody!vars
<1> DEFINE c == call[r]
<1>1. UNCHANGED <<store, granted>> /\ InProgress(r)
  BY StoreUntouched
  DEF LogoutList, ClearClusterGet, ListTokens, ListGet, PurgeList, PurgeGet, InProgress
<1>2. c \in CallStates /\ c.pc \notin {"idle", "done"}
  BY <1>1, SlotFacts DEF InProgress
<1> DEFINE Ends == \E out \in {"ok", "error"} : Become(r, Returned(out))
<1>3. Ends \/ \E d : GoesOn(c, d) /\ Become(r, d)
  <2>1. CASE LogoutList(r)
    <3>1. \/ Become(r, Returned("ok"))
          \/ Become(r, WithWorkAt(c, Listed(c.prof),
                                  IF c.pc = "listAll" THEN "clearAll" ELSE "clusterGet"))
      BY <2>1 DEF LogoutList, Finish, WithWorkAt
    <3>2. QED
      BY <1>2, <3>1, LoopGoesOn
  <2>2. CASE ListTokens(r) \/ PurgeList(r)
    <3>1. \/ Become(r, Returned("error"))
          \/ Become(r, WithWorkAt(c, Listed(c.prof), "listGet"))
          \/ Become(r, WithWorkAt(c, Listed(c.prof), "purgeGet"))
      BY <2>2 DEF ListTokens, PurgeList, Finish, WithWorkAt
    <3>2. QED
      BY <1>2, <3>1, LoopGoesOn
  <2>3. CASE ListGet(r)
    <3>1. \E k \in c.work :
            \/ Become(r, WithWork(c, c.work \ {k}))
            \/ Become(r, WithShown(c, c.work \ {k},
                    IF IsEntry(store[k]) THEN c.shown \cup {store[k]} ELSE c.shown))
      BY <2>3 DEF ListGet, WithWork, WithShown
    <3>2. QED
      BY <1>2, <3>1, LoopGoesOn
  <2>4. CASE ClearClusterGet(r) \/ PurgeGet(r)
    <3>1. \E k \in c.work :
            \/ Become(r, WithWork(c, c.work \ {k}))
            \/ Become(r, WithKeyAt(c, c.work \ {k}, k, "clusterDelete"))
            \/ Become(r, WithKeyAt(c, c.work \ {k}, k, "purgeDelete"))
      BY <2>4 DEF ClearClusterGet, PurgeGet, WithWork, WithKeyAt
    <3>2. QED
      BY <1>2, <3>1, LoopGoesOn
  <2>5. QED
    BY <2>1, <2>2, <2>3, <2>4
<1>4. QED
  BY <1>1, <1>3, ReturnsUnserved, SilentStep

\* A request is taken up, or refused at once.
LEMMA RequestMaps ==
    ASSUME IInv, NEW r \in Calls, Request(r)
    PROVE  [Custody!Next]_Custody!vars
<1> DEFINE Taken(c) ==
      /\ c.op \in RPCs /\ c.prof \in Profiles /\ c.sa \in ServiceAccounts \cup {None}
      /\ c.pc \notin {"idle", "done"}
<1>1. ASSUME NEW c, Arrive(r, c), Taken(c) \/ EndsUnserved(c)
      PROVE  [Custody!Next]_Custody!vars
  <2>1. CASE Taken(c)
    BY <1>1, <2>1, AcceptStep DEF Custody!Next
  <2>2. CASE EndsUnserved(c)
    BY <1>1, <2>2, DismissStep, HeldKept DEF Arrive, Custody!Next
  <2>3. QED
    BY <1>1, <2>1, <2>2
<1>2. \E c : Arrive(r, c) /\ (Taken(c) \/ EndsUnserved(c))
  <2>1. PICK p \in Profiles, h \in Hostnames \cup {None} :
          \/ LoginStart(r, p, h) \/ LogoutStart(r, p, h) \/ StatusStart(r, p, h)
          \/ \E s \in ServiceAccounts \cup {None}, min \in MinValids, force \in BOOLEAN :
               TokenStart(r, p, h, s, min, force)
          \/ ListStart(r, p) \/ PurgeStart(r, p)
    BY DEF Request
  <2>2. \A out \in {"error", "unauthenticated"} : EndsUnserved(Returned(out))
    BY ReturnsUnserved
  <2>3. \A a, g : \A op \in RPCs, pc \in Steps \ {"idle", "done"} :
          /\ Taken([NewCall(op, p, g) EXCEPT !.pc = pc])
          /\ Taken([NewCall(op, p, g) EXCEPT !.pc = pc, !.api = a])
    BY DEF NewCall, Idle
  <2>4. CASE LoginStart(r, p, h)
    BY <2>2, <2>3, <2>4 DEF LoginStart, RPCs, Steps
  <2>5. CASE LogoutStart(r, p, h)
    BY <2>2, <2>3, <2>5 DEF LogoutStart, RPCs, Steps
  <2>6. CASE StatusStart(r, p, h)
    BY <2>2, <2>3, <2>6 DEF StatusStart, RPCs, Steps
  <2>7. CASE \E s \in ServiceAccounts \cup {None}, min \in MinValids, force \in BOOLEAN :
               TokenStart(r, p, h, s, min, force)
    <3>1. PICK s \in ServiceAccounts \cup {None}, min \in MinValids, force \in BOOLEAN :
            TokenStart(r, p, h, s, min, force)
      BY <2>7
    <3> DEFINE new == [NewCall("token", p, h) EXCEPT !.sa = s, !.min = min, !.force = force]
    <3>2. \A a : \A pc \in {"readActive", "userGet", "saGet", "bearerGet"} :
            /\ Taken([new EXCEPT !.pc = pc])
            /\ Taken([new EXCEPT !.pc = pc, !.api = a])
      BY DEF NewCall, Idle, RPCs
    <3>3. FirstGet(s, force) \in {"userGet", "saGet", "bearerGet"}
      BY DEF FirstGet
    <3>4. \E c \in {Returned("error"), [new EXCEPT !.pc = "readActive"],
                   [new EXCEPT !.pc = FirstGet(s, force), !.api = RequestedServer(h)]} :
            Arrive(r, c)
      BY <3>1 DEF TokenStart
    <3> DEFINE found == [new EXCEPT !.pc = FirstGet(s, force), !.api = RequestedServer(h)]
               looks == [new EXCEPT !.pc = "readActive"]
    <3>5. Taken(found) /\ Taken(looks)
      BY <3>2, <3>3
    <3>6. Arrive(r, Returned("error")) \/ Arrive(r, looks) \/ Arrive(r, found)
      BY <3>4
    <3> HIDE DEF found, looks, Taken
    <3>7. QED
      BY <2>2, <3>5, <3>6
  <2>8. CASE ListStart(r, p) \/ PurgeStart(r, p)
    BY <2>3, <2>8 DEF ListStart, PurgeStart, RPCs, Steps
  <2>9. QED
    BY <2>1, <2>4, <2>5, <2>6, <2>7, <2>8
<1>3. QED
  BY <1>1, <1>2

-----------------------------------------------------------------------------
(* Grants, filings and removals                                            *)

\* What a call in progress has asked for.
LEMMA AskedFacts ==
    ASSUME IInv, NEW r \in Calls, InProgress(r), call[r].op \in RPCs
    PROVE  /\ Asked[r].op = call[r].op /\ Asked[r].prof = call[r].prof
           /\ Asked[r].sa = call[r].sa /\ Asked[r].reach = Reach(call[r])
           /\ Asked[r] \in Custody!Requests
           /\ call[r].prof \in Profiles
<1>1. Asked[r] = AskedOf(call[r])
  BY SlotsMapped
<1>2. call[r].prof \in Profiles /\ call[r].sa \in ServiceAccounts \cup {None}
  BY SlotFacts DEF InProgress, CallCoherent, RequestCoherent, CallStates
<1>3. Reach(call[r]) \in SUBSET Clusters
  BY DEF Reach
<1> HIDE DEF Reach
<1>4. QED
  BY <1>1, <1>2, <1>3 DEF AskedOf, InProgress, Custody!Requests, RPCs

\* A cluster the call was led to is one its request reaches.
LEMMA WithinReach ==
    ASSUME NEW c, NEW a \in Clusters, c.op \in {"login", "status", "token"},
           RequestedServer(c.host) \in {None, a}
    PROVE  a \in Reach(c)
  BY DEF Reach, Selects, RequestedServer

LEMMA GrantMaps ==
    ASSUME IInv, NEW r \in Calls, WebLoginSucceeds(r)
    PROVE  Custody!Grant(r)
<1> DEFINE c == call[r]
<1>1. c.pc = "webLogin" /\ UNCHANGED store /\ granted' = granted \cup {<<c.prof, c.api>>}
  BY DEF WebLoginSucceeds
<1>2. c \in CallStates /\ CallCoherent(c)
  BY SlotFacts
<1>3. c.op = "login" /\ c.api \in Clusters /\ RequestedServer(c.host) \in {None, c.api}
  BY <1>1, <1>2 DEF CallCoherent, RequestCoherent, TargetCoherent
<1>4. InProgress(r) /\ c.op \in RPCs
  BY <1>1, <1>3 DEF InProgress, RPCs
<1>5. \E e : Become(r, [c EXCEPT !.pc = "whoami", !.held = e])
  BY DEF WebLoginSucceeds
<1>6. \A e : GoesOn(c, [c EXCEPT !.pc = "whoami", !.held = e])
  BY <1>2 DEF GoesOn, CallStates
<1>7. UNCHANGED <<Asked, Answers>>
  BY <1>4, <1>5, <1>6, GoingOn
<1>8. c.api \in Reach(c)
  BY <1>3, WithinReach
<1>9. Asked[r] \in Custody!Requests /\ Asked[r].op = "login" /\ Asked[r].prof = c.prof
      /\ Asked[r].reach = Reach(c)
  BY <1>3, <1>4, AskedFacts
<1>10. QED
  BY <1>1, <1>7, <1>8, <1>9, HeldKept DEF Custody!Grant, Custody!Working

\* A write that is made or not made.
LEMMA WriteCases ==
    ASSUME NEW r, NEW k, NEW v, WriteOk(r, k, v) \/ WriteFails(r, k, v)
    PROVE  UNCHANGED store \/ store' = [store EXCEPT ![k] = v]
  BY DEF WriteOk, WriteFails, Write

\* The login's filing of the user's token.
LEMMA KeepMaps ==
    ASSUME IInv, NEW r \in Calls, LoginCacheToken(r)
    PROVE  [Custody!Next]_Custody!vars
<1> DEFINE c == call[r]
           k == userTokenKey(c.prof, c.api)
<1>1. /\ c.pc = "cacheToken" /\ UNCHANGED granted
      /\ WriteOk(r, k, c.held) \/ WriteFails(r, k, c.held)
      /\ Become(r, [c EXCEPT !.pc = "setActive"])
  BY DEF LoginCacheToken, Goto
<1>2. c \in CallStates /\ CallCoherent(c)
  BY SlotFacts
<1>3. /\ c.op = "login" /\ c.prof \in Profiles
      /\ c.api \in Clusters /\ RequestedServer(c.host) \in {None, c.api}
      /\ c.held \in Entries /\ <<c.prof, c.api>> \in granted
  BY <1>1, <1>2 DEF CallCoherent, RequestCoherent, TargetCoherent, HeldCoherent
<1>4. InProgress(r) /\ c.op \in RPCs
  BY <1>1, <1>3 DEF InProgress, RPCs
<1>5. UNCHANGED <<Asked, Answers>>
  <2>1. GoesOn(c, [c EXCEPT !.pc = "setActive"])
    BY <1>2 DEF GoesOn, CallStates
  <2>2. QED
    BY <1>1, <1>4, <2>1, GoingOn
<1>6. CASE UNCHANGED store
  BY <1>1, <1>5, <1>6, HeldKept DEF Custody!vars
<1>7. CASE store' = [store EXCEPT ![k] = c.held]
  <2>1. k \in Keys /\ k \in TokenKeys /\ c.held # None
    BY <1>3, KeyFacts, EntriesAssumption DEF TokenKeys
  <2>2. Held' = Held \cup {CredentialAt(k)}
    BY <1>7, <2>1, HeldAfterWrite
  <2>3. CredentialAt(k) = [prof |-> c.prof, api |-> c.api, sa |-> None]
    BY DEF CredentialAt, userTokenKey
  <2>4. /\ Asked[r] \in Custody!Requests /\ Asked[r].op = "login"
        /\ Asked[r].prof = c.prof /\ Asked[r].reach = Reach(c)
    BY <1>3, <1>4, AskedFacts
  <2>5. c.api \in Reach(c)
    BY <1>3, WithinReach
  <2>6. CredentialAt(k) \in Custody!Reached(Asked[r])
    BY <2>3, <2>4, <2>5 DEF Custody!Reached
  <2> HIDE DEF k, c
  <2>7. Custody!Keep(r)
    BY <1>1, <1>3, <1>5, <2>2, <2>3, <2>4, <2>6 DEF Custody!Keep, Custody!Working
  <2>8. QED
    BY <2>7 DEF Custody!Next
<1>8. QED
  BY <1>1, <1>6, <1>7, WriteCases

\* The marker is no credential: recording it ends the login and no more.
LEMMA SetActiveMaps ==
    ASSUME IInv, NEW r \in Calls, LoginSetActive(r)
    PROVE  [Custody!Next]_Custody!vars
<1> DEFINE c == call[r]
           k == activeClusterKey(c.prof)
<1>1. /\ c.pc = "setActive" /\ UNCHANGED granted
      /\ WriteOk(r, k, c.api) \/ WriteFails(r, k, c.api)
      /\ Become(r, Returned("ok"))
  BY DEF LoginSetActive, Finish
<1>2. k \in Keys /\ k \in ActiveKeys
  BY <1>1, SlotFacts, KeyFacts DEF CallCoherent, RequestCoherent, ActiveKeys
<1>3. Held' = Held
  BY <1>1, <1>2, WriteCases, HeldAfterWrite, HeldKept
<1>4. QED
  BY <1>1, <1>3, ReturnsUnserved, DismissStep DEF Custody!Next

\* A delete, made or not, by a call whose request reaches what the key holds.
LEMMA ForgetMaps ==
    ASSUME IInv, NEW r \in Calls, InProgress(r), call[r].op \in {"logout", "purge"},
           NEW k \in Keys, k.prof = call[r].prof,
           k \in TokenKeys => k.api \in Reach(call[r]),
           WriteOk(r, k, None) \/ WriteFails(r, k, None),
           NEW d, Become(r, d), GoesOn(call[r], d), UNCHANGED granted
    PROVE  [Custody!Next]_Custody!vars
<1>1. UNCHANGED <<Asked, Answers>>
  BY GoingOn
<1>2. CASE UNCHANGED store
  BY <1>1, <1>2, HeldKept DEF Custody!vars
<1>3. CASE store' = [store EXCEPT ![k] = None] /\ k \in ActiveKeys
  BY <1>1, <1>3, HeldAfterWrite DEF Custody!vars
<1>4. CASE store' = [store EXCEPT ![k] = None] /\ k \in TokenKeys
  <2>1. Held' = Held \ {CredentialAt(k)}
    BY <1>4, HeldAfterWrite
  <2>2. /\ Asked[r] \in Custody!Requests /\ Asked[r].op \in {"logout", "purge"}
        /\ Asked[r].prof = call[r].prof /\ Asked[r].reach = Reach(call[r])
    BY AskedFacts DEF RPCs
  <2>3. k.sa \in ServiceAccounts \cup {None}
    BY <1>4 DEF TokenKeys, UserKeys, SAKeys, userTokenKey, saTokenKey
  <2>4. CredentialAt(k) \in Custody!Reached(Asked[r])
    BY <1>4, <2>2, <2>3 DEF Custody!Reached, CredentialAt
  <2>5. Custody!Forget(r)
    BY <1>1, <2>1, <2>2, <2>4 DEF Custody!Forget, Custody!Working
  <2>6. QED
    BY <2>5 DEF Custody!Next
<1>5. QED
  BY <1>2, <1>3, <1>4, WriteCases DEF TokenKeys, Keys

LEMMA DeleteMaps ==
    ASSUME IInv, NEW r \in Calls,
           ClearAllDelete(r) \/ ClearClusterDelete(r) \/ PurgeDelete(r)
    PROVE  [Custody!Next]_Custody!vars
<1> DEFINE c == call[r]
<1>1. c \in CallStates /\ CallCoherent(c)
  BY SlotFacts
<1>2. UNCHANGED granted /\ InProgress(r)
  BY DEF ClearAllDelete, ClearClusterDelete, PurgeDelete, InProgress
<1>3. CASE ClearAllDelete(r)
  <2>1. PICK k \in c.work :
          /\ WriteOk(r, k, None) \/ WriteFails(r, k, None)
          /\ Become(r, WithWork(c, c.work \ {k}))
    BY <1>3 DEF ClearAllDelete, WithWork
  <2>2. k \in Keys /\ k.prof = c.prof /\ c.op = "logout" /\ c.host = None
    BY <1>1, <1>3, <2>1
    DEF ClearAllDelete, CallStates, CallCoherent, RequestCoherent, WorkCoherent
  <2>3. k \in TokenKeys => k.api \in Reach(c)
    BY <2>2, KeyShape DEF Reach, TokenKeys
  <2>4. GoesOn(c, WithWork(c, c.work \ {k}))
    BY <1>1, <1>2, LoopGoesOn DEF InProgress
  <2>5. QED
    BY <1>2, <2>1, <2>2, <2>3, <2>4, ForgetMaps
<1> DEFINE At(pc) == [c EXCEPT !.pc = pc, !.key = None]
<1>4. \A pc \in {"clusterGet", "purgeGet"} : GoesOn(c, At(pc))
  BY <1>1 DEF GoesOn, CallStates
<1>5. CASE ClearClusterDelete(r)
  <2>1. /\ c.pc = "clusterDelete" /\ Become(r, At("clusterGet"))
        /\ WriteOk(r, c.key, None) \/ WriteFails(r, c.key, None)
    BY <1>5 DEF ClearClusterDelete
  <2>2. /\ c.key \in TokenKeys /\ c.key.prof = c.prof /\ c.key.api = c.api
        /\ c.op = "logout" /\ c.host # None /\ Resolved[c.host] = c.api
    BY <1>1, <2>1 DEF CallCoherent, RequestCoherent, WorkCoherent, TokenKeys
  <2>3. c.key \in Keys /\ c.key.api \in Reach(c)
    BY <2>2, KeyShape DEF Reach, TokenKeys
  <2> HIDE DEF At
  <2>4. QED
    BY <1>2, <1>4, <2>1, <2>2, <2>3, ForgetMaps
<1>6. CASE PurgeDelete(r)
  <2>1. /\ c.pc = "purgeDelete" /\ Become(r, At("purgeGet"))
        /\ WriteOk(r, c.key, None) \/ WriteFails(r, c.key, None)
    BY <1>6 DEF PurgeDelete
  <2>2. c.key \in TokenKeys /\ c.key.prof = c.prof /\ c.op = "purge"
    BY <1>1, <2>1 DEF CallCoherent, RequestCoherent, WorkCoherent, TokenKeys
  <2>3. c.key \in Keys /\ c.key.api \in Reach(c)
    BY <2>2, KeyShape DEF Reach, TokenKeys
  <2> HIDE DEF At
  <2>4. QED
    BY <1>2, <1>4, <2>1, <2>2, <2>3, ForgetMaps
<1>7. QED
  BY <1>3, <1>5, <1>6

-----------------------------------------------------------------------------
(* Answers                                                                 *)

CredentialOf(c) == [prof |-> c.prof, api |-> c.api, sa |-> c.sa]

\* Serving a token: a user's own is held, a service account's may be filed.
LEMMA AnswerMaps ==
    ASSUME IInv, NEW r \in Calls, InProgress(r), call[r].op \in {"status", "token"},
           NEW out \in {"token", "authenticated"}, NEW e, Serve(r, out, e),
           call[r].api \in Clusters, RequestedServer(call[r].host) \in {None, call[r].api},
           e.tok = [iss |-> call[r].api, sub |-> call[r].sa, prof |-> call[r].prof],
           <<call[r].prof, call[r].api>> \in granted, UNCHANGED granted,
           call[r].sa = None => CredentialOf(call[r]) \in Held /\ Held' = Held,
           Held' \in {Held, Held \cup {CredentialOf(call[r])}}
    PROVE  Custody!Answer(r)
<1> DEFINE c == call[r]
           d == [Idle EXCEPT !.op = c.op, !.prof = c.prof, !.host = c.host,
                             !.sa = c.sa, !.api = c.api, !.pc = "done",
                             !.out = out, !.held = e]
<1>1. Become(r, d)
  BY DEF Serve
<1>2. d.pc = "done" /\ d.out = out /\ d.held = e
  BY DEF Idle
<1> HIDE DEF d
<1>3. Credential(e.tok) = CredentialOf(c)
  BY DEF Credential, CredentialOf
<1>4. AskedOf(d) = None /\ AnswerOf(d) = CredentialOf(c)
  BY <1>2, <1>3 DEF AskedOf, AnswerOf, Served
<1>5. /\ Asked' = [Asked EXCEPT ![r] = None]
      /\ Answers' = [Answers EXCEPT ![r] = CredentialOf(c)]
  BY <1>1, <1>4, OneSlot
<1>6. /\ Asked[r] \in Custody!Requests /\ Asked[r].op = c.op /\ Asked[r].sa = c.sa
      /\ Asked[r].prof = c.prof /\ Asked[r].reach = Reach(c)
  BY AskedFacts DEF RPCs
<1>7. c.api \in Reach(c)
  BY WithinReach
<1>8. c.sa \in ServiceAccounts \cup {None}
  BY SlotFacts DEF CallStates
<1>9. /\ CredentialOf(c) \in Custody!Reached(Asked[r])
      /\ CredentialOf(c).sa = c.sa /\ CredentialOf(c).prof = c.prof
      /\ CredentialOf(c).api = c.api
  BY <1>6, <1>7, <1>8 DEF Custody!Reached, CredentialOf
<1>10. Held' \in IF CredentialOf(c).sa = None THEN {Held}
                 ELSE {Held, Held \cup {CredentialOf(c)}}
  BY <1>9
<1> HIDE DEF c
<1>11. QED
  BY <1>5, <1>6, <1>9, <1>10 DEF Custody!Answer, Custody!Working, c

LEMMA LookupMaps ==
    ASSUME IInv, NEW r \in Calls, StatusGet(r) \/ UserGet(r)
    PROVE  [Custody!Next]_Custody!vars
<1> DEFINE c == call[r]
           k == userTokenKey(c.prof, c.api)
<1>1. /\ c.pc \in {"statusGet", "userGet"}
      /\ UNCHANGED <<store, granted>> /\ InProgress(r)
      /\ \/ \E out \in {"error", "unauthenticated"} : Become(r, Returned(out))
         \/ /\ IsEntry(store[k])
            /\ \E out \in {"token", "authenticated"} : Serve(r, out, store[k])
  BY StoreUntouched DEF StatusGet, UserGet, Finish, InProgress
<1>2. /\ c.prof \in Profiles /\ c.api \in Clusters /\ c.sa = None
      /\ RequestedServer(c.host) \in {None, c.api} /\ c.op \in {"status", "token"}
  BY <1>1, LookupFacts DEF CallCoherent, RequestCoherent
<1>3. CASE \E out \in {"error", "unauthenticated"} : Become(r, Returned(out))
  BY <1>1, <1>3, ReturnsUnserved, SilentStep
<1>4. CASE IsEntry(store[k]) /\ \E out \in {"token", "authenticated"} : Serve(r, out, store[k])
  <2>1. /\ store[k].tok = [iss |-> c.api, sub |-> c.sa, prof |-> c.prof]
        /\ <<c.prof, c.api>> \in granted
    BY <1>2, <1>4, FoundUserToken
  <2>2. k \in TokenKeys /\ store[k] # None
    BY <1>2, <1>4, KeyFacts DEF TokenKeys, IsEntry
  <2>3. CredentialAt(k) = CredentialOf(c)
    BY <1>2 DEF CredentialAt, CredentialOf, userTokenKey
  <2>4. CredentialOf(c) \in Held /\ Held' = Held
    BY <1>1, <2>2, <2>3, HeldUnderKeys, HeldKept
  <2> HIDE DEF k
  <2>5. QED
    BY <1>1, <1>2, <1>4, <2>1, <2>4, AnswerMaps DEF Custody!Next
<1>5. QED
  BY <1>1, <1>3, <1>4

LEMMA SAGetMaps ==
    ASSUME IInv, NEW r \in Calls, SAGet(r)
    PROVE  [Custody!Next]_Custody!vars
<1> DEFINE c == call[r]
           k == saTokenKey(c.prof, c.api, c.sa)
           d == [c EXCEPT !.pc = "bearerGet"]
<1>1. /\ c.pc = "saGet" /\ UNCHANGED <<store, granted>> /\ InProgress(r)
      /\ Become(r, d) \/ (IsEntry(store[k]) /\ Serve(r, "token", store[k]))
  BY StoreUntouched DEF SAGet, Goto, InProgress
<1>2. /\ c.prof \in Profiles /\ c.api \in Clusters /\ c.sa \in ServiceAccounts
      /\ RequestedServer(c.host) \in {None, c.api} /\ c.op = "token"
  BY <1>1, LookupFacts
<1>3. CASE Become(r, d)
  <2>1. GoesOn(c, d)
    BY SlotFacts DEF GoesOn, CallStates
  <2>2. QED
    BY <1>1, <1>3, <2>1, SilentStep
<1>4. CASE IsEntry(store[k]) /\ Serve(r, "token", store[k])
  <2>1. /\ store[k].tok = [iss |-> c.api, sub |-> c.sa, prof |-> c.prof]
        /\ <<c.prof, c.api>> \in granted
    BY <1>2, <1>4, FoundSAToken
  <2>2. c.sa # None /\ Held' = Held
    BY <1>1, <1>2, HeldKept, NamesAssumption
  <2> HIDE DEF k
  <2>3. QED
    BY <1>1, <1>2, <1>4, <2>1, <2>2, AnswerMaps DEF Custody!Next
<1>5. QED
  BY <1>1, <1>3, <1>4

LEMMA SACacheMaps ==
    ASSUME IInv, NEW r \in Calls, SACache(r)
    PROVE  [Custody!Next]_Custody!vars
<1> DEFINE c == call[r]
           k == saTokenKey(c.prof, c.api, c.sa)
<1>1. /\ c.pc = "saCache" /\ UNCHANGED granted /\ InProgress(r)
      /\ WriteOk(r, k, c.held) \/ WriteFails(r, k, c.held)
      /\ Serve(r, "token", c.held)
  BY DEF SACache, InProgress
<1>2. /\ c.prof \in Profiles /\ c.api \in Clusters /\ c.sa \in ServiceAccounts
      /\ RequestedServer(c.host) \in {None, c.api} /\ c.op = "token" /\ CallCoherent(c)
  BY <1>1, LookupFacts
<1>3. /\ c.held = SAEntry(c.prof, c.api, c.sa, c.held.exp) /\ c.held \in Entries
      /\ <<c.prof, c.api>> \in granted
  BY <1>1, <1>2 DEF CallCoherent, HeldCoherent
<1>4. c.held.tok = [iss |-> c.api, sub |-> c.sa, prof |-> c.prof]
  BY <1>3 DEF SAEntry
<1>5. c.sa # None /\ c.held # None
  BY <1>2, <1>3, NamesAssumption, EntriesAssumption
<1>6. Held' \in {Held, Held \cup {CredentialOf(c)}}
  <2>1. k \in Keys /\ k \in TokenKeys
    BY <1>2, KeyFacts DEF TokenKeys
  <2>2. CredentialAt(k) = CredentialOf(c)
    BY DEF CredentialAt, CredentialOf, saTokenKey
  <2> HIDE DEF k
  <2>3. QED
    BY <1>1, <1>5, <2>1, <2>2, WriteCases, HeldAfterWrite, HeldKept
<1> HIDE DEF k
<1>7. QED
  BY <1>1, <1>2, <1>3, <1>4, <1>5, <1>6, AnswerMaps DEF Custody!Next

LEMMA ReadActiveMaps ==
    ASSUME IInv, NEW r \in Calls, ReadActive(r)
    PROVE  [Custody!Next]_Custody!vars
<1> DEFINE c == call[r]
           v == store[activeClusterKey(c.prof)]
           pc == IF c.op = "status" THEN "statusGet" ELSE FirstGet(c.sa, c.force)
           d == [c EXCEPT !.api = v, !.pc = pc]
<1>1. /\ UNCHANGED <<store, granted>> /\ InProgress(r)
      /\ Become(r, Returned(NotServed(c.op))) \/ Become(r, d)
  BY StoreUntouched DEF ReadActive, InProgress, Finish
<1>2. c \in CallStates
  BY SlotFacts
<1>3. CASE Become(r, Returned(NotServed(c.op)))
  <2>1. EndsUnserved(Returned(NotServed(c.op)))
    BY ReturnsUnserved DEF NotServed
  <2>2. QED
    BY <1>1, <1>3, <2>1, SilentStep
<1>4. CASE Become(r, d)
  <2>1. pc \notin {"idle", "done"}
    BY <1>2 DEF FirstGet, CallStates
  <2> HIDE DEF pc, v
  <2>2. GoesOn(c, d)
    BY <1>2, <2>1 DEF GoesOn, CallStates
  <2>3. QED
    BY <1>1, <1>4, <2>2, SilentStep
<1>5. QED
  BY <1>1, <1>3, <1>4

-----------------------------------------------------------------------------
(* The whole                                                               *)

LEMMA InitMaps == Init => Custody!Init
<1> SUFFICES ASSUME Init PROVE Custody!Init
  OBVIOUS
<1>1. Held = {} /\ granted = {}
  BY DEF Init, Held
<1>2. \A r \in Calls : AskedOf(call[r]) = None /\ AnswerOf(call[r]) = None
  BY DEF Init, Idle, AskedOf, AnswerOf, Served
<1>3. Asked = [r \in Calls |-> None] /\ Answers = [r \in Calls |-> None]
  BY <1>2 DEF Asked, Answers, AskedOf, AnswerOf, InProgress, Credential
<1>4. QED
  BY <1>1, <1>3 DEF Custody!Init

LEMMA NextMaps == IInv /\ [Next]_vars => [Custody!Next]_Custody!vars
<1> SUFFICES ASSUME IInv, [Next]_vars PROVE [Custody!Next]_Custody!vars
  OBVIOUS
<1>1. ASSUME UNCHANGED <<store, call, granted>> PROVE [Custody!Next]_Custody!vars
  BY <1>1, HeldKept
  DEF Custody!vars, Asked, Answers, InProgress, Reach, Selects, Served, Credential
<1>2. ASSUME NEW r \in Calls, Request(r) \/ Proceed(r) \/ Abandon(r)
      PROVE  [Custody!Next]_Custody!vars
  <2>1. CASE Request(r)
    BY <2>1, RequestMaps
  <2>2. CASE Abandon(r)
    BY <2>2, EndingStep
  <2>3. CASE WebLoginSucceeds(r)
    BY <2>3, GrantMaps DEF Custody!Next
  <2>4. CASE Proceed(r) /\ ~WebLoginSucceeds(r)
    BY <2>4, EndingStep, MovingStep, LoopStep, KeepMaps, SetActiveMaps, DeleteMaps,
       LookupMaps, SAGetMaps, SACacheMaps, ReadActiveMaps DEF Proceed
  <2>5. QED
    BY <1>2, <2>1, <2>2, <2>3, <2>4
<1>3. CASE Tick \/ UNCHANGED vars
  BY <1>1, <1>3 DEF Tick, vars
<1>4. QED
  BY <1>2, <1>3 DEF Next

\* The auth handler implements the custody of credentials: whatever calls
\* interleave, fail or are cut short, a credential comes into custody only by a
\* login of its profile at its cluster, or minted for a request for it, leaves
\* only by a logout or a purge that reaches it, and is handed out only to a
\* request that reaches it and names it (cache.go:47-73, auth_handler.go:91-348).
THEOREM CustodyImplemented == Spec => ImplementsCustody
<1>1. Init => Custody!Init
  BY InitMaps
<1>2. IInv /\ [Next]_vars => [Custody!Next]_Custody!vars
  BY NextMaps
<1>3. QED
  BY <1>1, <1>2, Invariance, PTL DEF Spec, ImplementsCustody, Custody!Spec
=============================================================================
