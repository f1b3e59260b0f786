------------------------- MODULE AuthHandlerProofs -------------------------
(***************************************************************************)
(* IInv is an invariant of AuthHandler for every set of calls, profiles,   *)
(* clusters, service accounts and hostnames, every resolution of the       *)
(* hostnames and every lifetime; the safety properties follow from it.     *)
(***************************************************************************)
EXTENDS AuthHandlerInduction, TLAPS

-----------------------------------------------------------------------------
(* Keys                                                                    *)

\* The key functions lead to keys, each of its kind.
LEMMA KeyFacts ==
    /\ \A p \in Profiles, a \in Clusters :
         /\ userTokenKey(p, a) \in Keys /\ userTokenKey(p, a) \in UserKeys
    /\ \A p \in Profiles, a \in Clusters, s \in ServiceAccounts :
         saTokenKey(p, a, s) \in Keys /\ saTokenKey(p, a, s) \in SAKeys
    /\ \A p \in Profiles : activeClusterKey(p) \in Keys
  BY DEF Keys, UserKeys, SAKeys, ActiveKeys

\* What the keys of each kind look like.
LEMMA KeyShape ==
    /\ \A k \in UserKeys \cup SAKeys :
         k \in Keys /\ k.kind # "active" /\ k.prof \in Profiles /\ k.api \in Clusters
    /\ \A k \in ActiveKeys : k.kind = "active" /\ k.api = None
  BY DEF Keys, UserKeys, SAKeys, ActiveKeys, userTokenKey, saTokenKey, activeClusterKey

\* The sets of steps are expanded everywhere.
USE DEF LoginSteps, AllSteps, ClusterSteps, ListSteps, PurgeSteps, UserSteps, SASteps, TargetKnown

-----------------------------------------------------------------------------
(* Parts every step is made of                                             *)

StoreType == store \in [Keys -> Entries \cup Clusters \cup {None}]

\* A step that changes the slot of one call, to a state coherent with what is
\* granted then, and keeps the store coherent, preserves the invariant.
LEMMA StepKeepsIInv ==
    ASSUME IInv, NEW r \in Calls, NEW c \in CallStates, Become(r, c),
           CallCoherent(call[r])',
           StoreType', StoreCoherent',
           granted \subseteq granted', granted' \subseteq Profiles \X Clusters,
           UNCHANGED now, disturbed' \subseteq Calls, faulted' \subseteq Calls
    PROVE  IInv'
<1>1. call' \in [Calls -> CallStates]
  BY DEF IInv, TypeOK, Become
<1>2. TypeOK'
  BY <1>1 DEF IInv, TypeOK, StoreType
<1>3. ASSUME NEW q \in Calls PROVE CallCoherent(call[q])'
  <2>1. CASE q = r
    BY <2>1
  <2>2. CASE q # r
    <3>1. call'[q] = call[q]
      BY <2>2 DEF Become, IInv, TypeOK
    <3>2. CallCoherent(call[q])
      BY DEF IInv
    <3>3. RequestCoherent(call[q])' /\ TargetCoherent(call[q])' /\ WorkCoherent(call[q])'
      BY <3>1, <3>2 DEF CallCoherent, RequestCoherent, TargetCoherent, WorkCoherent
    <3>4. HeldCoherent(call[q])'
      BY <3>1, <3>2 DEF CallCoherent, HeldCoherent
    <3>5. ServedCoherent(call[q])'
      BY <3>1, <3>2 DEF CallCoherent, ServedCoherent, Served
    <3>6. QED
      BY <3>3, <3>4, <3>5 DEF CallCoherent
  <2>3. QED
    BY <2>1, <2>2
<1>4. QED
  BY <1>2, <1>3 DEF IInv

\* The store stays coherent when only more is granted.
LEMMA StoreKept ==
    ASSUME IInv, UNCHANGED store, granted \subseteq granted'
    PROVE  StoreType' /\ StoreCoherent'
  BY DEF IInv, TypeOK, StoreType, StoreCoherent, WellFiled

\* A read, answered or failed, leaves the store as it is.
LEMMA ReadStep ==
    ASSUME IInv, NEW r \in Calls, UNCHANGED granted, ReadOk \/ ReadFails(r)
    PROVE  /\ StoreType' /\ StoreCoherent'
           /\ disturbed' \subseteq Calls /\ faulted' \subseteq Calls
<1>1. UNCHANGED store
  BY DEF ReadOk, ReadFails
<1>2. disturbed' \subseteq Calls /\ faulted' \subseteq Calls
  BY DEF IInv, TypeOK, ReadOk, ReadFails, HostFails
<1>3. QED
  BY <1>1, <1>2, StoreKept

\* A write of something the key may lead to, whether it is made or fails.
LEMMA WriteStep ==
    ASSUME IInv, NEW r \in Calls, UNCHANGED granted,
           NEW k \in Keys, NEW v \in Entries \cup Clusters \cup {None},
           WellFiled(k, v), WriteOk(r, k, v) \/ WriteFails(r, k, v)
    PROVE  /\ StoreType' /\ StoreCoherent'
           /\ disturbed' \subseteq Calls /\ faulted' \subseteq Calls
<1>1. disturbed' \subseteq Calls /\ faulted' \subseteq Calls
  BY DEF IInv, TypeOK, WriteOk, WriteFails, Write, HostFails, Others
<1>2. CASE UNCHANGED store
  BY <1>1, <1>2, StoreKept
<1>3. CASE store' = [store EXCEPT ![k] = v]
  <2>1. StoreType'
    BY <1>3 DEF IInv, TypeOK, StoreType
  <2>2. ASSUME NEW q \in Keys PROVE WellFiled(q, store'[q])
    BY <1>3 DEF IInv, TypeOK, StoreCoherent
  <2>3. StoreCoherent'
    BY <2>2 DEF StoreCoherent, WellFiled
  <2>4. QED
    BY <1>1, <2>1, <2>3
<1>4. QED
  BY <1>2, <1>3 DEF WriteOk, WriteFails, Write

\* A call that arrives.
LEMMA ArriveStep ==
    ASSUME IInv, NEW r \in Calls, NEW c \in CallStates, Arrive(r, c),
           CallCoherent(call[r])'
    PROVE  IInv'
<1>1. /\ UNCHANGED <<store, now, granted>> /\ Become(r, c)
      /\ disturbed' \subseteq Calls /\ faulted' \subseteq Calls
  BY DEF Arrive, IInv, TypeOK
<1>2. StoreType' /\ StoreCoherent'
  BY <1>1, StoreKept
<1>3. granted' \subseteq Profiles \X Clusters
  BY <1>1 DEF IInv, TypeOK
<1>4. QED
  BY <1>1, <1>2, <1>3, StepKeepsIInv

\* Changes of a slot's state that keep it one.
LEMMA SlotChanges ==
    ASSUME NEW c \in CallStates, NEW pc \in Steps
    PROVE  /\ [c EXCEPT !.pc = pc] \in CallStates
           /\ \A a \in Clusters : [c EXCEPT !.pc = pc, !.api = a] \in CallStates
           /\ \A e \in Entries : [c EXCEPT !.pc = pc, !.held = e] \in CallStates
           /\ [c EXCEPT !.pc = pc, !.key = None] \in CallStates
<1>1. [c EXCEPT !.pc = pc] \in CallStates
  BY DEF CallStates
<1>2. ASSUME NEW a \in Clusters PROVE [c EXCEPT !.pc = pc, !.api = a] \in CallStates
  BY DEF CallStates
<1>3. ASSUME NEW e \in Entries PROVE [c EXCEPT !.pc = pc, !.held = e] \in CallStates
  BY DEF CallStates
<1>4. [c EXCEPT !.pc = pc, !.key = None] \in CallStates
  BY DEF CallStates
<1>5. QED
  BY <1>1, <1>2, <1>3, <1>4

LEMMA WorkChanges ==
    ASSUME NEW c \in CallStates, NEW pc \in Steps, NEW w \in SUBSET Keys, NEW k \in Keys
    PROVE  /\ [c EXCEPT !.work = w] \in CallStates
           /\ [c EXCEPT !.work = w, !.pc = pc] \in CallStates
           /\ [c EXCEPT !.work = w, !.key = k, !.pc = pc] \in CallStates
<1>1. [c EXCEPT !.work = w] \in CallStates
  BY DEF CallStates
<1>2. [c EXCEPT !.work = w, !.pc = pc] \in CallStates
  BY DEF CallStates
<1>3. [c EXCEPT !.work = w, !.key = k, !.pc = pc] \in CallStates
  BY DEF CallStates
<1>4. QED
  BY <1>1, <1>2, <1>3

\* What an RPC that returned without a token leaves is a slot's state.
LEMMA ReturnedType ==
    \A out \in Outcomes : Returned(out) \in CallStates /\ Idle \in CallStates
<1>1. Idle \in CallStates
  <2>1. 0 \in MinValids /\ "idle" \in Steps /\ "none" \in Outcomes
    BY TimeAssumption DEF Steps, Outcomes
  <2>2. QED
    BY <2>1 DEF Idle, CallStates
<1>2. \A c \in CallStates, out \in Outcomes : [c EXCEPT !.pc = "done", !.out = out] \in CallStates
  <2>1. "done" \in Steps
    BY DEF Steps
  <2>2. QED
    BY <2>1 DEF CallStates
<1>3. QED
  BY <1>1, <1>2 DEF Returned

\* What an RPC leaves that serves an entry.
ServedSlot(op, p, h, s, a, out, e) ==
    [Idle EXCEPT !.op = op, !.prof = p, !.host = h, !.sa = s, !.api = a,
                 !.pc = "done", !.out = out, !.held = e]

LEMMA ServedType ==
    ASSUME NEW op \in RPCs \cup {"none"}, NEW p \in Profiles \cup {None},
           NEW h \in Hostnames \cup {None}, NEW s \in ServiceAccounts \cup {None},
           NEW a \in Clusters \cup {None}, NEW out \in Outcomes, NEW e \in Entries
    PROVE  ServedSlot(op, p, h, s, a, out, e) \in CallStates
<1>1. "done" \in Steps /\ 0 \in MinValids
  BY TimeAssumption DEF Steps
<1>2. QED
  BY <1>1, ZenonT(40) DEF ServedSlot, Idle, CallStates

\* What is known of the slot of a call, and of what its step puts there.
LEMMA SlotFacts ==
    ASSUME IInv, NEW r \in Calls
    PROVE  /\ call[r] \in CallStates /\ CallCoherent(call[r])
           /\ \A c : Become(r, c) => call'[r] = c
  BY DEF IInv, TypeOK, Become

\* A call that returns without a token, having read or written.
LEMMA FinishStep ==
    ASSUME IInv, NEW r \in Calls, NEW out \in {"ok", "error", "unauthenticated"},
           Finish(r, out), UNCHANGED <<now, granted>>,
           StoreType', StoreCoherent',
           disturbed' \subseteq Calls, faulted' \subseteq Calls
    PROVE  IInv'
<1>1. Returned(out) \in CallStates /\ Become(r, Returned(out))
  BY ReturnedType DEF Finish, Outcomes
<1>2. CallCoherent(call[r])'
  <2>1. call'[r] = Returned(out)
    BY <1>1, SlotFacts
  <2>2. call'[r].pc = "done" /\ ~Served(call'[r]) /\ call'[r].work = {} /\ call'[r].shown = {}
    BY <2>1 DEF Returned, Idle, Served
  <2>3. QED
    BY <2>2 DEF CallCoherent, RequestCoherent, TargetCoherent, HeldCoherent,
         WorkCoherent, ServedCoherent, Served
<1>3. granted' \subseteq Profiles \X Clusters
  BY DEF IInv, TypeOK
<1>4. QED
  BY <1>1, <1>2, <1>3, StepKeepsIInv

-----------------------------------------------------------------------------
(* Requests                                                                *)

LEMMA LoginStartStep ==
    ASSUME IInv, NEW r \in Calls, NEW p \in Profiles, NEW h \in Hostnames \cup {None},
           LoginStart(r, p, h)
    PROVE  IInv'
<1> DEFINE server == RequestedServer(h)
           new == NewCall("login", p, h)
           c == IF server \in {None, Unknown} THEN Returned("error")
                ELSE [new EXCEPT !.pc = "discover", !.api = server]
<1>1. Arrive(r, c)
  BY DEF LoginStart
<1>2. server \in Clusters \cup {None, Unknown}
  BY NamesAssumption DEF RequestedServer
<1>3. c \in CallStates
  <2>1. CASE server \in {None, Unknown}
    BY <2>1, ReturnedType DEF Outcomes
  <2>2. CASE server \in Clusters
    BY <2>2, NamesAssumption, TimeAssumption
       DEF NewCall, Idle, CallStates, Steps, Outcomes, RPCs
  <2>3. QED
    BY <1>2, <2>1, <2>2
<1>4. CallCoherent(call[r])'
  <2>1. call'[r] = c
    BY <1>1, SlotFacts DEF Arrive
  <2>2. CASE server \in {None, Unknown}
    BY <2>1, <2>2 DEF Returned, Idle, Served, CallCoherent, RequestCoherent,
         TargetCoherent, HeldCoherent, WorkCoherent, ServedCoherent
  <2>3. CASE server \in Clusters
    BY <2>1, <2>3, NamesAssumption DEF NewCall, Idle, Served, CallCoherent, RequestCoherent,
         TargetCoherent, HeldCoherent, WorkCoherent, ServedCoherent
  <2>4. QED
    BY <1>2, <2>2, <2>3
<1>5. QED
  BY <1>1, <1>3, <1>4, ArriveStep

LEMMA LogoutStartStep ==
    ASSUME IInv, NEW r \in Calls, NEW p \in Profiles, NEW h \in Hostnames \cup {None},
           LogoutStart(r, p, h)
    PROVE  IInv'
<1> DEFINE new == NewCall("logout", p, h)
<1>1. CASE h = None
  <2> DEFINE c == [new EXCEPT !.pc = "listAll"]
  <2>1. Arrive(r, c)
    BY <1>1 DEF LogoutStart
  <2>2. c \in CallStates
    BY NamesAssumption, TimeAssumption DEF NewCall, Idle, CallStates, Steps, Outcomes, RPCs
  <2>3. CallCoherent(call[r])'
    <3>1. call'[r] = c
      BY <2>1, SlotFacts DEF Arrive
    <3>2. QED
      BY <1>1, <3>1, NamesAssumption DEF NewCall, Idle, Served, CallCoherent,
         RequestCoherent, TargetCoherent, HeldCoherent, WorkCoherent, ServedCoherent
  <2>4. QED
    BY <2>1, <2>2, <2>3, ArriveStep
<1>2. CASE h # None /\ Resolved[h] = Unknown
  <2>1. Arrive(r, Returned("error"))
    BY <1>2 DEF LogoutStart
  <2>2. Returned("error") \in CallStates
    BY ReturnedType DEF Outcomes
  <2>3. CallCoherent(call[r])'
    <3>1. call'[r] = Returned("error")
      BY <2>1, SlotFacts DEF Arrive
    <3>2. QED
      BY <3>1 DEF Returned, Idle, Served, CallCoherent,
         RequestCoherent, TargetCoherent, HeldCoherent, WorkCoherent, ServedCoherent
  <2>4. QED
    BY <2>1, <2>2, <2>3, ArriveStep
<1>3. CASE h # None /\ Resolved[h] # Unknown
  <2> DEFINE c == [new EXCEPT !.pc = "listCluster", !.api = Resolved[h]]
  <2>1. Arrive(r, c)
    BY <1>3 DEF LogoutStart
  <2>2. c \in CallStates
    BY <1>3, NamesAssumption, TimeAssumption
       DEF NewCall, Idle, CallStates, Steps, Outcomes, RPCs
  <2>3. CallCoherent(call[r])'
    <3>1. call'[r] = c
      BY <2>1, SlotFacts DEF Arrive
    <3>2. QED
      BY <1>3, <3>1, NamesAssumption DEF NewCall, Idle, Served, CallCoherent,
         RequestCoherent, TargetCoherent, HeldCoherent, WorkCoherent, ServedCoherent
  <2>4. QED
    BY <2>1, <2>2, <2>3, ArriveStep
<1>4. QED
  BY <1>1, <1>2, <1>3

LEMMA StatusStartStep ==
    ASSUME IInv, NEW r \in Calls, NEW p \in Profiles, NEW h \in Hostnames \cup {None},
           StatusStart(r, p, h)
    PROVE  IInv'
<1> DEFINE server == RequestedServer(h)
           new == NewCall("status", p, h)
           c == CASE server = Unknown -> Returned("unauthenticated")
                  [] server = None -> [new EXCEPT !.pc = "readActive"]
                  [] OTHER -> [new EXCEPT !.pc = "statusGet", !.api = server]
<1>1. Arrive(r, c)
  BY DEF StatusStart
<1>2. /\ server \in Clusters \cup {None, Unknown}
      /\ Unknown \notin Clusters /\ None \notin Clusters /\ None # Unknown
  BY NamesAssumption DEF RequestedServer
<1>3. c \in CallStates
  <2>1. CASE server = Unknown
    BY <1>2, <2>1, ReturnedType DEF Outcomes
  <2>2. CASE server = None
    BY <1>2, <2>2, NamesAssumption, TimeAssumption
       DEF NewCall, Idle, CallStates, Steps, Outcomes, RPCs
  <2>3. CASE server \in Clusters
    BY <1>2, <2>3, NamesAssumption, TimeAssumption
       DEF NewCall, Idle, CallStates, Steps, Outcomes, RPCs
  <2>4. QED
    BY <1>2, <2>1, <2>2, <2>3
<1>4. CallCoherent(call[r])'
  <2>1. call'[r] = c
    BY <1>1, SlotFacts DEF Arrive
  <2>2. CASE server = Unknown
    BY <1>2, <2>1, <2>2 DEF Returned, Idle, Served, CallCoherent, RequestCoherent,
         TargetCoherent, HeldCoherent, WorkCoherent, ServedCoherent
  <2>3. CASE server = None
    <3>1. call'[r] = [new EXCEPT !.pc = "readActive"]
      BY <1>2, <2>1, <2>3
    <3>2. QED
      BY <1>2, <2>3, <3>1 DEF NewCall, Idle, Served, CallCoherent, RequestCoherent,
           TargetCoherent, HeldCoherent, WorkCoherent, ServedCoherent
  <2>4. CASE server \in Clusters
    <3>1. call'[r] = [new EXCEPT !.pc = "statusGet", !.api = server]
      BY <1>2, <2>1, <2>4
    <3>2. QED
      BY <1>2, <2>4, <3>1 DEF NewCall, Idle, Served, CallCoherent, RequestCoherent,
           TargetCoherent, HeldCoherent, WorkCoherent, ServedCoherent
  <2>5. QED
    BY <1>2, <2>2, <2>3, <2>4
<1>5. QED
  BY <1>1, <1>3, <1>4, ArriveStep

LEMMA TokenStartStep ==
    ASSUME IInv, NEW r \in Calls, NEW p \in Profiles, NEW h \in Hostnames \cup {None},
           NEW s \in ServiceAccounts \cup {None}, NEW min \in MinValids,
           NEW force \in BOOLEAN, TokenStart(r, p, h, s, min, force)
    PROVE  IInv'
<1> DEFINE server == RequestedServer(h)
           new == [NewCall("token", p, h) EXCEPT !.sa = s, !.min = min, !.force = force]
           c == CASE server = Unknown -> Returned("error")
                  [] server = None -> [new EXCEPT !.pc = "readActive"]
                  [] OTHER -> [new EXCEPT !.pc = FirstGet(s, force), !.api = server]
<1>1. Arrive(r, c)
  BY DEF TokenStart
<1>2. /\ server \in Clusters \cup {None, Unknown}
      /\ Unknown \notin Clusters /\ None \notin Clusters /\ None # Unknown
      /\ None \notin ServiceAccounts
  BY NamesAssumption DEF RequestedServer
<1>3. \/ s = None /\ FirstGet(s, force) = "userGet"
      \/ s \in ServiceAccounts /\ FirstGet(s, force) \in {"bearerGet", "saGet"}
  BY <1>2 DEF FirstGet
<1>4. c \in CallStates
  <2>1. CASE server = Unknown
    BY <1>2, <2>1, ReturnedType DEF Outcomes
  <2>2. CASE server = None
    BY <1>2, <2>2, NamesAssumption, TimeAssumption
       DEF NewCall, Idle, CallStates, Steps, Outcomes, RPCs
  <2>3. CASE server \in Clusters
    <3>1. c = [new EXCEPT !.pc = FirstGet(s, force), !.api = server]
      BY <1>2, <2>3
    <3>2. FirstGet(s, force) \in Steps
      BY <1>3 DEF Steps
    <3>3. new \in CallStates
      BY NamesAssumption, TimeAssumption
         DEF NewCall, Idle, CallStates, Steps, Outcomes, RPCs
    <3>4. [new EXCEPT !.pc = FirstGet(s, force), !.api = server] \in CallStates
      <4> HIDE DEF new
      <4>1. QED
        BY <2>3, <3>2, <3>3, SlotChanges
    <3>5. QED
      BY <3>1, <3>4
  <2>4. QED
    BY <1>2, <2>1, <2>2, <2>3
<1>5. CallCoherent(call[r])'
  <2>1. call'[r] = c
    BY <1>1, SlotFacts DEF Arrive
  <2>2. CASE server = Unknown
    BY <1>2, <2>1, <2>2 DEF Returned, Idle, Served, CallCoherent, RequestCoherent,
         TargetCoherent, HeldCoherent, WorkCoherent, ServedCoherent
  <2>3. CASE server = None
    <3>1. call'[r] = [new EXCEPT !.pc = "readActive"]
      BY <1>2, <2>1, <2>3
    <3>2. QED
      BY <1>2, <2>3, <3>1 DEF NewCall, Idle, Served, CallCoherent, RequestCoherent,
           TargetCoherent, HeldCoherent, WorkCoherent, ServedCoherent
  <2>4. CASE server \in Clusters
    <3>1. call'[r] = [new EXCEPT !.pc = FirstGet(s, force), !.api = server]
      BY <1>2, <2>1, <2>4
    <3>2. QED
      BY <1>3, <2>4, <3>1 DEF NewCall, Idle, Served, CallCoherent, RequestCoherent,
           TargetCoherent, HeldCoherent, WorkCoherent, ServedCoherent
  <2>5. QED
    BY <1>2, <2>2, <2>3, <2>4
<1>6. QED
  BY <1>1, <1>4, <1>5, ArriveStep

LEMMA PurgeStartStep ==
    ASSUME IInv, NEW r \in Calls, NEW p \in Profiles, PurgeStart(r, p)
    PROVE  IInv'
<1> DEFINE c == [NewCall("purge", p, None) EXCEPT !.pc = "purgeList"]
<1>1. Arrive(r, c)
  BY DEF PurgeStart
<1>2. c \in CallStates
  BY NamesAssumption, TimeAssumption DEF NewCall, Idle, CallStates, Steps, Outcomes, RPCs
<1>3. CallCoherent(call[r])'
  <2>1. call'[r] = c
    BY <1>1, SlotFacts DEF Arrive
  <2>2. QED
    BY <2>1, NamesAssumption DEF NewCall, Idle, Served, CallCoherent, RequestCoherent,
         TargetCoherent, HeldCoherent, WorkCoherent, ServedCoherent
<1>4. QED
  BY <1>1, <1>2, <1>3, ArriveStep

-----------------------------------------------------------------------------
(* Login                                                                   *)

\* The entries the plugin makes are entries.
LEMMA EntryFacts ==
    ASSUME NEW p \in Profiles, NEW a \in Clusters, NEW exp \in Nat
    PROVE  /\ UserEntry(p, a, exp) \in Entries /\ UserEntry(p, a, exp).exp = exp
           /\ \A s \in ServiceAccounts :
                SAEntry(p, a, s, exp) \in Entries /\ SAEntry(p, a, s, exp).exp = exp
  BY DEF UserEntry, SAEntry, Entries, Tokens

LEMMA ExpiryFacts ==
    ASSUME IInv, NEW l \in Lifetimes
    PROVE  ExpiryOf(now, l) \in Nat
  BY TimeAssumption DEF IInv, TypeOK, ExpiryOf, UnknownExpiry

LEMMA WebLoginSucceedsStep ==
    ASSUME IInv, NEW r \in Calls, WebLoginSucceeds(r)
    PROVE  IInv'
<1> DEFINE c == call[r]
<1>1. c \in CallStates /\ CallCoherent(c)
  BY SlotFacts
<1>2. c.prof \in Profiles /\ c.api \in Clusters /\ RequestedServer(c.host) \in {None, c.api}
  BY <1>1 DEF WebLoginSucceeds, CallCoherent, RequestCoherent, TargetCoherent
<1>3. PICK l \in Lifetimes :
        Become(r, [c EXCEPT !.pc = "whoami",
                            !.held = UserEntry(c.prof, c.api, ExpiryOf(now, l))])
  BY DEF WebLoginSucceeds
<1> DEFINE e == UserEntry(c.prof, c.api, ExpiryOf(now, l))
           d == [c EXCEPT !.pc = "whoami", !.held = e]
<1>4. e \in Entries /\ e = UserEntry(c.prof, c.api, e.exp)
  BY <1>2, ExpiryFacts, EntryFacts
<1>5. d \in CallStates
  <2>1. "whoami" \in Steps
    BY DEF Steps
  <2> HIDE DEF e, c
  <2>2. QED
    BY <1>1, <1>4, <2>1, SlotChanges
<1>6. granted' = granted \cup {<<c.prof, c.api>>} /\ UNCHANGED <<store, now, disturbed, faulted>>
  BY DEF WebLoginSucceeds
<1>7. CallCoherent(call[r])'
  <2>1. call'[r] = d
    BY <1>3, SlotFacts
  <2> HIDE DEF e
  <2>2. /\ d.pc = "whoami" /\ d.held = e /\ d.prof = c.prof /\ d.api = c.api
        /\ d.host = c.host /\ d.work = c.work
        /\ d.op = c.op /\ d.shown = c.shown
    BY <1>1 DEF CallStates
  <2>3. /\ c.op = "login"
        /\ \A k \in c.work : k.prof = c.prof
        /\ \A x \in c.shown : x.tok.prof = c.prof
    BY <1>1 DEF WebLoginSucceeds, CallCoherent, RequestCoherent, WorkCoherent
  <2> HIDE DEF d, c
  <2>4. QED
    BY <1>2, <1>4, <1>6, <2>1, <2>2, <2>3 DEF CallCoherent, RequestCoherent,
       TargetCoherent, HeldCoherent, WorkCoherent, ServedCoherent, Served
<1>8. StoreType' /\ StoreCoherent'
  BY <1>6, StoreKept
<1>9. granted \subseteq granted' /\ granted' \subseteq Profiles \X Clusters
  BY <1>2, <1>6 DEF IInv, TypeOK
<1>10. disturbed' \subseteq Calls /\ faulted' \subseteq Calls
  BY <1>6 DEF IInv, TypeOK
<1>11. QED
  BY <1>3, <1>5, <1>6, <1>7, <1>8, <1>9, <1>10, StepKeepsIInv

\* A step that grants nothing and moves the call to a coherent state.
LEMMA MoveStep ==
    ASSUME IInv, NEW r \in Calls, NEW c \in CallStates, Become(r, c),
           UNCHANGED <<now, granted>>, CallCoherent(c),
           StoreType', StoreCoherent',
           disturbed' \subseteq Calls, faulted' \subseteq Calls
    PROVE  IInv'
<1>1. call'[r] = c
  BY SlotFacts
<1>2. CallCoherent(call[r])'
  BY <1>1 DEF CallCoherent, RequestCoherent, TargetCoherent, HeldCoherent,
              WorkCoherent, ServedCoherent, Served
<1>3. granted' \subseteq Profiles \X Clusters
  BY DEF IInv, TypeOK
<1>4. QED
  BY <1>2, <1>3, StepKeepsIInv

\* A step that touches neither the store nor the histories.
LEMMA QuietStep ==
    ASSUME IInv, UNCHANGED <<store, granted, disturbed, faulted>>
    PROVE  /\ StoreType' /\ StoreCoherent'
           /\ disturbed' \subseteq Calls /\ faulted' \subseteq Calls
  BY StoreKept DEF IInv, TypeOK

LEMMA DiscoverStep ==
    ASSUME IInv, NEW r \in Calls, Discover(r)
    PROVE  IInv'
<1> DEFINE c == call[r]
           d == [c EXCEPT !.pc = "webLogin"]
<1>1. /\ c.pc = "discover" /\ UNCHANGED <<store, now, granted, disturbed, faulted>>
      /\ Become(r, d) \/ Finish(r, "error")
  BY DEF Discover, Goto
<1>2. CASE Finish(r, "error")
  BY <1>1, <1>2, QuietStep, FinishStep
<1>3. CASE Become(r, d)
  <2>1. c \in CallStates /\ CallCoherent(c)
    BY SlotFacts
  <2>2. d \in CallStates
    BY <2>1, SlotChanges DEF Steps
  <2>3. /\ d.pc = "webLogin" /\ d.op = c.op /\ d.prof = c.prof /\ d.api = c.api
        /\ d.host = c.host /\ d.work = c.work /\ d.shown = c.shown
    BY <2>1 DEF CallStates
  <2> HIDE DEF d
  <2>4. CallCoherent(d)
    BY <1>1, <2>1, <2>3 DEF CallCoherent, RequestCoherent, TargetCoherent, HeldCoherent,
       WorkCoherent, ServedCoherent, Served
  <2>5. QED
    BY <1>1, <1>3, <2>2, <2>4, QuietStep, MoveStep
<1>4. QED
  BY <1>1, <1>2, <1>3

LEMMA WhoamiStep ==
    ASSUME IInv, NEW r \in Calls, Whoami(r)
    PROVE  IInv'
<1> DEFINE c == call[r]
           d == [c EXCEPT !.pc = "cacheToken"]
<1>1. /\ c.pc = "whoami" /\ UNCHANGED <<store, now, granted, disturbed, faulted>>
      /\ Become(r, d)
  BY DEF Whoami, Goto
<1>2. c \in CallStates /\ CallCoherent(c)
  BY SlotFacts
<1>3. d \in CallStates
  BY <1>2, SlotChanges DEF Steps
<1>4. /\ d.pc = "cacheToken" /\ d.op = c.op /\ d.prof = c.prof /\ d.api = c.api
      /\ d.host = c.host /\ d.held = c.held /\ d.work = c.work /\ d.shown = c.shown
  BY <1>2 DEF CallStates
<1> HIDE DEF d
<1>5. CallCoherent(d)
  BY <1>1, <1>2, <1>4 DEF CallCoherent, RequestCoherent, TargetCoherent, HeldCoherent,
     WorkCoherent, ServedCoherent, Served
<1>6. QED
  BY <1>1, <1>3, <1>5, QuietStep, MoveStep

LEMMA WebLoginFailsStep ==
    ASSUME IInv, NEW r \in Calls, WebLoginFails(r)
    PROVE  IInv'
  BY QuietStep, FinishStep DEF WebLoginFails

LEMMA LoginCacheTokenStep ==
    ASSUME IInv, NEW r \in Calls, LoginCacheToken(r)
    PROVE  IInv'
<1> DEFINE c == call[r]
           k == userTokenKey(c.prof, c.api)
           d == [c EXCEPT !.pc = "setActive"]
<1>1. /\ c.pc = "cacheToken" /\ Become(r, d) /\ UNCHANGED <<now, granted>>
      /\ WriteOk(r, k, c.held) \/ WriteFails(r, k, c.held)
  BY DEF LoginCacheToken, Goto
<1>2. c \in CallStates /\ CallCoherent(c)
  BY SlotFacts
<1>3. /\ c.prof \in Profiles /\ c.api \in Clusters
      /\ c.held = UserEntry(c.prof, c.api, c.held.exp) /\ <<c.prof, c.api>> \in granted
  BY <1>1, <1>2 DEF CallCoherent, RequestCoherent, TargetCoherent, HeldCoherent
<1>4. c.held \in Entries
  BY <1>1, <1>2 DEF CallCoherent, HeldCoherent
<1>5. WellFiled(k, c.held)
  <2>1. IsEntry(c.held)
    BY <1>4, EntriesAssumption DEF IsEntry
  <2>2. None \notin InvalidNames
    BY NamesAssumption
  <2>3. QED
    BY <1>3, <2>1, <2>2 DEF WellFiled, userTokenKey, UserEntry
<1>6. k \in Keys
  BY <1>3, KeyFacts
<1>7. /\ StoreType' /\ StoreCoherent'
      /\ disturbed' \subseteq Calls /\ faulted' \subseteq Calls
  BY <1>1, <1>4, <1>5, <1>6, WriteStep
<1>8. d \in CallStates
  BY <1>2, SlotChanges DEF Steps
<1>9. CallCoherent(d)
  <2>1. /\ d.pc = "setActive" /\ d.held = c.held /\ d.prof = c.prof /\ d.api = c.api
        /\ d.host = c.host /\ d.work = c.work
        /\ d.op = c.op /\ d.shown = c.shown
    BY <1>2 DEF CallStates
  <2> HIDE DEF d
  <2>2. QED
    BY <1>1, <1>2, <2>1 DEF CallCoherent, RequestCoherent, TargetCoherent, HeldCoherent,
       WorkCoherent, ServedCoherent, Served
<1>10. QED
  BY <1>1, <1>7, <1>8, <1>9, MoveStep

LEMMA LoginSetActiveStep ==
    ASSUME IInv, NEW r \in Calls, LoginSetActive(r)
    PROVE  IInv'
<1> DEFINE c == call[r]
           k == activeClusterKey(c.prof)
<1>1. /\ c.pc = "setActive" /\ Finish(r, "ok") /\ UNCHANGED <<now, granted>>
      /\ WriteOk(r, k, c.api) \/ WriteFails(r, k, c.api)
  BY DEF LoginSetActive
<1>2. CallCoherent(c)
  BY SlotFacts
<1>3. c.prof \in Profiles /\ c.api \in Clusters
  BY <1>1, <1>2 DEF CallCoherent, RequestCoherent, TargetCoherent
<1>4. k \in Keys /\ WellFiled(k, c.api)
  BY <1>3, KeyFacts DEF WellFiled, activeClusterKey
<1>5. /\ StoreType' /\ StoreCoherent'
      /\ disturbed' \subseteq Calls /\ faulted' \subseteq Calls
  BY <1>1, <1>3, <1>4, WriteStep
<1>6. QED
  BY <1>1, <1>5, FinishStep

-----------------------------------------------------------------------------
(* Logout and purge                                                        *)

\* Any key may lead to nothing, so a deletion keeps the store coherent.
LEMMA DeleteStep ==
    ASSUME IInv, NEW r \in Calls, UNCHANGED granted, NEW k \in Keys,
           WriteOk(r, k, None) \/ WriteFails(r, k, None)
    PROVE  /\ StoreType' /\ StoreCoherent'
           /\ disturbed' \subseteq Calls /\ faulted' \subseteq Calls
<1>1. WellFiled(k, None)
  BY DEF WellFiled
<1>2. QED
  BY <1>1, WriteStep

\* Visiting keys: what remains of a coherent call's work is coherent.
LEMMA WorkStep ==
    ASSUME IInv, NEW r \in Calls, NEW w \in SUBSET Keys,
           \A k \in w : k.prof = call[r].prof,
           call[r].pc \in {"clearAll", "clusterGet", "listGet", "purgeGet"}
    PROVE  /\ [call[r] EXCEPT !.work = w] \in CallStates
           /\ CallCoherent([call[r] EXCEPT !.work = w])
<1> DEFINE c == call[r]
           d == [c EXCEPT !.work = w]
<1>1. c \in CallStates /\ CallCoherent(c)
  BY SlotFacts
<1>2. d \in CallStates
  BY <1>1 DEF CallStates
<1>3. /\ d.pc = c.pc /\ d.op = c.op /\ d.prof = c.prof /\ d.host = c.host
      /\ d.api = c.api /\ d.work = w
        /\ d.shown = c.shown
  BY <1>1 DEF CallStates
<1> HIDE DEF d
<1>4. CallCoherent(d)
  BY <1>1, <1>3 DEF CallCoherent, RequestCoherent, TargetCoherent, HeldCoherent,
     WorkCoherent, ServedCoherent, Served
<1>5. QED
  BY <1>2, <1>4 DEF d

\* What a listing returns.
LEMMA ListedFacts ==
    \A p : Listed(p) \in SUBSET Keys /\ \A k \in Listed(p) : k.prof = p
  BY DEF Listed

LEMMA LogoutListStep ==
    ASSUME IInv, NEW r \in Calls, LogoutList(r)
    PROVE  IInv'
<1> DEFINE c == call[r]
           pc == IF c.pc = "listAll" THEN "clearAll" ELSE "clusterGet"
           d == [c EXCEPT !.work = Listed(c.prof), !.pc = pc]
<1>1. /\ c.pc \in {"listAll", "listCluster"} /\ UNCHANGED <<now, granted>>
      /\ \/ ReadOk /\ Become(r, d)
         \/ ReadFails(r) /\ Finish(r, "ok")
  BY DEF LogoutList
<1>2. /\ StoreType' /\ StoreCoherent'
      /\ disturbed' \subseteq Calls /\ faulted' \subseteq Calls
  BY <1>1, ReadStep
<1>3. CASE Finish(r, "ok")
  BY <1>1, <1>2, <1>3, FinishStep
<1>4. CASE Become(r, d)
  <2>1. c \in CallStates /\ CallCoherent(c)
    BY SlotFacts
  <2>2. d \in CallStates
    <3>1. pc \in Steps
      BY DEF Steps
    <3> HIDE DEF pc, c
    <3>2. QED
      BY <2>1, <3>1, ListedFacts DEF CallStates
  <2>3. /\ d.pc = pc /\ d.op = c.op /\ d.prof = c.prof /\ d.host = c.host
        /\ d.api = c.api /\ d.work = Listed(c.prof)
        /\ d.shown = c.shown
    BY <2>1 DEF CallStates
  <2>4. CallCoherent(d)
    <3>1. \A k \in d.work : k.prof = d.prof
      BY <2>3, ListedFacts
    <3> HIDE DEF d
    <3>2. QED
      BY <1>1, <2>1, <2>3, <3>1 DEF CallCoherent, RequestCoherent, TargetCoherent,
         HeldCoherent, WorkCoherent, ServedCoherent, Served
  <2>5. QED
    BY <1>1, <1>2, <1>4, <2>2, <2>4, MoveStep
<1>5. QED
  BY <1>1, <1>3, <1>4

LEMMA ClearAllDeleteStep ==
    ASSUME IInv, NEW r \in Calls, ClearAllDelete(r)
    PROVE  IInv'
<1> DEFINE c == call[r]
<1>1. PICK k \in c.work :
        /\ WriteOk(r, k, None) \/ WriteFails(r, k, None)
        /\ Become(r, [c EXCEPT !.work = c.work \ {k}])
  BY DEF ClearAllDelete
<1>2. c.pc = "clearAll" /\ UNCHANGED <<now, granted>>
  BY DEF ClearAllDelete
<1>3. c.work \in SUBSET Keys /\ \A q \in c.work : q.prof = c.prof
  BY SlotFacts DEF CallStates, CallCoherent, WorkCoherent
<1>4. /\ StoreType' /\ StoreCoherent'
      /\ disturbed' \subseteq Calls /\ faulted' \subseteq Calls
  BY <1>1, <1>2, <1>3, DeleteStep
<1>5. /\ [c EXCEPT !.work = c.work \ {k}] \in CallStates
      /\ CallCoherent([c EXCEPT !.work = c.work \ {k}])
  BY <1>2, <1>3, WorkStep
<1>6. QED
  BY <1>1, <1>2, <1>4, <1>5, MoveStep

LEMMA LogoutReturnStep ==
    ASSUME IInv, NEW r \in Calls, LogoutReturn(r)
    PROVE  IInv'
  BY QuietStep, FinishStep DEF LogoutReturn

LEMMA PurgeReturnStep ==
    ASSUME IInv, NEW r \in Calls, PurgeReturn(r)
    PROVE  IInv'
  BY QuietStep, FinishStep DEF PurgeReturn

\* A key that leads to an entry is a token's key, and the entry is filed there.
LEMMA EntryKey ==
    ASSUME IInv, NEW k \in Keys, IsEntry(store[k])
    PROVE  /\ k \in UserKeys \cup SAKeys /\ store[k] \in Entries
           /\ store[k].api = k.api
           /\ store[k].tok = [iss |-> k.api, sub |-> k.sa, prof |-> k.prof]
           /\ store[k].exp \in Nat
           /\ <<k.prof, k.api>> \in granted
<1>1. WellFiled(k, store[k]) /\ store[k] \in Entries
  BY DEF IInv, TypeOK, StoreCoherent, IsEntry
<1>2. k.kind # "active" /\ store[k] # None
  BY <1>1 DEF WellFiled, IsEntry
<1>3. k \in UserKeys \cup SAKeys
  BY <1>2, KeyShape DEF Keys
<1>4. store[k].exp \in Nat
  BY <1>1 DEF Entries
<1>5. QED
  BY <1>1, <1>2, <1>3, <1>4 DEF WellFiled

LEMMA ClearClusterGetStep ==
    ASSUME IInv, NEW r \in Calls, ClearClusterGet(r)
    PROVE  IInv'
<1> DEFINE c == call[r]
<1>1. c.pc = "clusterGet" /\ UNCHANGED <<now, granted>>
  BY DEF ClearClusterGet
<1>2. c \in CallStates /\ CallCoherent(c)
  BY SlotFacts
<1>3. c.work \in SUBSET Keys /\ \A q \in c.work : q.prof = c.prof
  BY <1>2 DEF CallStates, CallCoherent, WorkCoherent
<1>4. PICK k \in c.work :
        LET skip == [c EXCEPT !.work = c.work \ {k}]
            hit  == [c EXCEPT !.work = c.work \ {k}, !.key = k, !.pc = "clusterDelete"]
        IN  /\ ReadOk \/ ReadFails(r)
            /\ Become(r, skip) \/ (BelongsToCluster(store[k], c.api) /\ Become(r, hit))
  BY DEF ClearClusterGet
<1> DEFINE skip == [c EXCEPT !.work = c.work \ {k}]
           hit  == [c EXCEPT !.work = c.work \ {k}, !.key = k, !.pc = "clusterDelete"]
<1>5. /\ StoreType' /\ StoreCoherent'
      /\ disturbed' \subseteq Calls /\ faulted' \subseteq Calls
  BY <1>1, <1>4, ReadStep
<1>6. CASE Become(r, skip)
  <2>1. skip \in CallStates /\ CallCoherent(skip)
    BY <1>1, <1>3, WorkStep
  <2>2. QED
    BY <1>1, <1>5, <1>6, <2>1, MoveStep
<1>7. CASE BelongsToCluster(store[k], c.api) /\ Become(r, hit)
  <2>1. k \in UserKeys \cup SAKeys /\ k.api = c.api /\ k.prof = c.prof
    BY <1>3, <1>4, <1>7, EntryKey DEF BelongsToCluster
  <2>2. hit \in CallStates
    <3>1. "clusterDelete" \in Steps /\ c.work \ {k} \in SUBSET Keys /\ k \in Keys
      BY <1>3, <1>4 DEF Steps
    <3> HIDE DEF c
    <3>2. QED
      BY <1>2, <3>1, WorkChanges
  <2>3. /\ hit.pc = "clusterDelete" /\ hit.op = c.op /\ hit.prof = c.prof
        /\ hit.host = c.host /\ hit.api = c.api /\ hit.work = c.work \ {k} /\ hit.key = k
        /\ hit.shown = c.shown
    BY <1>2 DEF CallStates
  <2> HIDE DEF hit
  <2>4. CallCoherent(hit)
    BY <1>1, <1>2, <1>3, <2>1, <2>3 DEF CallCoherent, RequestCoherent, TargetCoherent,
       HeldCoherent, WorkCoherent, ServedCoherent, Served
  <2>5. QED
    BY <1>1, <1>5, <1>7, <2>2, <2>4, MoveStep
<1>8. QED
  BY <1>4, <1>6, <1>7

\* After a delete the call visits the next key.
LEMMA VisitedStep ==
    ASSUME IInv, NEW r \in Calls, UNCHANGED <<now, granted>>,
           \/ call[r].pc = "clusterDelete"
                /\ Become(r, [call[r] EXCEPT !.pc = "clusterGet", !.key = None])
           \/ call[r].pc = "purgeDelete"
                /\ Become(r, [call[r] EXCEPT !.pc = "purgeGet", !.key = None]),
           WriteOk(r, call[r].key, None) \/ WriteFails(r, call[r].key, None)
    PROVE  IInv'
<1> DEFINE c == call[r]
<1>1. c \in CallStates /\ CallCoherent(c) /\ c.key \in Keys
  BY SlotFacts, KeyShape DEF CallCoherent, WorkCoherent
<1>2. /\ StoreType' /\ StoreCoherent'
      /\ disturbed' \subseteq Calls /\ faulted' \subseteq Calls
  BY <1>1, DeleteStep
<1>3. ASSUME NEW pc \in {"clusterGet", "purgeGet"},
             Become(r, [c EXCEPT !.pc = pc, !.key = None]),
             \/ c.pc = "clusterDelete" /\ pc = "clusterGet"
             \/ c.pc = "purgeDelete" /\ pc = "purgeGet"
      PROVE  IInv'
  <2> DEFINE d == [c EXCEPT !.pc = pc, !.key = None]
  <2>1. d \in CallStates
    BY <1>1, SlotChanges DEF Steps
  <2>2. /\ d.pc = pc /\ d.op = c.op /\ d.prof = c.prof /\ d.host = c.host
        /\ d.api = c.api /\ d.work = c.work
        /\ d.shown = c.shown
    BY <1>1 DEF CallStates
  <2> HIDE DEF d
  <2>3. CallCoherent(d)
    BY <1>1, <1>3, <2>2 DEF CallCoherent, RequestCoherent, TargetCoherent,
       HeldCoherent, WorkCoherent, ServedCoherent, Served
  <2>4. QED
    BY <1>2, <1>3, <2>1, <2>3, MoveStep DEF d
<1>4. QED
  BY <1>3

LEMMA ClearClusterDeleteStep ==
    ASSUME IInv, NEW r \in Calls, ClearClusterDelete(r)
    PROVE  IInv'
  BY VisitedStep DEF ClearClusterDelete

LEMMA PurgeDeleteStep ==
    ASSUME IInv, NEW r \in Calls, PurgeDelete(r)
    PROVE  IInv'
  BY VisitedStep DEF PurgeDelete

LEMMA PurgeListStep ==
    ASSUME IInv, NEW r \in Calls, PurgeList(r)
    PROVE  IInv'
<1> DEFINE c == call[r]
           d == [c EXCEPT !.work = Listed(c.prof), !.pc = "purgeGet"]
<1>1. /\ c.pc = "purgeList" /\ UNCHANGED <<now, granted>>
      /\ \/ ReadOk /\ Become(r, d)
         \/ ReadFails(r) /\ Finish(r, "error")
  BY DEF PurgeList
<1>2. /\ StoreType' /\ StoreCoherent'
      /\ disturbed' \subseteq Calls /\ faulted' \subseteq Calls
  BY <1>1, ReadStep
<1>3. CASE Finish(r, "error")
  BY <1>1, <1>2, <1>3, FinishStep
<1>4. CASE Become(r, d)
  <2>1. c \in CallStates /\ CallCoherent(c)
    BY SlotFacts
  <2>2. d \in CallStates
    <3>1. "purgeGet" \in Steps
      BY DEF Steps
    <3> HIDE DEF c
    <3>2. QED
      BY <2>1, <3>1, ListedFacts DEF CallStates
  <2>3. /\ d.pc = "purgeGet" /\ d.op = c.op /\ d.prof = c.prof /\ d.host = c.host
        /\ d.api = c.api /\ d.work = Listed(c.prof)
        /\ d.shown = c.shown
    BY <2>1 DEF CallStates
  <2>4. CallCoherent(d)
    <3>1. \A k \in d.work : k.prof = d.prof
      BY <2>3, ListedFacts
    <3> HIDE DEF d
    <3>2. QED
      BY <1>1, <2>1, <2>3, <3>1 DEF CallCoherent, RequestCoherent, TargetCoherent,
         HeldCoherent, WorkCoherent, ServedCoherent, Served
  <2>5. QED
    BY <1>1, <1>2, <1>4, <2>2, <2>4, MoveStep
<1>5. QED
  BY <1>1, <1>3, <1>4

LEMMA PurgeGetStep ==
    ASSUME IInv, NEW r \in Calls, PurgeGet(r)
    PROVE  IInv'
<1> DEFINE c == call[r]
<1>1. c.pc = "purgeGet" /\ UNCHANGED <<now, granted>>
  BY DEF PurgeGet
<1>2. c \in CallStates /\ CallCoherent(c)
  BY SlotFacts
<1>3. c.work \in SUBSET Keys /\ \A q \in c.work : q.prof = c.prof
  BY <1>2 DEF CallStates, CallCoherent, WorkCoherent
<1>4. PICK k \in c.work :
        LET skip == [c EXCEPT !.work = c.work \ {k}]
            hit  == [c EXCEPT !.work = c.work \ {k}, !.key = k, !.pc = "purgeDelete"]
        IN  /\ ReadOk \/ ReadFails(r)
            /\ Become(r, skip) \/ (IsEntry(store[k]) /\ Become(r, hit))
  BY DEF PurgeGet
<1> DEFINE skip == [c EXCEPT !.work = c.work \ {k}]
           hit  == [c EXCEPT !.work = c.work \ {k}, !.key = k, !.pc = "purgeDelete"]
<1>5. /\ StoreType' /\ StoreCoherent'
      /\ disturbed' \subseteq Calls /\ faulted' \subseteq Calls
  BY <1>1, <1>4, ReadStep
<1>6. CASE Become(r, skip)
  <2>1. skip \in CallStates /\ CallCoherent(skip)
    BY <1>1, <1>3, WorkStep
  <2>2. QED
    BY <1>1, <1>5, <1>6, <2>1, MoveStep
<1>7. CASE IsEntry(store[k]) /\ Become(r, hit)
  <2>1. k \in UserKeys \cup SAKeys /\ k.prof = c.prof
    BY <1>3, <1>4, <1>7, EntryKey
  <2>2. hit \in CallStates
    <3>1. "purgeDelete" \in Steps /\ c.work \ {k} \in SUBSET Keys /\ k \in Keys
      BY <1>3, <1>4 DEF Steps
    <3> HIDE DEF c
    <3>2. QED
      BY <1>2, <3>1, WorkChanges
  <2>3. /\ hit.pc = "purgeDelete" /\ hit.op = c.op /\ hit.prof = c.prof
        /\ hit.host = c.host /\ hit.api = c.api /\ hit.work = c.work \ {k} /\ hit.key = k
        /\ hit.shown = c.shown
    BY <1>2 DEF CallStates
  <2> HIDE DEF hit
  <2>4. CallCoherent(hit)
    BY <1>1, <1>2, <1>3, <2>1, <2>3 DEF CallCoherent, RequestCoherent, TargetCoherent,
       HeldCoherent, WorkCoherent, ServedCoherent, Served
  <2>5. QED
    BY <1>1, <1>5, <1>7, <2>2, <2>4, MoveStep
<1>8. QED
  BY <1>4, <1>6, <1>7

-----------------------------------------------------------------------------
(* ListCachedTokens                                                        *)

LEMMA ListStartStep ==
    ASSUME IInv, NEW r \in Calls, NEW p \in Profiles, ListStart(r, p)
    PROVE  IInv'
<1> DEFINE c == [NewCall("list", p, None) EXCEPT !.pc = "listTokens"]
<1>1. Arrive(r, c)
  BY DEF ListStart
<1>2. c \in CallStates
  BY NamesAssumption, TimeAssumption DEF NewCall, Idle, CallStates, Steps, Outcomes, RPCs
<1>3. CallCoherent(call[r])'
  <2>1. call'[r] = c
    BY <1>1, SlotFacts DEF Arrive
  <2>2. QED
    BY <2>1, NamesAssumption DEF NewCall, Idle, Served, CallCoherent, RequestCoherent,
         TargetCoherent, HeldCoherent, WorkCoherent, ServedCoherent
<1>4. QED
  BY <1>1, <1>2, <1>3, ArriveStep

LEMMA ListTokensStep ==
    ASSUME IInv, NEW r \in Calls, ListTokens(r)
    PROVE  IInv'
<1> DEFINE c == call[r]
           d == [c EXCEPT !.work = Listed(c.prof), !.pc = "listGet"]
<1>1. /\ c.pc = "listTokens" /\ UNCHANGED <<now, granted>>
      /\ \/ ReadOk /\ Become(r, d)
         \/ ReadFails(r) /\ Finish(r, "error")
  BY DEF ListTokens
<1>2. /\ StoreType' /\ StoreCoherent'
      /\ disturbed' \subseteq Calls /\ faulted' \subseteq Calls
  BY <1>1, ReadStep
<1>3. CASE Finish(r, "error")
  BY <1>1, <1>2, <1>3, FinishStep
<1>4. CASE Become(r, d)
  <2>1. c \in CallStates /\ CallCoherent(c)
    BY SlotFacts
  <2>2. d \in CallStates
    <3>1. "listGet" \in Steps
      BY DEF Steps
    <3> HIDE DEF c
    <3>2. QED
      BY <2>1, <3>1, ListedFacts DEF CallStates
  <2>3. /\ d.pc = "listGet" /\ d.op = c.op /\ d.prof = c.prof /\ d.host = c.host
        /\ d.api = c.api /\ d.work = Listed(c.prof) /\ d.shown = c.shown
    BY <2>1 DEF CallStates
  <2>4. CallCoherent(d)
    <3>1. \A k \in d.work : k.prof = d.prof
      BY <2>3, ListedFacts
    <3> HIDE DEF d
    <3>2. QED
      BY <1>1, <2>1, <2>3, <3>1 DEF CallCoherent, RequestCoherent, TargetCoherent,
         HeldCoherent, WorkCoherent, ServedCoherent, Served
  <2>5. QED
    BY <1>1, <1>2, <1>4, <2>2, <2>4, MoveStep
<1>5. QED
  BY <1>1, <1>3, <1>4

LEMMA ListGetStep ==
    ASSUME IInv, NEW r \in Calls, ListGet(r)
    PROVE  IInv'
<1> DEFINE c == call[r]
<1>1. c.pc = "listGet" /\ UNCHANGED <<now, granted>>
  BY DEF ListGet
<1>2. c \in CallStates /\ CallCoherent(c)
  BY SlotFacts
<1>3. c.work \in SUBSET Keys /\ \A q \in c.work : q.prof = c.prof
  BY <1>2 DEF CallStates, CallCoherent, WorkCoherent
<1>4. c.shown \in SUBSET Entries /\ \A x \in c.shown : x.tok.prof = c.prof
  BY <1>2 DEF CallStates, CallCoherent, WorkCoherent
<1>5. PICK k \in c.work :
        LET skip == [c EXCEPT !.work = c.work \ {k}]
            hit  == [c EXCEPT !.work = c.work \ {k}, !.shown =
                       IF IsEntry(store[k]) THEN c.shown \cup {store[k]} ELSE c.shown]
        IN  /\ ReadOk \/ ReadFails(r)
            /\ Become(r, skip) \/ Become(r, hit)
  BY DEF ListGet
<1> DEFINE skip == [c EXCEPT !.work = c.work \ {k}]
           more == IF IsEntry(store[k]) THEN c.shown \cup {store[k]} ELSE c.shown
           hit  == [c EXCEPT !.work = c.work \ {k}, !.shown = more]
<1>6. /\ StoreType' /\ StoreCoherent'
      /\ disturbed' \subseteq Calls /\ faulted' \subseteq Calls
  BY <1>1, <1>5, ReadStep
<1>7. CASE Become(r, skip)
  <2>1. skip \in CallStates /\ CallCoherent(skip)
    BY <1>1, <1>3, WorkStep
  <2>2. QED
    BY <1>1, <1>6, <1>7, <2>1, MoveStep
<1>8. CASE Become(r, hit)
  <2>1. more \in SUBSET Entries /\ \A x \in more : x.tok.prof = c.prof
    <3>1. CASE IsEntry(store[k])
      <4>1. k \in Keys /\ k.prof = c.prof
        BY <1>3, <1>5
      <4>2. /\ store[k] \in Entries
            /\ store[k].tok = [iss |-> k.api, sub |-> k.sa, prof |-> k.prof]
        BY <3>1, <4>1, EntryKey
      <4>3. store[k].tok.prof = c.prof
        BY <4>1, <4>2
      <4>4. QED
        BY <1>4, <3>1, <4>2, <4>3
    <3>2. CASE ~IsEntry(store[k])
      BY <1>4, <3>2
    <3>3. QED
      BY <3>1, <3>2
  <2> HIDE DEF more
  <2>2. hit \in CallStates
    <3>1. c.work \ {k} \in SUBSET Keys
      BY <1>3
    <3> HIDE DEF c
    <3>2. QED
      BY <1>2, <2>1, <3>1 DEF CallStates
  <2>3. /\ hit.pc = "listGet" /\ hit.op = c.op /\ hit.prof = c.prof
        /\ hit.host = c.host /\ hit.work = c.work \ {k} /\ hit.shown = more
    BY <1>1, <1>2 DEF CallStates
  <2> HIDE DEF hit
  <2>4. CallCoherent(hit)
    BY <1>1, <1>2, <1>3, <2>1, <2>3 DEF CallCoherent, RequestCoherent, TargetCoherent,
       HeldCoherent, WorkCoherent, ServedCoherent, Served
  <2>5. QED
    BY <1>1, <1>6, <1>8, <2>2, <2>4, MoveStep DEF hit
<1>9. QED
  BY <1>5, <1>7, <1>8

LEMMA ListReturnStep ==
    ASSUME IInv, NEW r \in Calls, ListReturn(r)
    PROVE  IInv'
  BY QuietStep, FinishStep DEF ListReturn

-----------------------------------------------------------------------------
(* GetStatus and GetToken                                                  *)

\* Serving an entry that was filed for what the call asks for.
LEMMA ServeStep ==
    ASSUME IInv, NEW r \in Calls, NEW out \in {"token", "authenticated"},
           NEW e \in Entries, Serve(r, out, e), UNCHANGED <<now, granted>>,
           call[r].prof \in Profiles,
           call[r].api \in Clusters,
           RequestedServer(call[r].host) \in {None, call[r].api},
           e.tok = [iss |-> call[r].api, sub |-> call[r].sa, prof |-> call[r].prof],
           <<call[r].prof, call[r].api>> \in granted,
           StoreType', StoreCoherent',
           disturbed' \subseteq Calls, faulted' \subseteq Calls
    PROVE  IInv'
<1> DEFINE c == call[r]
           d == ServedSlot(c.op, c.prof, c.host, c.sa, c.api, out, e)
<1>1. Become(r, d)
  BY DEF Serve, ServedSlot
<1>2. c \in CallStates
  BY SlotFacts
<1>3. d \in CallStates
  <2>1. /\ c.op \in RPCs \cup {"none"} /\ c.prof \in Profiles \cup {None}
        /\ c.host \in Hostnames \cup {None} /\ c.sa \in ServiceAccounts \cup {None}
        /\ c.api \in Clusters \cup {None} /\ out \in Outcomes
    BY <1>2 DEF CallStates, Outcomes
  <2> HIDE DEF c
  <2>2. QED
    BY <2>1, ServedType
<1>4. /\ d.pc = "done" /\ d.host = c.host /\ d.prof = c.prof /\ d.sa = c.sa
      /\ d.api = c.api /\ d.held = e /\ d.work = {}
        /\ d.op = c.op /\ d.shown = {}
  BY DEF Idle, ServedSlot
<1> HIDE DEF d
<1>5. CallCoherent(d)
  BY <1>4 DEF CallCoherent, RequestCoherent, TargetCoherent, HeldCoherent,
     WorkCoherent, ServedCoherent
<1>6. QED
  BY <1>1, <1>3, <1>5, MoveStep

\* What a call that looks up a token knows.
LEMMA LookupFacts ==
    ASSUME IInv, NEW r \in Calls, call[r].pc \in UserSteps \cup SASteps
    PROVE  /\ call[r] \in CallStates /\ CallCoherent(call[r])
           /\ call[r].prof \in Profiles /\ call[r].api \in Clusters
           /\ RequestedServer(call[r].host) \in {None, call[r].api}
           /\ call[r].pc \in UserSteps => call[r].sa = None
           /\ call[r].pc \in SASteps =>
                call[r].sa \in ServiceAccounts /\ call[r].op = "token"
  BY SlotFacts DEF CallCoherent, RequestCoherent, TargetCoherent

\* A user token that is found is the one asked for.
LEMMA FoundUserToken ==
    ASSUME IInv, NEW p \in Profiles, NEW a \in Clusters, IsEntry(store[userTokenKey(p, a)])
    PROVE  /\ store[userTokenKey(p, a)] \in Entries
           /\ store[userTokenKey(p, a)] = UserEntry(p, a, store[userTokenKey(p, a)].exp)
           /\ store[userTokenKey(p, a)].tok = [iss |-> a, sub |-> None, prof |-> p]
           /\ <<p, a>> \in granted
<1> DEFINE k == userTokenKey(p, a)
<1>1. k \in Keys /\ k.kind = "user" /\ k.api = a /\ k.sa = None /\ k.prof = p
  BY KeyFacts DEF userTokenKey
<1>2. WellFiled(k, store[k])
  BY <1>1 DEF IInv, StoreCoherent
<1>3. /\ store[k] \in Entries /\ <<p, a>> \in granted
      /\ store[k].tok = [iss |-> a, sub |-> None, prof |-> p]
  BY <1>1, EntryKey
<1>4. store[k] = UserEntry(p, a, store[k].exp)
  BY <1>1, <1>2 DEF WellFiled, IsEntry, UserEntry
<1>5. QED
  BY <1>3, <1>4

\* A service-account token that is found is the one asked for.
LEMMA FoundSAToken ==
    ASSUME IInv, NEW p \in Profiles, NEW a \in Clusters, NEW s \in ServiceAccounts,
           IsEntry(store[saTokenKey(p, a, s)])
    PROVE  /\ store[saTokenKey(p, a, s)] \in Entries
           /\ store[saTokenKey(p, a, s)].tok = [iss |-> a, sub |-> s, prof |-> p]
           /\ <<p, a>> \in granted
<1> DEFINE k == saTokenKey(p, a, s)
<1>1. k \in Keys /\ k.api = a /\ k.sa = s /\ k.prof = p
  BY KeyFacts DEF saTokenKey
<1>2. QED
  BY <1>1, EntryKey

LEMMA ReadActiveStep ==
    ASSUME IInv, NEW r \in Calls, ReadActive(r)
    PROVE  IInv'
<1> DEFINE c == call[r]
           v == store[activeClusterKey(c.prof)]
           pc == IF c.op = "status" THEN "statusGet" ELSE FirstGet(c.sa, c.force)
<1>1. /\ c.pc = "readActive" /\ UNCHANGED <<now, granted>>
      /\ ReadOk \/ ReadFails(r)
      /\ Finish(r, NotServed(c.op)) \/ (v # None /\ Become(r, [c EXCEPT !.api = v, !.pc = pc]))
  BY DEF ReadActive
<1>2. /\ StoreType' /\ StoreCoherent'
      /\ disturbed' \subseteq Calls /\ faulted' \subseteq Calls
  BY <1>1, ReadStep
<1>3. c \in CallStates /\ CallCoherent(c)
  BY SlotFacts
<1>4. CASE Finish(r, NotServed(c.op))
  <2>1. NotServed(c.op) \in {"error", "unauthenticated"}
    BY DEF NotServed
  <2>2. QED
    BY <1>1, <1>2, <1>4, <2>1, FinishStep
<1>5. CASE v # None /\ Become(r, [c EXCEPT !.api = v, !.pc = pc])
  <2>1. /\ c.prof \in Profiles /\ RequestedServer(c.host) = None
        /\ c.op \in {"status", "token"} /\ (c.op = "status" => c.sa = None)
    BY <1>1, <1>3 DEF CallCoherent, RequestCoherent
  <2>2. v \in Clusters
    <3>1. activeClusterKey(c.prof) \in Keys /\ activeClusterKey(c.prof).kind = "active"
      BY <2>1, KeyFacts DEF activeClusterKey
    <3>2. WellFiled(activeClusterKey(c.prof), v)
      BY <3>1 DEF IInv, StoreCoherent
    <3>3. QED
      BY <1>5, <3>1, <3>2 DEF WellFiled
  <2>3. \/ pc = "statusGet" /\ c.sa = None /\ c.op = "status"
        \/ pc = "userGet" /\ c.sa = None /\ c.op = "token"
        \/ pc \in {"saGet", "bearerGet"} /\ c.sa \in ServiceAccounts /\ c.op = "token"
    <3>1. CASE c.op = "status"
      BY <2>1, <3>1
    <3>2. CASE c.op # "status"
      <4>1. c.force \in BOOLEAN /\ c.sa \in ServiceAccounts \cup {None}
        BY <1>3 DEF CallStates
      <4>2. None \notin ServiceAccounts
        BY NamesAssumption
      <4>3. \/ c.sa = None /\ FirstGet(c.sa, c.force) = "userGet"
            \/ c.sa \in ServiceAccounts /\ FirstGet(c.sa, c.force) \in {"bearerGet", "saGet"}
        BY <4>1, <4>2 DEF FirstGet
      <4>4. QED
        BY <2>1, <3>2, <4>3
    <3>3. QED
      BY <3>1, <3>2
  <2>4. [c EXCEPT !.api = v, !.pc = pc] \in CallStates
    <3>1. pc \in Steps
      BY <2>3 DEF Steps
    <3> HIDE DEF pc, c, v
    <3>2. QED
      BY <1>3, <2>2, <3>1 DEF CallStates
  <2> DEFINE e == [c EXCEPT !.api = v, !.pc = pc]
  <2>5. /\ e.pc = pc /\ e.op = c.op /\ e.prof = c.prof /\ e.host = c.host
        /\ e.api = v /\ e.sa = c.sa /\ e.work = c.work
        /\ e.shown = c.shown
    BY <1>3 DEF CallStates
  <2> HIDE DEF e, pc, v
  <2>6. CallCoherent(e)
    BY <1>3, <2>1, <2>2, <2>3, <2>5 DEF CallCoherent, RequestCoherent,
       TargetCoherent, HeldCoherent, WorkCoherent, ServedCoherent, Served
  <2>7. QED
    BY <1>1, <1>2, <1>5, <2>4, <2>6, MoveStep DEF e
<1>6. QED
  BY <1>1, <1>4, <1>5

LEMMA StatusGetStep ==
    ASSUME IInv, NEW r \in Calls, StatusGet(r)
    PROVE  IInv'
<1> DEFINE c == call[r]
           v == store[userTokenKey(c.prof, c.api)]
<1>1. /\ c.pc = "statusGet" /\ UNCHANGED <<now, granted>>
      /\ ReadOk \/ ReadFails(r)
      /\ \/ IsEntry(v) /\ Serve(r, "authenticated", v)
         \/ Finish(r, "unauthenticated")
  BY DEF StatusGet
<1>2. /\ StoreType' /\ StoreCoherent'
      /\ disturbed' \subseteq Calls /\ faulted' \subseteq Calls
  BY <1>1, ReadStep
<1>3. CASE Finish(r, "unauthenticated")
  BY <1>1, <1>2, <1>3, FinishStep
<1>4. CASE IsEntry(v) /\ Serve(r, "authenticated", v)
  <2>1. /\ c.prof \in Profiles /\ c.api \in Clusters /\ c.sa = None
        /\ RequestedServer(c.host) \in {None, c.api}
    BY <1>1, LookupFacts
  <2>2. /\ v \in Entries /\ v.tok = [iss |-> c.api, sub |-> c.sa, prof |-> c.prof]
        /\ <<c.prof, c.api>> \in granted
    BY <1>4, <2>1, FoundUserToken
  <2>3. QED
    BY <1>1, <1>2, <1>4, <2>1, <2>2, ServeStep
<1>5. QED
  BY <1>1, <1>3, <1>4

LEMMA UserGetStep ==
    ASSUME IInv, NEW r \in Calls, UserGet(r)
    PROVE  IInv'
<1> DEFINE c == call[r]
           v == store[userTokenKey(c.prof, c.api)]
<1>1. /\ c.pc = "userGet" /\ UNCHANGED <<now, granted>>
      /\ ReadOk \/ ReadFails(r)
      /\ (IsEntry(v) /\ Serve(r, "token", v)) \/ Finish(r, "error")
  BY DEF UserGet
<1>2. /\ StoreType' /\ StoreCoherent'
      /\ disturbed' \subseteq Calls /\ faulted' \subseteq Calls
  BY <1>1, ReadStep
<1>3. CASE Finish(r, "error")
  BY <1>1, <1>2, <1>3, FinishStep
<1>4. CASE IsEntry(v) /\ Serve(r, "token", v)
  <2>1. /\ c.prof \in Profiles /\ c.api \in Clusters /\ c.sa = None
        /\ RequestedServer(c.host) \in {None, c.api}
    BY <1>1, LookupFacts
  <2>2. /\ v \in Entries /\ v.tok = [iss |-> c.api, sub |-> c.sa, prof |-> c.prof]
        /\ <<c.prof, c.api>> \in granted
    BY <1>4, <2>1, FoundUserToken
  <2>3. QED
    BY <1>1, <1>2, <1>4, <2>1, <2>2, ServeStep
<1>5. QED
  BY <1>1, <1>3, <1>4

LEMMA SAGetStep ==
    ASSUME IInv, NEW r \in Calls, SAGet(r)
    PROVE  IInv'
<1> DEFINE c == call[r]
           v == store[saTokenKey(c.prof, c.api, c.sa)]
           d == [c EXCEPT !.pc = "bearerGet"]
<1>1. /\ c.pc = "saGet" /\ UNCHANGED <<now, granted>>
      /\ ReadOk \/ ReadFails(r)
      /\ (IsEntry(v) /\ Serve(r, "token", v)) \/ Become(r, d)
  BY DEF SAGet, Goto
<1>2. /\ StoreType' /\ StoreCoherent'
      /\ disturbed' \subseteq Calls /\ faulted' \subseteq Calls
  BY <1>1, ReadStep
<1>3. /\ c \in CallStates /\ CallCoherent(c)
      /\ c.prof \in Profiles /\ c.api \in Clusters /\ c.sa \in ServiceAccounts
      /\ c.op = "token" /\ RequestedServer(c.host) \in {None, c.api}
  BY <1>1, LookupFacts
<1>4. CASE Become(r, d)
  <2>1. d \in CallStates
    BY <1>3, SlotChanges DEF Steps
  <2>2. /\ d.pc = "bearerGet" /\ d.prof = c.prof /\ d.host = c.host
        /\ d.api = c.api /\ d.sa = c.sa /\ d.work = c.work
        /\ d.op = c.op /\ d.shown = c.shown
    BY <1>3 DEF CallStates
  <2> HIDE DEF d
  <2>3. CallCoherent(d)
    BY <1>3, <2>2 DEF CallCoherent, RequestCoherent, TargetCoherent, HeldCoherent,
       WorkCoherent, ServedCoherent, Served
  <2>4. QED
    BY <1>1, <1>2, <1>4, <2>1, <2>3, MoveStep
<1>5. CASE IsEntry(v) /\ Serve(r, "token", v)
  <2>1. /\ v \in Entries /\ v.tok = [iss |-> c.api, sub |-> c.sa, prof |-> c.prof]
        /\ <<c.prof, c.api>> \in granted
    BY <1>3, <1>5, FoundSAToken
  <2>2. QED
    BY <1>1, <1>2, <1>3, <1>5, <2>1, ServeStep
<1>6. QED
  BY <1>1, <1>4, <1>5

LEMMA BearerGetStep ==
    ASSUME IInv, NEW r \in Calls, BearerGet(r)
    PROVE  IInv'
<1> DEFINE c == call[r]
           v == store[userTokenKey(c.prof, c.api)]
           d == [c EXCEPT !.pc = "mint", !.held = v]
<1>1. /\ c.pc = "bearerGet" /\ UNCHANGED <<now, granted>>
      /\ ReadOk \/ ReadFails(r)
      /\ (IsEntry(v) /\ Become(r, d)) \/ Finish(r, "error")
  BY DEF BearerGet, Bearer
<1>2. /\ StoreType' /\ StoreCoherent'
      /\ disturbed' \subseteq Calls /\ faulted' \subseteq Calls
  BY <1>1, ReadStep
<1>3. CASE Finish(r, "error")
  BY <1>1, <1>2, <1>3, FinishStep
<1>4. CASE IsEntry(v) /\ Become(r, d)
  <2>1. /\ c \in CallStates /\ CallCoherent(c)
        /\ c.prof \in Profiles /\ c.api \in Clusters /\ c.sa \in ServiceAccounts
        /\ c.op = "token" /\ RequestedServer(c.host) \in {None, c.api}
    BY <1>1, LookupFacts
  <2>2. v \in Entries /\ v = UserEntry(c.prof, c.api, v.exp) /\ <<c.prof, c.api>> \in granted
    BY <1>4, <2>1, FoundUserToken
  <2>3. d \in CallStates
    <3>1. "mint" \in Steps
      BY DEF Steps
    <3> HIDE DEF c, v
    <3>2. QED
      BY <2>1, <2>2, <3>1, SlotChanges
  <2>4. /\ d.pc = "mint" /\ d.prof = c.prof /\ d.host = c.host
        /\ d.api = c.api /\ d.sa = c.sa /\ d.work = c.work /\ d.held = v
        /\ d.op = c.op /\ d.shown = c.shown
    BY <2>1 DEF CallStates
  <2> HIDE DEF d, v
  <2>5. CallCoherent(d)
    BY <2>1, <2>2, <2>4 DEF CallCoherent, RequestCoherent, TargetCoherent, HeldCoherent,
       WorkCoherent, ServedCoherent, Served
  <2>6. QED
    BY <1>1, <1>2, <1>4, <2>3, <2>5, MoveStep DEF d
<1>5. QED
  BY <1>1, <1>3, <1>4

LEMMA MintSucceedsStep ==
    ASSUME IInv, NEW r \in Calls, MintSucceeds(r)
    PROVE  IInv'
<1> DEFINE c == call[r]
<1>1. /\ c.pc = "mint" /\ Mintable(c.sa)
      /\ UNCHANGED <<store, now, granted, disturbed, faulted>>
  BY DEF MintSucceeds
<1>2. /\ c \in CallStates /\ CallCoherent(c)
      /\ c.prof \in Profiles /\ c.api \in Clusters /\ c.sa \in ServiceAccounts
      /\ c.op = "token" /\ RequestedServer(c.host) \in {None, c.api}
  BY <1>1, LookupFacts
<1>3. /\ c.held = UserEntry(c.prof, c.api, c.held.exp)
      /\ <<c.prof, c.api>> \in granted /\ c.sa \notin InvalidNames
  BY <1>1, <1>2 DEF CallCoherent, HeldCoherent, Mintable
<1>4. c.held.tok.prof = c.prof
  BY <1>3 DEF UserEntry
<1>5. PICK l \in Lifetimes :
        Become(r, [c EXCEPT !.pc = "saCache",
                     !.held = SAEntry(c.prof, c.api, c.sa, ExpiryOf(now, l))])
  BY <1>4 DEF MintSucceeds
<1> DEFINE e == SAEntry(c.prof, c.api, c.sa, ExpiryOf(now, l))
           d == [c EXCEPT !.pc = "saCache", !.held = e]
<1>6. e \in Entries /\ e = SAEntry(c.prof, c.api, c.sa, e.exp)
  BY <1>2, ExpiryFacts, EntryFacts
<1>7. d \in CallStates
  <2>1. "saCache" \in Steps
    BY DEF Steps
  <2> HIDE DEF e, c
  <2>2. QED
    BY <1>2, <1>6, <2>1, SlotChanges
<1>8. CallCoherent(d)
  <2> HIDE DEF e
  <2>1. /\ d.pc = "saCache" /\ d.prof = c.prof /\ d.host = c.host
        /\ d.api = c.api /\ d.sa = c.sa /\ d.work = c.work /\ d.held = e
        /\ d.op = c.op /\ d.shown = c.shown
    BY <1>2 DEF CallStates
  <2> HIDE DEF d
  <2>2. QED
    BY <1>2, <1>3, <1>6, <2>1 DEF CallCoherent, RequestCoherent, TargetCoherent,
       HeldCoherent, WorkCoherent, ServedCoherent, Served
<1>9. /\ StoreType' /\ StoreCoherent'
      /\ disturbed' \subseteq Calls /\ faulted' \subseteq Calls
  BY <1>1, QuietStep
<1>10. QED
  BY <1>1, <1>5, <1>7, <1>8, <1>9, MoveStep

LEMMA MintFailsStep ==
    ASSUME IInv, NEW r \in Calls, MintFails(r)
    PROVE  IInv'
  BY QuietStep, FinishStep DEF MintFails

LEMMA SACacheStep ==
    ASSUME IInv, NEW r \in Calls, SACache(r)
    PROVE  IInv'
<1> DEFINE c == call[r]
           k == saTokenKey(c.prof, c.api, c.sa)
<1>1. /\ c.pc = "saCache" /\ Serve(r, "token", c.held) /\ UNCHANGED <<now, granted>>
      /\ WriteOk(r, k, c.held) \/ WriteFails(r, k, c.held)
  BY DEF SACache
<1>2. /\ CallCoherent(c)
      /\ c.prof \in Profiles /\ c.api \in Clusters /\ c.sa \in ServiceAccounts
      /\ RequestedServer(c.host) \in {None, c.api}
  BY <1>1, LookupFacts
<1>3. /\ c.held = SAEntry(c.prof, c.api, c.sa, c.held.exp) /\ c.held \in Entries
      /\ <<c.prof, c.api>> \in granted /\ c.sa \notin InvalidNames
  BY <1>1, <1>2 DEF CallCoherent, HeldCoherent
<1>4. c.held.tok = [iss |-> c.api, sub |-> c.sa, prof |-> c.prof]
  BY <1>3 DEF SAEntry
<1>5. k \in Keys /\ WellFiled(k, c.held)
  <2>1. IsEntry(c.held)
    BY <1>3, EntriesAssumption DEF IsEntry
  <2>2. QED
    BY <1>2, <1>3, <2>1, KeyFacts DEF WellFiled, saTokenKey, SAEntry
<1>6. /\ StoreType' /\ StoreCoherent'
      /\ disturbed' \subseteq Calls /\ faulted' \subseteq Calls
  BY <1>1, <1>3, <1>5, WriteStep
<1>7. QED
  BY <1>1, <1>2, <1>3, <1>4, <1>6, ServeStep

-----------------------------------------------------------------------------
(* The invariant                                                           *)

LEMMA AbandonStep ==
    ASSUME IInv, NEW r \in Calls, Abandon(r)
    PROVE  IInv'
<1>1. /\ Become(r, Idle) /\ UNCHANGED <<store, now, granted>>
      /\ disturbed' \subseteq Calls /\ faulted' \subseteq Calls
  BY DEF Abandon, IInv, TypeOK
<1>2. Idle \in CallStates
  BY ReturnedType DEF Outcomes
<1>3. CallCoherent(Idle)
  BY DEF Idle, CallCoherent, RequestCoherent, TargetCoherent, HeldCoherent,
     WorkCoherent, ServedCoherent, Served
<1>4. StoreType' /\ StoreCoherent'
  BY <1>1, StoreKept
<1>5. QED
  BY <1>1, <1>2, <1>3, <1>4, MoveStep

\* Nothing but the clock changes, and it stays within its bound.
LEMMA UnchangedStep ==
    ASSUME IInv, UNCHANGED <<store, call, granted, disturbed, faulted>>,
           now' \in 1..MaxTime
    PROVE  IInv'
<1>1. TypeOK'
  BY DEF IInv, TypeOK
<1>2. StoreCoherent'
  BY DEF IInv, StoreCoherent, WellFiled
<1>3. ASSUME NEW q \in Calls PROVE CallCoherent(call[q])'
  BY DEF IInv, CallCoherent, RequestCoherent, TargetCoherent, HeldCoherent,
     WorkCoherent, ServedCoherent, Served
<1>4. QED
  BY <1>1, <1>2, <1>3 DEF IInv

LEMMA TickStep == ASSUME IInv, Tick PROVE IInv'
<1>1. now' \in 1..MaxTime
  BY TimeAssumption DEF Tick, IInv, TypeOK
<1>2. QED
  BY <1>1, UnchangedStep DEF Tick

LEMMA RequestStep ==
    ASSUME IInv, NEW r \in Calls, Request(r)
    PROVE  IInv'
<1>1. PICK p \in Profiles, h \in Hostnames \cup {None} :
        \/ LoginStart(r, p, h)
        \/ LogoutStart(r, p, h)
        \/ StatusStart(r, p, h)
        \/ \E s \in ServiceAccounts \cup {None}, min \in MinValids, force \in BOOLEAN :
             TokenStart(r, p, h, s, min, force)
        \/ ListStart(r, p)
        \/ PurgeStart(r, p)
  BY DEF Request
<1>2. CASE LoginStart(r, p, h)
  BY <1>2, LoginStartStep
<1>3. CASE LogoutStart(r, p, h)
  BY <1>3, LogoutStartStep
<1>4. CASE StatusStart(r, p, h)
  BY <1>4, StatusStartStep
<1>5. CASE \E s \in ServiceAccounts \cup {None}, min \in MinValids, force \in BOOLEAN :
             TokenStart(r, p, h, s, min, force)
  BY <1>5, TokenStartStep
<1>6. CASE PurgeStart(r, p)
  BY <1>6, PurgeStartStep
<1>7. CASE ListStart(r, p)
  BY <1>7, ListStartStep
<1>8. QED
  BY <1>1, <1>2, <1>3, <1>4, <1>5, <1>6, <1>7

LEMMA ProceedStep ==
    ASSUME IInv, NEW r \in Calls, Proceed(r)
    PROVE  IInv'
  BY DiscoverStep, WebLoginSucceedsStep, WebLoginFailsStep, WhoamiStep,
     LoginCacheTokenStep, LoginSetActiveStep, LogoutListStep, ClearAllDeleteStep, ClearClusterGetStep, ClearClusterDeleteStep,
     LogoutReturnStep, ReadActiveStep, StatusGetStep, UserGetStep, SAGetStep,
     BearerGetStep, MintSucceedsStep, MintFailsStep, SACacheStep,
     ListTokensStep, ListGetStep, ListReturnStep, PurgeListStep, PurgeGetStep, PurgeDeleteStep, PurgeReturnStep
  DEF Proceed

LEMMA InitIInv == Init => IInv
<1> SUFFICES ASSUME Init PROVE IInv
  OBVIOUS
<1>1. Idle \in CallStates
  BY ReturnedType DEF Outcomes
<1>2. TypeOK
  BY <1>1, TimeAssumption DEF Init, TypeOK
<1>3. StoreCoherent
  BY DEF Init, StoreCoherent, WellFiled
<1>4. CallCoherent(Idle)
  BY DEF Idle, CallCoherent, RequestCoherent, TargetCoherent, HeldCoherent,
     WorkCoherent, ServedCoherent, Served
<1>5. QED
  BY <1>2, <1>3, <1>4 DEF Init, IInv

LEMMA NextIInv == IInv /\ [Next]_vars => IInv'
<1> SUFFICES ASSUME IInv, [Next]_vars PROVE IInv'
  OBVIOUS
<1>1. ASSUME NEW r \in Calls, Request(r) \/ Proceed(r) \/ Abandon(r) PROVE IInv'
  BY <1>1, RequestStep, ProceedStep, AbandonStep
<1>2. CASE Tick
  BY <1>2, TickStep
<1>3. CASE UNCHANGED vars
  BY <1>3, UnchangedStep DEF vars, IInv, TypeOK
<1>4. QED
  BY <1>1, <1>2, <1>3 DEF Next

\* The inductive invariant holds of every reachable state of the auth handler
\* (auth_handler.go:91-346 over cache.go:76-250), for every value of the
\* constants: whatever its calls are doing, each of them carries only what its
\* request entitles it to, and the store holds only what was filed for its owner.
THEOREM Invariance == Spec => []IInv
<1>1. Init => IInv
  BY InitIInv
<1>2. IInv /\ [Next]_vars => IInv'
  BY NextIInv
<1>3. QED
  BY <1>1, <1>2, PTL DEF Spec

\* Every variable of the auth handler stays of its type: in particular a key
\* about to be deleted is a key, and what is stored is an entry, a cluster or
\* nothing (cache.go:33-45).
THEOREM TypeCorrect == Spec => []TypeOK
<1>1. IInv => TypeOK
  BY DEF IInv
<1>2. QED
  BY <1>1, Invariance, PTL

\* What a profile's, cluster's and account's key leads to was filed for them and
\* is the token it says it is (cache.go:47-66).
THEOREM FiledCorrectly == Spec => []FiledForItsOwner
<1>1. ASSUME IInv PROVE FiledForItsOwner
  <2>1. ASSUME NEW p \in Profiles, NEW a \in Clusters
        PROVE  LET v == store[userTokenKey(p, a)]
               IN  v # None => IsEntry(v) /\ v = UserEntry(p, a, v.exp)
    <3>1. WellFiled(userTokenKey(p, a), store[userTokenKey(p, a)])
      BY <1>1, KeyFacts DEF IInv, StoreCoherent
    <3>2. QED
      BY <3>1 DEF WellFiled, userTokenKey, UserEntry
  <2>2. ASSUME NEW p \in Profiles, NEW a \in Clusters, NEW s \in ServiceAccounts
        PROVE  LET v == store[saTokenKey(p, a, s)]
               IN  v # None => /\ IsEntry(v) /\ v = SAEntry(p, a, s, v.exp)
                               /\ s \notin InvalidNames
    <3>1. WellFiled(saTokenKey(p, a, s), store[saTokenKey(p, a, s)])
      BY <1>1, KeyFacts DEF IInv, StoreCoherent
    <3>2. QED
      BY <3>1 DEF WellFiled, saTokenKey, SAEntry
  <2>3. QED
    BY <2>1, <2>2 DEF FiledForItsOwner
<1>2. QED
  BY <1>1, Invariance, PTL

\* A cluster's tokens are found under a profile only after that profile's login
\* there (auth_handler.go:127-157).
THEOREM HeldAfterLogin == Spec => []HeldOnlyAfterLogin
<1>1. ASSUME IInv PROVE HeldOnlyAfterLogin
  <2>1. ASSUME NEW p \in Profiles, NEW a \in Clusters, store[userTokenKey(p, a)] # None
        PROVE  <<p, a>> \in granted
    <3>1. WellFiled(userTokenKey(p, a), store[userTokenKey(p, a)])
      BY <1>1, KeyFacts DEF IInv, StoreCoherent
    <3>2. QED
      BY <2>1, <3>1 DEF WellFiled, userTokenKey
  <2>2. ASSUME NEW p \in Profiles, NEW a \in Clusters, NEW s \in ServiceAccounts,
               store[saTokenKey(p, a, s)] # None
        PROVE  <<p, a>> \in granted
    <3>1. WellFiled(saTokenKey(p, a, s), store[saTokenKey(p, a, s)])
      BY <1>1, KeyFacts DEF IInv, StoreCoherent
    <3>2. QED
      BY <2>2, <3>1 DEF WellFiled, saTokenKey
  <2>3. QED
    BY <2>1, <2>2 DEF HeldOnlyAfterLogin
<1>2. QED
  BY <1>1, Invariance, PTL

\* Whatever interleaves, a token served or a session reported is the profile's,
\* the account's and the selected cluster's (auth_handler.go:254-331).
THEOREM ServedCorrectly == Spec => []ServedAsRequested
<1>1. ASSUME IInv, NEW r \in Calls, Served(call[r])
      PROVE  /\ call[r].held.tok =
                  [iss |-> call[r].api, sub |-> call[r].sa, prof |-> call[r].prof]
             /\ Selects(call[r].host, call[r].api)
             /\ <<call[r].prof, call[r].api>> \in granted
  <2>1. ServedCoherent(call[r])
    BY <1>1 DEF IInv, CallCoherent
  <2>2. Selects(call[r].host, call[r].api)
    BY <1>1, <2>1 DEF ServedCoherent, RequestedServer, Selects
  <2>3. QED
    BY <1>1, <2>1, <2>2 DEF ServedCoherent
<1>2. IInv => ServedAsRequested
  BY <1>1 DEF ServedAsRequested
<1>3. QED
  BY <1>2, Invariance, PTL

\* A bearer is sent to no cluster but the one that issued it
\* (auth_handler.go:137, 308-322).
THEOREM BearerCorrect == Spec => []BearerStaysHome
<1>1. ASSUME IInv, NEW r \in Calls, call[r].pc \in {"whoami", "mint"}
      PROVE  call[r].held.tok
               = [iss |-> call[r].api, sub |-> None, prof |-> call[r].prof]
  <2>1. call[r].held = UserEntry(call[r].prof, call[r].api, call[r].held.exp)
    BY <1>1 DEF IInv, CallCoherent, HeldCoherent
  <2>2. QED
    BY <2>1 DEF UserEntry
<1>2. IInv => BearerStaysHome
  BY <1>1 DEF BearerStaysHome
<1>3. QED
  BY <1>2, Invariance, PTL

-----------------------------------------------------------------------------
(* Removals                                                                *)

\* A write removes no secret but its own, and that only by deleting it.
LEMMA RemovedByWrite ==
    ASSUME IInv, NEW r \in Calls, NEW q \in Keys, NEW v, NEW k \in Keys, Removed(k),
           WriteOk(r, q, v) \/ WriteFails(r, q, v)
    PROVE  k = q /\ v = None
  BY DEF IInv, TypeOK, Removed, WriteOk, WriteFails, Write

\* What a delete removes, its call may remove.
LEMMA DeletingStep ==
    ASSUME IInv, NEW r \in Calls, NEW k \in Keys, Removed(k),
           ClearAllDelete(r) \/ ClearClusterDelete(r) \/ PurgeDelete(r)
    PROVE  MayRemove(r, k)
<1> DEFINE c == call[r]
<1>1. c \in CallStates /\ CallCoherent(c)
  BY SlotFacts
<1>2. CASE ClearAllDelete(r)
  <2>1. PICK q \in c.work :
          /\ WriteOk(r, q, None) \/ WriteFails(r, q, None)
          /\ Become(r, [c EXCEPT !.work = c.work \ {q}])
    BY <1>2 DEF ClearAllDelete
  <2>2. q \in Keys /\ q.prof = c.prof
    BY <1>1, <2>1 DEF CallStates, CallCoherent, WorkCoherent
  <2>3. k = q
    BY <2>1, <2>2, RemovedByWrite
  <2>4. c.pc = "clearAll" /\ c.op = "logout" /\ c.host = None
    BY <1>1, <1>2 DEF ClearAllDelete, CallCoherent, RequestCoherent
  <2>5. call'[r].work = c.work \ {q}
    BY <1>1, <2>1, SlotFacts DEF CallStates
  <2>6. call'[r] # c
    BY <2>1, <2>5
  <2>7. QED
    BY <2>2, <2>3, <2>4, <2>6 DEF MayRemove, InProgress
<1>3. CASE ClearClusterDelete(r)
  <2>1. /\ c.pc = "clusterDelete"
        /\ WriteOk(r, c.key, None) \/ WriteFails(r, c.key, None)
        /\ Become(r, [c EXCEPT !.pc = "clusterGet", !.key = None])
    BY <1>3 DEF ClearClusterDelete
  <2>2. /\ c.key \in UserKeys \cup SAKeys /\ c.key.prof = c.prof /\ c.key.api = c.api
        /\ c.op = "logout" /\ c.host # None /\ Resolved[c.host] = c.api
    BY <1>1, <2>1 DEF CallCoherent, RequestCoherent, WorkCoherent
  <2>3. c.key \in Keys /\ c.key.kind # "active"
    BY <2>2, KeyShape
  <2>4. k = c.key
    BY <2>1, <2>3, RemovedByWrite
  <2>5. call'[r].pc # c.pc
    <3>1. call'[r] = [c EXCEPT !.pc = "clusterGet", !.key = None]
      BY <2>1, SlotFacts
    <3>2. call'[r].pc = "clusterGet"
      BY <1>1, <3>1 DEF CallStates
    <3>3. QED
      BY <2>1, <3>2
  <2>6. IsEntry(store[k])
    <3>1. WellFiled(k, store[k]) /\ store[k] # None
      BY DEF IInv, StoreCoherent, Removed
    <3>2. QED
      BY <2>3, <2>4, <3>1 DEF WellFiled
  <2>7. store[k].tok.iss = k.api
    <3>1. store[k].tok = [iss |-> k.api, sub |-> k.sa, prof |-> k.prof]
      BY <2>6, EntryKey
    <3>2. QED
      BY <3>1
  <2>8. QED
    BY <2>1, <2>2, <2>4, <2>5, <2>6, <2>7 DEF MayRemove, InProgress
<1>4. CASE PurgeDelete(r)
  <2>1. /\ c.pc = "purgeDelete"
        /\ WriteOk(r, c.key, None) \/ WriteFails(r, c.key, None)
        /\ Become(r, [c EXCEPT !.pc = "purgeGet", !.key = None])
    BY <1>4 DEF PurgeDelete
  <2>2. c.key \in UserKeys \cup SAKeys /\ c.key.prof = c.prof /\ c.op = "purge"
    BY <1>1, <2>1 DEF CallCoherent, RequestCoherent, WorkCoherent
  <2>3. c.key \in Keys /\ c.key.kind # "active"
    BY <2>2, KeyShape
  <2>4. k = c.key
    BY <2>1, <2>3, RemovedByWrite
  <2>5. call'[r].pc # c.pc
    <3>1. call'[r] = [c EXCEPT !.pc = "purgeGet", !.key = None]
      BY <2>1, SlotFacts
    <3>2. call'[r].pc = "purgeGet"
      BY <1>1, <3>1 DEF CallStates
    <3>3. QED
      BY <2>1, <3>2
  <2>6. IsEntry(store[k])
    <3>1. WellFiled(k, store[k]) /\ store[k] # None
      BY DEF IInv, StoreCoherent, Removed
    <3>2. QED
      BY <2>3, <2>4, <3>1 DEF WellFiled
  <2>7. QED
    BY <2>1, <2>2, <2>4, <2>5, <2>6 DEF MayRemove, InProgress
<1>5. QED
  BY <1>2, <1>3, <1>4

\* The steps that cache something remove nothing.
LEMMA CachingStep ==
    ASSUME IInv, NEW r \in Calls, NEW k \in Keys,
           LoginCacheToken(r) \/ LoginSetActive(r) \/ SACache(r)
    PROVE  ~Removed(k)
<1> DEFINE c == call[r]
<1>1. CallCoherent(c)
  BY SlotFacts
<1>2. None \notin Clusters /\ None \notin Entries
  BY NamesAssumption, EntriesAssumption
<1>3. CASE LoginCacheToken(r)
  <2>1. c.held \in Entries /\ c.prof \in Profiles /\ c.api \in Clusters
    BY <1>1, <1>3 DEF LoginCacheToken, CallCoherent, RequestCoherent, TargetCoherent,
       HeldCoherent
  <2>2. QED
    BY <1>2, <1>3, <2>1, KeyFacts, RemovedByWrite DEF LoginCacheToken
<1>4. CASE LoginSetActive(r)
  <2>1. c.prof \in Profiles /\ c.api \in Clusters
    BY <1>1, <1>4 DEF LoginSetActive, CallCoherent, RequestCoherent, TargetCoherent
  <2>2. QED
    BY <1>2, <1>4, <2>1, KeyFacts, RemovedByWrite DEF LoginSetActive
<1>5. CASE SACache(r)
  <2>1. /\ c.held \in Entries /\ c.prof \in Profiles /\ c.api \in Clusters
        /\ c.sa \in ServiceAccounts
    BY <1>1, <1>5 DEF SACache, CallCoherent, RequestCoherent, TargetCoherent, HeldCoherent
  <2>2. QED
    BY <1>2, <1>5, <2>1, KeyFacts, RemovedByWrite DEF SACache
<1>6. QED
  BY <1>3, <1>4, <1>5

\* The other steps leave the store alone.
LEMMA StoreUntouched ==
    ASSUME NEW r \in Calls,
           \/ Request(r) \/ Abandon(r)
           \/ Discover(r) \/ WebLoginSucceeds(r) \/ WebLoginFails(r) \/ Whoami(r)
           \/ LogoutList(r) \/ ClearClusterGet(r) \/ LogoutReturn(r)
           \/ ReadActive(r) \/ StatusGet(r) \/ UserGet(r) \/ SAGet(r)
           \/ BearerGet(r) \/ MintSucceeds(r) \/ MintFails(r)
           \/ ListTokens(r) \/ ListGet(r) \/ ListReturn(r)
           \/ PurgeList(r) \/ PurgeGet(r) \/ PurgeReturn(r)
    PROVE  UNCHANGED store
<1>1. CASE Request(r)
  <2>1. ASSUME NEW c, Arrive(r, c) PROVE UNCHANGED store
    BY <2>1 DEF Arrive
  <2>2. ASSUME NEW p, NEW h, LoginStart(r, p, h) PROVE UNCHANGED store
    BY <2>2, <2>1 DEF LoginStart
  <2>3. ASSUME NEW p, NEW h, LogoutStart(r, p, h) PROVE UNCHANGED store
    BY <2>3, <2>1 DEF LogoutStart
  <2>4. ASSUME NEW p, NEW h, StatusStart(r, p, h) PROVE UNCHANGED store
    BY <2>4, <2>1 DEF StatusStart
  <2>5. ASSUME NEW p, NEW h, NEW s, NEW min, NEW force, TokenStart(r, p, h, s, min, force)
        PROVE  UNCHANGED store
    BY <2>5, <2>1 DEF TokenStart
  <2>6. ASSUME NEW p, PurgeStart(r, p) PROVE UNCHANGED store
    BY <2>6, <2>1 DEF PurgeStart
  <2>7. ASSUME NEW p, ListStart(r, p) PROVE UNCHANGED store
    BY <2>7, <2>1 DEF ListStart
  <2>8. QED
    BY <1>1, <2>2, <2>3, <2>4, <2>5, <2>6, <2>7 DEF Request
<1>2. CASE \/ Abandon(r) \/ Discover(r) \/ WebLoginSucceeds(r) \/ WebLoginFails(r)
           \/ Whoami(r) \/ LogoutReturn(r) \/ MintSucceeds(r) \/ MintFails(r)
           \/ ListReturn(r) \/ PurgeReturn(r)
  BY <1>2 DEF Abandon, Discover, WebLoginSucceeds, WebLoginFails, Whoami, LogoutReturn,
     MintSucceeds, MintFails, ListReturn, PurgeReturn
<1>3. CASE \/ LogoutList(r) \/ ClearClusterGet(r) \/ ListTokens(r) \/ ListGet(r)
           \/ PurgeList(r) \/ PurgeGet(r)
  BY <1>3 DEF LogoutList, ClearClusterGet, ListTokens, ListGet, PurgeList, PurgeGet,
     ReadOk, ReadFails
<1>4. CASE \/ ReadActive(r) \/ StatusGet(r) \/ UserGet(r) \/ SAGet(r) \/ BearerGet(r)
  BY <1>4 DEF ReadActive, StatusGet, UserGet, SAGet, BearerGet, ReadOk, ReadFails
<1>5. QED
  BY <1>1, <1>2, <1>3, <1>4

\* No step takes a secret from a profile or a cluster that was not asked to give
\* it up, even though what is tested and what is deleted are read at different
\* times (cache.go:138-250).
THEOREM RemovalsScoped == Spec => RemovalsAreScoped
<1>1. ASSUME IInv, [Next]_vars, NEW k \in Keys, Removed(k)
      PROVE  \E r \in Calls : MayRemove(r, k)
  <2>1. ~UNCHANGED store
    BY <1>1 DEF Removed
  <2>2. PICK r \in Calls : Request(r) \/ Proceed(r) \/ Abandon(r)
    BY <1>1, <2>1 DEF Next, Tick, vars
  <2>3. \/ ClearAllDelete(r) \/ ClearClusterDelete(r) \/ PurgeDelete(r)
        \/ LoginCacheToken(r) \/ LoginSetActive(r) \/ SACache(r)
    BY <2>1, <2>2, StoreUntouched DEF Proceed
  <2>4. QED
    BY <1>1, <2>3, DeletingStep, CachingStep
<1>2. IInv /\ [Next]_vars
        => [\A k \in Keys : Removed(k) => \E r \in Calls : MayRemove(r, k)]_vars
  BY <1>1
<1>3. QED
  BY <1>2, Invariance, PTL DEF Spec, RemovalsAreScoped
=============================================================================
