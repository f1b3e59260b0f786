---------------------- MODULE AuthHandlerProgressProofs ----------------------
(***************************************************************************)
(* What the progress of an RPC rests on: its own steps always bring it     *)
(* nearer to its end, whatever fails and whatever other calls do, and it   *)
(* can come nearer only so often.  That it takes its next step is the      *)
(* fairness of FairSpec and stays with TLC.                                *)
(***************************************************************************)
EXTENDS AuthHandlerQuietProofs, WellFoundedInduction, FiniteSetTheorems

-----------------------------------------------------------------------------
(* A step of a call                                                        *)

\* A call that returns is at its end.
LEMMA EndAdvances ==
    ASSUME NEW c, c.pc \in Steps \ {"idle", "done"}, NEW d, d.pc \in {"idle", "done"}
    PROVE  Advances(c, d)
  BY DEF Advances, StagesLeft, Steps

LEMMA ReturnAdvances ==
    ASSUME IInv, NEW r \in Calls, InProgress(r)
    PROVE  /\ \A out : Finish(r, out) => Advances(call[r], call'[r])
           /\ \A out, e : Serve(r, out, e) => Advances(call[r], call'[r])
<1>1. call[r].pc \in Steps \ {"idle", "done"}
  BY SlotFacts DEF CallStates, InProgress
<1>2. QED
  BY <1>1, Landing, EndAdvances

\* A step to a later stage.
LEMMA StageAdvances ==
    ASSUME IInv, NEW r \in Calls, NEW pc, Goto(r, pc), StagesLeft(pc) < StagesLeft(call[r].pc)
    PROVE  Advances(call[r], call'[r])
  BY Landing DEF Advances

LEMMA LoginAdvances ==
    ASSUME IInv, NEW r \in Calls,
           \/ Discover(r) \/ WebLoginSucceeds(r) \/ WebLoginFails(r) \/ Whoami(r)
           \/ LoginCacheToken(r) \/ LoginSetActive(r)
    PROVE  Advances(call[r], call'[r])
<1>1. CASE Discover(r)
  BY <1>1, StageAdvances, ReturnAdvances DEF Discover, InProgress, StagesLeft
<1>2. CASE WebLoginSucceeds(r)
  <2>1. PICK e : Become(r, [call[r] EXCEPT !.pc = "whoami", !.held = e])
    BY <1>2 DEF WebLoginSucceeds
  <2>2. call'[r] = [call[r] EXCEPT !.pc = "whoami", !.held = e]
    BY <2>1, SlotFacts
  <2>3. call'[r].pc = "whoami"
    BY <2>2, SlotFacts DEF CallStates
  <2>4. call[r].pc = "webLogin"
    BY <1>2 DEF WebLoginSucceeds
  <2>5. QED
    BY <2>3, <2>4 DEF Advances, StagesLeft
<1>3. CASE WebLoginFails(r)
  BY <1>3, ReturnAdvances DEF WebLoginFails, InProgress
<1>4. CASE Whoami(r)
  BY <1>4, StageAdvances DEF Whoami, StagesLeft
<1>5. CASE LoginCacheToken(r)
  BY <1>5, StageAdvances DEF LoginCacheToken, StagesLeft
<1>6. CASE LoginSetActive(r)
  BY <1>6, ReturnAdvances DEF LoginSetActive, InProgress
<1>7. QED
  BY <1>1, <1>2, <1>3, <1>4, <1>5, <1>6

\* A listing begins a loop.
LEMMA ListingAdvances ==
    ASSUME IInv, NEW r \in Calls, LogoutList(r) \/ ListTokens(r) \/ PurgeList(r)
    PROVE  Advances(call[r], call'[r])
<1> DEFINE c == call[r]
<1>1. c.pc \in {"listAll", "listCluster", "listTokens", "purgeList"} /\ InProgress(r)
  BY DEF LogoutList, ListTokens, PurgeList, InProgress
<1>2. \/ \E out : Finish(r, out)
      \/ \E pc \in {"clearAll", "clusterGet", "listGet", "purgeGet"} :
           Become(r, [c EXCEPT !.work = Listed(c.prof), !.pc = pc])
  BY DEF LogoutList, ListTokens, PurgeList
<1>3. CASE \E out : Finish(r, out)
  BY <1>1, <1>3, ReturnAdvances
<1>4. CASE \E pc \in {"clearAll", "clusterGet", "listGet", "purgeGet"} :
             Become(r, [c EXCEPT !.work = Listed(c.prof), !.pc = pc])
  <2>1. call'[r].pc \in {"clearAll", "clusterGet", "listGet", "purgeGet"}
    BY <1>4, SlotFacts DEF CallStates
  <2>2. QED
    BY <1>1, <2>1 DEF Advances, StagesLeft
<1>5. QED
  BY <1>2, <1>3, <1>4

\* A visit of a key leaves one less to visit.
LEMMA VisitAdvances ==
    ASSUME IInv, NEW r \in Calls, NEW k \in call[r].work, call'[r].work = call[r].work \ {k},
           StagesLeft(call'[r].pc) = StagesLeft(call[r].pc)
    PROVE  Advances(call[r], call'[r])
  BY DEF Advances

LEMMA LoopAdvances ==
    ASSUME IInv, NEW r \in Calls,
           ClearAllDelete(r) \/ ClearClusterGet(r) \/ ListGet(r) \/ PurgeGet(r)
    PROVE  Advances(call[r], call'[r])
<1> DEFINE c == call[r]
<1>1. c \in CallStates
  BY SlotFacts
<1>2. CASE ClearAllDelete(r)
  <2>1. PICK k \in c.work : Become(r, [c EXCEPT !.work = c.work \ {k}])
    BY <1>2 DEF ClearAllDelete
  <2>2. call'[r].work = c.work \ {k} /\ call'[r].pc = c.pc
    BY <1>1, <2>1, SlotFacts DEF CallStates
  <2>3. QED
    BY <2>2, VisitAdvances
<1>3. CASE ClearClusterGet(r)
  <2>1. PICK k \in c.work :
          \/ Become(r, [c EXCEPT !.work = c.work \ {k}, !.key = k, !.pc = "clusterDelete"])
          \/ Become(r, [c EXCEPT !.work = c.work \ {k}])
    BY <1>3 DEF ClearClusterGet
  <2>2. \/ call'[r] = [c EXCEPT !.work = c.work \ {k}, !.key = k, !.pc = "clusterDelete"]
        \/ call'[r] = [c EXCEPT !.work = c.work \ {k}]
    BY <2>1, SlotFacts
  <2>3. call'[r].work = c.work \ {k} /\ call'[r].pc \in {c.pc, "clusterDelete"}
    BY <1>1, <2>2 DEF CallStates
  <2>4. StagesLeft(call'[r].pc) = StagesLeft(c.pc)
    BY <1>3, <2>3 DEF ClearClusterGet, StagesLeft
  <2>5. QED
    BY <2>3, <2>4, VisitAdvances
<1>4. CASE ListGet(r)
  <2>1. PICK k \in c.work :
          \/ \E found : Become(r, [c EXCEPT !.work = c.work \ {k}, !.shown = found])
          \/ Become(r, [c EXCEPT !.work = c.work \ {k}])
    BY <1>4 DEF ListGet
  <2>2. \/ \E found : call'[r] = [c EXCEPT !.work = c.work \ {k}, !.shown = found]
        \/ call'[r] = [c EXCEPT !.work = c.work \ {k}]
    BY <2>1, SlotFacts
  <2>3. call'[r].work = c.work \ {k} /\ call'[r].pc = c.pc
    BY <1>1, <2>2 DEF CallStates
  <2>4. QED
    BY <2>3, VisitAdvances
<1>5. CASE PurgeGet(r)
  <2>1. PICK k \in c.work :
          \/ Become(r, [c EXCEPT !.work = c.work \ {k}, !.key = k, !.pc = "purgeDelete"])
          \/ Become(r, [c EXCEPT !.work = c.work \ {k}])
    BY <1>5 DEF PurgeGet
  <2>2. \/ call'[r] = [c EXCEPT !.work = c.work \ {k}, !.key = k, !.pc = "purgeDelete"]
        \/ call'[r] = [c EXCEPT !.work = c.work \ {k}]
    BY <2>1, SlotFacts
  <2>3. call'[r].work = c.work \ {k} /\ call'[r].pc \in {c.pc, "purgeDelete"}
    BY <1>1, <2>2 DEF CallStates
  <2>4. StagesLeft(call'[r].pc) = StagesLeft(c.pc)
    BY <1>5, <2>3 DEF PurgeGet, StagesLeft
  <2>5. QED
    BY <2>3, <2>4, VisitAdvances
<1>6. QED
  BY <1>2, <1>3, <1>4, <1>5

\* A delete, whether it succeeds or not, is done with its key.
LEMMA DeleteAdvances ==
    ASSUME IInv, NEW r \in Calls, ClearClusterDelete(r) \/ PurgeDelete(r)
    PROVE  Advances(call[r], call'[r])
<1> DEFINE c == call[r]
<1>1. \/ /\ c.pc = "clusterDelete"
         /\ Become(r, [c EXCEPT !.pc = "clusterGet", !.key = None])
      \/ /\ c.pc = "purgeDelete"
         /\ Become(r, [c EXCEPT !.pc = "purgeGet", !.key = None])
  BY DEF ClearClusterDelete, PurgeDelete
<1>2. \/ c.pc = "clusterDelete" /\ call'[r] = [c EXCEPT !.pc = "clusterGet", !.key = None]
      \/ c.pc = "purgeDelete" /\ call'[r] = [c EXCEPT !.pc = "purgeGet", !.key = None]
  BY <1>1, SlotFacts
<1>3. /\ call'[r].work = c.work
      /\ \/ c.pc = "clusterDelete" /\ call'[r].pc = "clusterGet"
         \/ c.pc = "purgeDelete" /\ call'[r].pc = "purgeGet"
  BY <1>2, SlotFacts DEF CallStates
<1>4. QED
  BY <1>3 DEF Advances, StagesLeft

LEMMA TokenAdvances ==
    ASSUME IInv, NEW r \in Calls,
           \/ ReadActive(r) \/ StatusGet(r) \/ UserGet(r)
           \/ SAGet(r) \/ BearerGet(r) \/ MintSucceeds(r) \/ MintFails(r) \/ SACache(r)
    PROVE  Advances(call[r], call'[r])
<1> DEFINE c == call[r]
<1>1. c \in CallStates
  BY SlotFacts
<1>2. CASE ReadActive(r)
  <2>1. FirstGet(c.sa, c.force) \in {"userGet", "bearerGet", "saGet"}
    BY DEF FirstGet
  <2>2. c.pc = "readActive" /\ InProgress(r)
    BY <1>2 DEF ReadActive, InProgress
  <2>3. \/ \E out : Finish(r, out)
        \/ \E v : \E pc \in {"statusGet", FirstGet(c.sa, c.force)} :
             Become(r, [c EXCEPT !.api = v, !.pc = pc])
    BY <1>2 DEF ReadActive
  <2>4. CASE \E out : Finish(r, out)
    BY <2>2, <2>4, ReturnAdvances
  <2>5. CASE \E v : \E pc \in {"statusGet", FirstGet(c.sa, c.force)} :
               Become(r, [c EXCEPT !.api = v, !.pc = pc])
    <3>1. PICK pc \in {"statusGet", FirstGet(c.sa, c.force)} :
            \E v : Become(r, [c EXCEPT !.api = v, !.pc = pc])
      BY <2>5
    <3>2. \E v : call'[r] = [c EXCEPT !.api = v, !.pc = pc]
      BY <3>1, SlotFacts
    <3>3. call'[r].pc = pc
      BY <1>1, <3>2 DEF CallStates
    <3>4. call'[r].pc \in {"statusGet", "userGet", "bearerGet", "saGet"}
      BY <2>1, <3>3
    <3>5. QED
      BY <2>2, <3>4 DEF Advances, StagesLeft
  <2>6. QED
    BY <2>3, <2>4, <2>5
<1>3. CASE StatusGet(r) \/ UserGet(r) \/ MintFails(r) \/ SACache(r)
  BY <1>3, ReturnAdvances DEF StatusGet, UserGet, MintFails, SACache, InProgress
<1>4. CASE SAGet(r)
  BY <1>4, ReturnAdvances, StageAdvances DEF SAGet, InProgress, StagesLeft
<1>5. CASE BearerGet(r)
  <2>1. c.pc = "bearerGet" /\ InProgress(r)
    BY <1>5 DEF BearerGet, InProgress
  <2>2. \/ Finish(r, "error")
        \/ \E v : Become(r, [c EXCEPT !.pc = "mint", !.held = v])
    BY <1>5 DEF BearerGet
  <2>3. CASE Finish(r, "error")
    BY <2>1, <2>3, ReturnAdvances
  <2>4. CASE \E v : Become(r, [c EXCEPT !.pc = "mint", !.held = v])
    <3>1. PICK v : call'[r] = [c EXCEPT !.pc = "mint", !.held = v]
      BY <2>4, SlotFacts
    <3>2. call'[r].pc = "mint"
      BY <1>1, <3>1 DEF CallStates
    <3>3. QED
      BY <2>1, <3>2 DEF Advances, StagesLeft
  <2>5. QED
    BY <2>2, <2>3, <2>4
<1>6. CASE MintSucceeds(r)
  <2>1. PICK v : Become(r, [c EXCEPT !.pc = "saCache", !.held = v])
    BY <1>6 DEF MintSucceeds
  <2>2. call'[r] = [c EXCEPT !.pc = "saCache", !.held = v]
    BY <2>1, SlotFacts
  <2>3. call'[r].pc = "saCache" /\ c.pc = "mint"
    BY <1>1, <1>6, <2>2 DEF CallStates, MintSucceeds
  <2>4. QED
    BY <2>3 DEF Advances, StagesLeft
<1>7. QED
  BY <1>2, <1>3, <1>4, <1>5, <1>6

LEMMA ProceedAdvances ==
    ASSUME IInv, NEW r \in Calls, Proceed(r)
    PROVE  Advances(call[r], call'[r])
<1>1. CASE LogoutReturn(r) \/ ListReturn(r) \/ PurgeReturn(r)
  BY <1>1, ReturnAdvances DEF LogoutReturn, ListReturn, PurgeReturn, InProgress
<1>2. QED
  BY <1>1, LoginAdvances, ListingAdvances, LoopAdvances, DeleteAdvances, TokenAdvances DEF Proceed

\* Whatever fails and whatever runs beside it, a step of a call leads to a later
\* stage, or within its loop to fewer keys: a key that another call adds after the
\* listing, or a delete that fails, gives it nothing more to do (cache.go:147-152,
\* 168-183, 199-219, 233-249).
THEOREM StepsAdvance == Spec => EveryStepAdvances
<1> DEFINE Forward(r) == InProgress(r) /\ (Proceed(r) \/ call'[r] # call[r])
                           => Advances(call[r], call'[r])
<1>1. ASSUME IInv, [Next]_vars, NEW r \in Calls
      PROVE  Forward(r)
  <2> SUFFICES ASSUME InProgress(r), call'[r] # call[r], ~Proceed(r)
               PROVE  Advances(call[r], call'[r])
    BY <1>1, ProceedAdvances
  <2>1. PICK q \in Calls : Request(q) \/ Proceed(q) \/ Abandon(q)
    BY <1>1 DEF Next, Tick, vars
  <2>2. q = r
    BY <1>1, <2>1, StepsAreLocal DEF Local
  <2>3. ~Request(r)
    BY DEF Request, LoginStart, LogoutStart, StatusStart, TokenStart, ListStart, PurgeStart, Arrive
  <2>4. call'[r] = Idle
    BY <1>1, <2>1, <2>2, <2>3, SlotFacts DEF Abandon
  <2>5. call'[r].pc = "idle" /\ call[r].pc \in Steps \ {"idle", "done"}
    BY <1>1, <2>4, SlotFacts DEF Idle, CallStates, InProgress
  <2>6. QED
    BY <2>5, EndAdvances
<1>2. IInv /\ [Next]_vars => [\A r \in Calls : Forward(r)]_vars
  BY <1>1
<1>3. QED
  BY <1>2, Invariance, PTL DEF Spec, EveryStepAdvances

-----------------------------------------------------------------------------
(* Only so often                                                           *)

LEMMA LeastNumber ==
    ASSUME NEW S \in SUBSET Nat, S # {}
    PROVE  \E x \in S : \A y \in S : x <= y
<1>1. PICK x \in S : \A y \in S : ~ (<<y, x>> \in OpToRel(<, Nat))
  BY WFMin, NatLessThanWellFounded, Zenon
<1>2. \A y \in S : ~ (y < x)
  BY <1>1 DEF OpToRel
<1>3. QED
  BY <1>2

\* A call none of the given ones is nearer to its end than: among those at the
\* latest stage, one with fewest keys to visit, between two keys if it can be.
LEMMA NearestCall ==
    ASSUME IsFiniteSet(Keys), NEW T \in SUBSET CallStates, T # {}
    PROVE  \E c \in T : \A d \in T : ~ Advances(c, d)
<1>1. \A c \in T : StagesLeft(c.pc) \in Nat
  BY DEF CallStates, Steps, StagesLeft
<1>2. \A c \in T : IsFiniteSet(c.work) /\ Cardinality(c.work) \in Nat
  BY FS_Subset, FS_CardinalityType DEF CallStates
<1>3. PICK a \in T : \A d \in T : StagesLeft(a.pc) <= StagesLeft(d.pc)
  <2> DEFINE stages == { StagesLeft(c.pc) : c \in T }
  <2>1. stages \in SUBSET Nat /\ stages # {}
    BY <1>1
  <2> HIDE DEF stages
  <2>2. PICK n \in stages : \A m \in stages : n <= m
    BY <2>1, LeastNumber
  <2>3. QED
    BY <2>2 DEF stages
<1> DEFINE U == { c \in T : StagesLeft(c.pc) = StagesLeft(a.pc) }
<1>4. PICK b \in U : \A d \in U : Cardinality(b.work) <= Cardinality(d.work)
  <2> DEFINE sizes == { Cardinality(c.work) : c \in U }
  <2>1. sizes \in SUBSET Nat /\ sizes # {}
    BY <1>2, <1>3
  <2> HIDE DEF sizes
  <2>2. PICK n \in sizes : \A m \in sizes : n <= m
    BY <2>1, LeastNumber
  <2>3. QED
    BY <2>2 DEF sizes
<1> DEFINE Between(c) == c.pc \notin {"clusterDelete", "purgeDelete"}
<1>5. PICK c \in U : /\ \A d \in U : Cardinality(c.work) <= Cardinality(d.work)
                    /\ \/ Between(c)
                       \/ \A d \in U : d.work = c.work => ~ Between(d)
  <2>1. CASE \E d \in U : d.work = b.work /\ Between(d)
    BY <1>4, <2>1
  <2>2. CASE ~ \E d \in U : d.work = b.work /\ Between(d)
    BY <1>4, <2>2
  <2>3. QED
    BY <2>1, <2>2
<1>6. ASSUME NEW d \in T, Advances(c, d) PROVE FALSE
  <2>1. ~ (StagesLeft(d.pc) < StagesLeft(c.pc))
    BY <1>1, <1>3
  <2>2. d \in U
    BY <1>6, <2>1 DEF Advances
  <2>3. ~ (d.work \subseteq c.work /\ d.work # c.work)
    BY <1>2, <1>5, <2>2, FS_Subset
  <2>4. QED
    BY <1>5, <1>6, <2>1, <2>2, <2>3 DEF Advances
<1>7. QED
  BY <1>6

\* While there are finitely many keys there is no way to go on advancing: a call,
\* whose steps all advance it, takes only finitely many, so a loop of the handler
\* that met nothing but failures would end too (cache.go:147-152, 168-183).
THEOREM NoEndlessCall ==
    ASSUME IsFiniteSet(Keys)
    PROVE  ~ \E f \in [Nat -> CallStates] : \A n \in Nat : Advances(f[n], f[n + 1])
<1> SUFFICES ASSUME NEW f \in [Nat -> CallStates], \A n \in Nat : Advances(f[n], f[n + 1])
             PROVE  FALSE
  OBVIOUS
<1> DEFINE T == { f[n] : n \in Nat }
<1>1. T \in SUBSET CallStates /\ T # {}
  OBVIOUS
<1>2. PICK c \in T : \A d \in T : ~ Advances(c, d)
  BY <1>1, NearestCall
<1>3. PICK n \in Nat : c = f[n]
  BY <1>2
<1>4. f[n + 1] \in T /\ Advances(c, f[n + 1])
  BY <1>3
<1>5. QED
  BY <1>2, <1>4
=============================================================================
