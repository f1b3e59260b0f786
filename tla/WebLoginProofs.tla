--------------------------- MODULE WebLoginProofs ---------------------------
(***************************************************************************)
(* The safety of the browser login for any number of callback requests:    *)
(* types, what an orderly shutdown leaves behind, and that each step is a  *)
(* step of OneShotLogin or changes nothing it sees.                        *)
(***************************************************************************)
EXTENDS WebLogin, TLAPS

\* Before the listener is open and after the shutdown nothing is served, and
\* no request is taken before it is.
ServingCoherent ==
    /\ phase \in {"starting", "returned", "gaveUp"} => ~serving
    /\ phase = "starting" => \A p \in Posts : post[p].pc = "unsent"

\* There is no verdict while the login waits, and a token on its way to the
\* verdict was offered.
VerdictCoherent ==
    /\ phase \in {"starting", "waiting"} => verdict = Pending
    /\ resultCh # Empty => resultCh \in Offered

\* The inductive invariant.
IInv == TypeOK /\ ServingCoherent /\ AnsweredBeforeReturn /\ VerdictCoherent

USE DEF Phases, PostSteps, Payloads

LEMMA InitInv == Init => IInv
<1> SUFFICES ASSUME Init PROVE IInv
  OBVIOUS
<1>1. TypeOK
  BY DEF Init, TypeOK
<1>2. ServingCoherent /\ AnsweredBeforeReturn
  BY DEF Init, ServingCoherent, AnsweredBeforeReturn
<1>3. VerdictCoherent
  BY DEF Init, VerdictCoherent
<1>4. QED
  BY <1>1, <1>2, <1>3 DEF IInv

\* A step that leaves the requests alone.
LEMMA PostsKept ==
    ASSUME UNCHANGED post
    PROVE  Offered' = Offered /\ \A p \in Posts : InHand(p)' = InHand(p)
  BY DEF Offered, InHand

-----------------------------------------------------------------------------
(* runWebLogin                                                             *)

LoginStep == \/ StartFails \/ StartServing \/ ServeFails \/ TimeoutPasses \/ Cancel
             \/ SelectResult \/ SelectError
             \/ CloseListener \/ Return \/ ShutdownGivesUp

LEMMA LoginInv ==
    ASSUME IInv, LoginStep
    PROVE  IInv'
<1>1. UNCHANGED post
  BY DEF LoginStep, StartFails, StartServing, ServeFails, TimeoutPasses, Cancel,
     SelectResult, SelectError, CloseListener, Return, ShutdownGivesUp
<1>2. TypeOK'
  BY DEF IInv, TypeOK, LoginStep, StartFails, StartServing, ServeFails, TimeoutPasses, Cancel,
     SelectResult, SelectError, CloseListener, Return, ShutdownGivesUp, Conclude
<1>3. ServingCoherent'
  BY <1>1 DEF IInv, ServingCoherent, LoginStep, StartFails, StartServing, ServeFails,
     TimeoutPasses, Cancel, SelectResult, SelectError, CloseListener, Return,
     ShutdownGivesUp, Conclude
<1>4. AnsweredBeforeReturn'
  <2>1. CASE StartFails
    BY <1>1, <2>1, PostsKept DEF StartFails, IInv, ServingCoherent, AnsweredBeforeReturn, InHand
  <2>2. CASE Return
    BY <1>1, <2>2, PostsKept DEF Return, AnsweredBeforeReturn
  <2>3. CASE ~StartFails /\ ~Return
    <3>1. phase' = "returned" => phase = "returned"
      BY <2>3 DEF LoginStep, StartServing, ServeFails, TimeoutPasses, Cancel,
         SelectResult, SelectError, CloseListener, ShutdownGivesUp, Conclude
    <3>2. QED
      BY <1>1, <3>1, PostsKept DEF IInv, AnsweredBeforeReturn
  <2>4. QED
    BY <2>1, <2>2, <2>3
<1>5. VerdictCoherent'
  <2>1. phase' \in {"starting", "waiting"} => verdict' = Pending
    BY DEF IInv, VerdictCoherent, LoginStep, StartFails, StartServing, ServeFails,
       TimeoutPasses, Cancel, SelectResult, SelectError, CloseListener, Return,
       ShutdownGivesUp, Conclude
  <2>2. resultCh' \in {resultCh, Empty}
    BY DEF LoginStep, StartFails, StartServing, ServeFails, TimeoutPasses, Cancel,
       SelectResult, SelectError, CloseListener, Return, ShutdownGivesUp
  <2>3. QED
    BY <1>1, <2>1, <2>2, PostsKept DEF IInv, VerdictCoherent
<1>6. QED
  BY <1>2, <1>3, <1>4, <1>5 DEF IInv

-----------------------------------------------------------------------------
(* The callback handler                                                    *)

HandlerStep(p) == Receive(p) \/ ReadBody(p) \/ Refuse(p) \/ Deliver(p) \/ Close(p)

\* What a step of a handler does to the requests: its own moves on, and it offers
\* a token when its body has just been read.
LEMMA HandlerFacts ==
    ASSUME IInv, NEW p \in Posts, HandlerStep(p)
    PROVE  /\ UNCHANGED <<phase, serving, verdict>>
           /\ \A q \in Posts \ {p} : post'[q] = post[q]
           /\ post'[p].pc # "unsent" /\ phase # "starting"
           /\ phase = "returned" => ~InHand(p)'
           /\ Offered' \in {Offered, Offered \cup {p}}
<1>1. UNCHANGED <<phase, serving, verdict>> /\ \A q \in Posts \ {p} : post'[q] = post[q]
  BY DEF IInv, TypeOK, HandlerStep, Receive, ReadBody, Refuse, Deliver, Close
<1>2. post'[p].pc # "unsent" /\ phase # "starting"
  BY DEF IInv, TypeOK, ServingCoherent, HandlerStep, Receive, ReadBody, Refuse, Deliver, Close
<1>3. phase = "returned" => ~InHand(p)'
  BY DEF IInv, TypeOK, ServingCoherent, AnsweredBeforeReturn, InHand, HandlerStep, Receive,
     ReadBody, Refuse, Deliver, Close
<1>4. p \in Offered => p \in Offered'
  BY DEF IInv, TypeOK, Offered, HandlerStep, Receive, ReadBody, Refuse, Deliver, Close
<1>5. \A q \in Posts \ {p} : q \in Offered' <=> q \in Offered
  BY <1>1 DEF Offered
<1>6. Offered' \subseteq Posts /\ Offered \subseteq Posts
  BY DEF Offered
<1>7. Offered' \in {Offered, Offered \cup {p}}
  BY <1>4, <1>5, <1>6
<1>8. QED
  BY <1>1, <1>2, <1>3, <1>7

LEMMA HandlerInv ==
    ASSUME IInv, NEW p \in Posts, HandlerStep(p)
    PROVE  IInv'
<1>1. TypeOK'
  BY DEF IInv, TypeOK, HandlerStep, Receive, ReadBody, Refuse, Deliver, Close
<1>2. ServingCoherent'
  BY HandlerFacts DEF IInv, ServingCoherent
<1>3. AnsweredBeforeReturn'
  BY HandlerFacts DEF IInv, AnsweredBeforeReturn, InHand
<1>4. resultCh' # Empty => resultCh' \in Offered'
  <2>1. resultCh' = resultCh \/ (p \in Offered /\ resultCh' = p)
    BY DEF HandlerStep, Receive, ReadBody, Refuse, Deliver, Close, Accepted, Offered
  <2>2. QED
    BY <2>1, HandlerFacts DEF IInv, VerdictCoherent
<1>5. QED
  BY <1>1, <1>2, <1>3, <1>4, HandlerFacts DEF IInv, VerdictCoherent

LEMMA StepCases == Next => LoginStep \/ \E p \in Posts : HandlerStep(p)
  BY DEF Next, LoginStep, HandlerStep

LEMMA NextInv == IInv /\ [Next]_vars => IInv'
<1> SUFFICES ASSUME IInv, [Next]_vars PROVE IInv'
  OBVIOUS
<1>1. CASE UNCHANGED vars
  BY <1>1 DEF vars, IInv, TypeOK, ServingCoherent, AnsweredBeforeReturn, VerdictCoherent,
     InHand, Offered
<1>2. CASE LoginStep
  BY <1>2, LoginInv
<1>3. CASE \E p \in Posts : HandlerStep(p)
  BY <1>3, HandlerInv
<1>4. QED
  BY <1>1, <1>2, <1>3, StepCases

-----------------------------------------------------------------------------
(* Theorems                                                                *)

\* What every state of a browser login satisfies, however its handlers, its
\* timer, cancellation and the shutdown interleave (weblogin_flow.go:40-212).
THEOREM Invariance == Spec => []IInv
<1>1. Init => IInv
  BY InitInv
<1>2. IInv /\ [Next]_vars => IInv'
  BY NextInv
<1>3. QED
  BY <1>1, <1>2, PTL DEF Spec

\* The channels, the requests and the verdict keep their types.
THEOREM TypeCorrect == Spec => []TypeOK
<1>1. IInv => TypeOK
  BY DEF IInv
<1>2. QED
  BY <1>1, Invariance, PTL

\* When the login returns after an orderly shutdown no request is in hand
\* (weblogin_flow.go:96-100), for any number of requests.
THEOREM Answered == Spec => []AnsweredBeforeReturn
<1>1. IInv => AnsweredBeforeReturn
  BY DEF IInv
<1>2. QED
  BY <1>1, Invariance, PTL

-----------------------------------------------------------------------------
(* OneShotLogin                                                            *)

LEMMA InitMaps == Init => OneShot!Init
  BY DEF Init, OneShot!Init, Offered

\* A verdict is reached from none, and it is an error or a token offered.
LEMMA VerdictStep ==
    ASSUME IInv, LoginStep
    PROVE  verdict' = verdict \/ (verdict = Pending /\ verdict' \in Offered \cup {Error})
<1>1. CASE SelectResult
  BY <1>1 DEF SelectResult, Conclude, IInv, VerdictCoherent
<1>2. CASE StartFails \/ SelectError
  BY <1>2 DEF StartFails, SelectError, Conclude, IInv, VerdictCoherent
<1>3. CASE ~SelectResult /\ ~StartFails /\ ~SelectError
  BY <1>3 DEF LoginStep, StartServing, ServeFails, TimeoutPasses, Cancel, CloseListener,
     Return, ShutdownGivesUp
<1>4. QED
  BY <1>1, <1>2, <1>3

LEMMA NextMaps == IInv /\ [Next]_vars => [OneShot!Next]_<<Offered, verdict>>
<1> SUFFICES ASSUME IInv, [Next]_vars PROVE [OneShot!Next]_<<Offered, verdict>>
  OBVIOUS
<1>1. CASE UNCHANGED vars
  BY <1>1 DEF vars, Offered
<1>2. CASE LoginStep
  <2>1. UNCHANGED Offered
    BY <1>2, PostsKept DEF LoginStep, StartFails, StartServing, ServeFails, TimeoutPasses,
       Cancel, SelectResult, SelectError, CloseListener, Return, ShutdownGivesUp
  <2>2. QED
    BY <1>2, <2>1, VerdictStep DEF OneShot!Next, OneShot!Decide
<1>3. ASSUME NEW p \in Posts, HandlerStep(p) PROVE [OneShot!Next]_<<Offered, verdict>>
  <2>1. UNCHANGED verdict /\ Offered' \in {Offered, Offered \cup {p}}
    BY <1>3, HandlerFacts
  <2>2. CASE p \in Offered
    BY <2>1, <2>2
  <2>3. CASE p \notin Offered
    BY <2>1, <2>3 DEF OneShot!Next, OneShot!Offer
  <2>4. QED
    BY <2>2, <2>3
<1>4. QED
  BY <1>1, <1>2, <1>3, StepCases

\* The safety of ReachesOneVerdict: there is one verdict, it is reached once, and
\* it is an error or a token that a browser offered with this login's state; late
\* and second answers never change it (weblogin_flow.go:117-126, 183-209).
THEOREM OneVerdictOnly == Spec => OneShot!Init /\ [][OneShot!Next]_<<Offered, verdict>>
<1>1. Init => OneShot!Init
  BY InitMaps
<1>2. IInv /\ [Next]_vars => [OneShot!Next]_<<Offered, verdict>>
  BY NextMaps
<1>3. QED
  BY <1>1, <1>2, Invariance, PTL DEF Spec
=============================================================================
