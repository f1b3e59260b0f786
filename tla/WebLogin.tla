------------------------------ MODULE WebLogin ------------------------------
(***************************************************************************)
(* The browser login (weblogin_flow.go): runWebLogin starts a loopback     *)
(* callback server, opens the browser and waits for the first of a token,  *)
(* an error, its timeout and cancellation.  Each POST the browser sends is *)
(* handled by a goroutine of its own, which hands what it found to the     *)
(* waiting login through one of two channels of capacity one.              *)
(*                                                                         *)
(* A reply is a few bytes in the server's buffer: the browser has it once  *)
(* the handler has returned.                                               *)
(***************************************************************************)
EXTENDS Naturals, FiniteSets

CONSTANTS Posts,        \* POST requests; a token is named for the post it came in
          Pending,      \* no verdict yet
          Error,        \* the login failed; any error in errCh
          Empty         \* a channel with nothing in it

ASSUME PostsAssumption ==
    /\ Pending # Error /\ Pending \notin Posts /\ Error \notin Posts
    /\ Empty # Error /\ Empty \notin Posts

\* What the handler can find, in the order it looks: an unreadable body, an
\* OAuth error, the state of another login, no token, a token.
Payloads == {"malformed", "oauthError", "otherState", "noToken", "token"}

VARIABLES
    phase,      \* where runWebLogin is
    serving,    \* the listener is open and Serve accepts
    resultCh,   \* chan webLoginResult: the post whose token it holds, or Empty
    errCh,      \* chan error: Error or Empty
    expired,    \* the login timeout has passed
    cancelled,  \* the context is done
    post,       \* each POST: how far its handler is, and what it carries
    verdict     \* what runWebLogin returns

vars == <<phase, serving, resultCh, errCh, expired, cancelled, post, verdict>>

Phases == {"starting", "waiting", "closing", "returned", "gaveUp"}

\* reading: the handler waits for the body; received: it has it;
\* closed: the browser has the reply; dropped: its connection broke before;
\* refused: no server took the request.
PostSteps == {"unsent", "reading", "received", "delivered", "closed", "dropped", "refused"}

Init ==
    /\ phase = "starting"
    /\ serving = FALSE
    /\ resultCh = Empty /\ errCh = Empty
    /\ expired = FALSE /\ cancelled = FALSE
    /\ post = [p \in Posts |-> [pc |-> "unsent", payload |-> "malformed"]]
    /\ verdict = Pending

InHand(p) == post[p].pc \in {"reading", "received", "delivered"}

-----------------------------------------------------------------------------
(* runWebLogin                                                             *)

\* No random state, a callback host that is not loopback, or no listener.
StartFails ==
    /\ phase = "starting"
    /\ phase' = "returned" /\ verdict' = Error
    /\ UNCHANGED <<serving, resultCh, errCh, expired, cancelled, post>>

\* The server is up; whether the browser could be opened makes no difference.
StartServing ==
    /\ phase = "starting"
    /\ phase' = "waiting" /\ serving' = TRUE
    /\ UNCHANGED <<resultCh, errCh, expired, cancelled, post, verdict>>

\* Serve gives up.  Its goroutine reports it unless an error is waiting already.
ServeFails ==
    /\ serving
    /\ serving' = FALSE
    /\ errCh' = Error
    /\ UNCHANGED <<phase, resultCh, expired, cancelled, post, verdict>>

TimeoutPasses ==
    /\ phase = "waiting" /\ ~expired
    /\ expired' = TRUE
    /\ UNCHANGED <<phase, serving, resultCh, errCh, cancelled, post, verdict>>

Cancel ==
    /\ phase = "waiting" /\ ~cancelled
    /\ cancelled' = TRUE
    /\ UNCHANGED <<phase, serving, resultCh, errCh, expired, post, verdict>>

Conclude(v) == phase' = "closing" /\ verdict' = v

\* A fault: the case is taken before anything was sent.
SelectResultEarly ==
    /\ phase = "waiting"
    /\ Conclude(resultCh) /\ resultCh' = Empty
    /\ UNCHANGED <<serving, errCh, expired, cancelled, post>>

\* The select: of the cases that are ready, Go picks any.
SelectResult ==
    /\ phase = "waiting" /\ resultCh # Empty
    /\ Conclude(resultCh) /\ resultCh' = Empty
    /\ UNCHANGED <<serving, errCh, expired, cancelled, post>>

SelectError ==
    /\ phase = "waiting"
    /\ \/ errCh # Empty /\ errCh' = Empty
       \/ (expired \/ cancelled) /\ UNCHANGED errCh
    /\ Conclude(Error)
    /\ UNCHANGED <<serving, resultCh, expired, cancelled, post>>

\* srv.Shutdown closes the listener, then waits for the requests in hand.
CloseListener ==
    /\ phase = "closing" /\ serving
    /\ serving' = FALSE
    /\ UNCHANGED <<phase, resultCh, errCh, expired, cancelled, post, verdict>>

\* A fault: Close in place of Shutdown does not wait.
ReturnAtOnce ==
    /\ phase = "closing" /\ ~serving
    /\ phase' = "returned"
    /\ UNCHANGED <<serving, resultCh, errCh, expired, cancelled, post, verdict>>

Return ==
    /\ phase = "closing" /\ ~serving
    /\ \A p \in Posts : ~InHand(p)
    /\ phase' = "returned"
    /\ UNCHANGED <<serving, resultCh, errCh, expired, cancelled, post, verdict>>

\* Two seconds pass with a request still in hand: Shutdown gives up on it.
ShutdownGivesUp ==
    /\ phase = "closing" /\ ~serving
    /\ \E p \in Posts : InHand(p)
    /\ phase' = "gaveUp"
    /\ UNCHANGED <<serving, resultCh, errCh, expired, cancelled, post, verdict>>

-----------------------------------------------------------------------------
(* The callback handler                                                    *)

\* The server takes a request whose headers have come.
Receive(p) ==
    /\ serving /\ post[p].pc = "unsent"
    /\ post' = [post EXCEPT ![p].pc = "reading"]
    /\ UNCHANGED <<phase, serving, resultCh, errCh, expired, cancelled, verdict>>

\* The handler has read the body.  The server bounds the wait for the headers
\* and not the wait for the body.
ReadBody(p) ==
    /\ post[p].pc = "reading"
    /\ \E payload \in Payloads :
         post' = [post EXCEPT ![p] = [pc |-> "received", payload |-> payload]]
    /\ UNCHANGED <<phase, serving, resultCh, errCh, expired, cancelled, verdict>>

Refuse(p) ==
    /\ ~serving /\ phase # "starting" /\ post[p].pc = "unsent"
    /\ post' = [post EXCEPT ![p].pc = "refused"]
    /\ UNCHANGED <<phase, serving, resultCh, errCh, expired, cancelled, verdict>>

\* A fault: the state is not compared.
AcceptedWithoutState(payload) == payload \in {"token", "otherState"}
Accepted(payload) == payload = "token"

\* A fault: the send waits for room in the channel.
BlockingDeliver(p) ==
    /\ post[p].pc = "received"
    /\ \/ /\ Accepted(post[p].payload) /\ resultCh = Empty
          /\ resultCh' = p /\ UNCHANGED errCh
       \/ /\ ~Accepted(post[p].payload) /\ errCh = Empty
          /\ errCh' = Error /\ UNCHANGED resultCh
    /\ post' = [post EXCEPT ![p].pc = "delivered"]
    /\ UNCHANGED <<phase, serving, expired, cancelled, verdict>>

\* The handler hands over a token or an error.  The send never waits: if the
\* channel is full the token, or the error, is dropped.
Deliver(p) ==
    /\ post[p].pc = "received"
    /\ IF Accepted(post[p].payload)
       THEN /\ resultCh' = IF resultCh = Empty THEN p ELSE resultCh
            /\ UNCHANGED errCh
       ELSE errCh' = Error /\ UNCHANGED resultCh
    /\ post' = [post EXCEPT ![p].pc = "delivered"]
    /\ UNCHANGED <<phase, serving, expired, cancelled, verdict>>

\* The handler is done: the browser gets the reply, or is gone.
Close(p) ==
    /\ post[p].pc = "delivered"
    /\ \E pc \in {"closed", "dropped"} : post' = [post EXCEPT ![p].pc = pc]
    /\ UNCHANGED <<phase, serving, resultCh, errCh, expired, cancelled, verdict>>

-----------------------------------------------------------------------------
Wait    == SelectResult \/ SelectError
Shutdown == CloseListener \/ Return \/ ShutdownGivesUp
Handle(p) == Deliver(p) \/ Close(p)

Next ==
    \/ StartFails \/ StartServing \/ ServeFails \/ TimeoutPasses \/ Cancel
    \/ SelectResult \/ SelectError
    \/ CloseListener \/ Return \/ ShutdownGivesUp
    \/ \E p \in Posts : Receive(p) \/ ReadBody(p) \/ Refuse(p) \/ Deliver(p) \/ Close(p)

\* The goroutines run and the timer fires; nothing makes a browser post, or
\* send all of what it posts, and nothing makes Serve fail or the context end.
Fairness ==
    /\ WF_vars(StartFails \/ StartServing)
    /\ WF_vars(TimeoutPasses) /\ WF_vars(Wait) /\ WF_vars(Shutdown)
    /\ \A p \in Posts : WF_vars(Handle(p))

Spec == Init /\ [][Next]_vars /\ Fairness

-----------------------------------------------------------------------------
(* Correctness                                                             *)

TypeOK ==
    /\ phase \in Phases
    /\ serving \in BOOLEAN /\ expired \in BOOLEAN /\ cancelled \in BOOLEAN
    /\ resultCh \in Posts \cup {Empty} /\ errCh \in {Error, Empty}
    /\ post \in [Posts -> [pc : PostSteps, payload : Payloads]]
    /\ verdict \in Posts \cup {Pending, Error}

\* The posts that offered a token along with this login's state.
Offered == { p \in Posts : post[p].pc \notin {"unsent", "reading", "refused"}
                            /\ post[p].payload = "token" }

OneShot == INSTANCE OneShotLogin WITH offered <- Offered

\* runWebLogin reaches exactly one verdict, within its timeout, and it is an
\* error or a token offered with this login's state (weblogin_flow.go:117-126,
\* 183-209): a late or second answer never changes it.
ReachesOneVerdict == OneShot!Spec

\* Every request whose body was read is answered and its goroutine ends, also
\* when nobody reads the channels any more (weblogin_flow.go:169-208).
HandlersEnd == \A p \in Posts : post[p].pc = "received" ~> ~InHand(p)

\* Unless Shutdown gave up, no request is still in hand when the login returns:
\* the browser that brought the token has its answer (weblogin_flow.go:96-100).
AnsweredBeforeReturn == phase = "returned" => \A p \in Posts : ~InHand(p)

ToldSuccess(p) == post[p].pc = "closed" /\ post[p].payload = "token"

\* "Login successful. You can return to the terminal." (weblogin_flow.go:316):
\* a browser that is told so when the login has its verdict is told the truth.
ToldTheTruth ==
    \A p \in Posts : ToldSuccess(p) /\ verdict # Pending => verdict = p
=============================================================================
