---------------------------- MODULE TokenCustody ----------------------------
(***************************************************************************)
(* What the auth handler promises about the credentials in its custody,    *)
(* without keys, host calls, listings or clocks: a credential is kept for  *)
(* a profile and a cluster only once a user of that profile logged in      *)
(* there; it leaves custody only by a request that reaches it; and it is   *)
(* handed out only to a request that reaches it, by its own name.          *)
(***************************************************************************)
CONSTANTS Slots, Profiles, Clusters, Accounts, None

\* A request: what it wants, of which account, and the clusters it reaches.
Requests == [op : {"login", "logout", "status", "token", "list", "purge"},
             prof : Profiles, sa : Accounts \cup {None}, reach : SUBSET Clusters]

VARIABLES
    granted,    \* (profile, cluster) pairs a user has logged in to
    held,       \* the credentials in custody
    asked,      \* the request each slot works on
    answer      \* the credential each slot last handed out

vars == <<granted, held, asked, answer>>

Init ==
    /\ granted = {} /\ held = {}
    /\ asked = [r \in Slots |-> None]
    /\ answer = [r \in Slots |-> None]

\* The credentials a request reaches: of its profile at its clusters, the user's
\* own (sa = None) and service accounts'.
Reached(q) == [prof : {q.prof}, api : q.reach, sa : Accounts \cup {None}]

Accept(r) ==
    /\ asked[r] = None
    /\ asked'[r] \in Requests
    /\ asked' = [asked EXCEPT ![r] = asked'[r]]
    /\ answer' = [answer EXCEPT ![r] = None]
    /\ UNCHANGED <<granted, held>>

\* Refuse a request, or end it with nothing handed out.
Dismiss(r) ==
    /\ asked' = [asked EXCEPT ![r] = None]
    /\ answer' = [answer EXCEPT ![r] = None]
    /\ UNCHANGED <<granted, held>>

Working(r, ops) == asked[r] \in Requests /\ asked[r].op \in ops

Grant(r) ==
    /\ Working(r, {"login"})
    /\ \E a \in asked[r].reach : granted' = granted \cup {<<asked[r].prof, a>>}
    /\ UNCHANGED <<held, asked, answer>>

Keep(r) ==
    /\ Working(r, {"login"})
    /\ \E c \in Reached(asked[r]) :
         /\ c.sa = None /\ <<c.prof, c.api>> \in granted
         /\ held' = held \cup {c}
    /\ UNCHANGED <<granted, asked, answer>>

Forget(r) ==
    /\ Working(r, {"logout", "purge"})
    /\ \E c \in Reached(asked[r]) : held' = held \ {c}
    /\ UNCHANGED <<granted, asked, answer>>

\* A user's credential is handed out of custody; a service account's may be
\* made for the request and then kept.
Answer(r) ==
    /\ Working(r, {"status", "token"})
    /\ \E c \in Reached(asked[r]) :
         /\ c.sa = asked[r].sa /\ <<c.prof, c.api>> \in granted
         /\ c.sa = None => c \in held
         /\ held' \in IF c.sa = None THEN {held} ELSE {held, held \cup {c}}
         /\ answer' = [answer EXCEPT ![r] = c]
    /\ asked' = [asked EXCEPT ![r] = None]
    /\ UNCHANGED granted

Next == \E r \in Slots :
    Accept(r) \/ Dismiss(r) \/ Grant(r) \/ Keep(r) \/ Forget(r) \/ Answer(r)

Spec == Init /\ [][Next]_vars
=============================================================================
