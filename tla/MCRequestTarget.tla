--------------------------- MODULE MCRequestTarget -------------------------
(* Instances of RequestTarget for TLC.                                     *)
EXTENDS RequestTarget, TLC

CONSTANTS r1, r2

Plain(scheme, host) == [Empty EXCEPT !.scheme = scheme, !.host = host]
Slashed(t) == [t EXCEPT !.slash = TRUE]
Blank(t) == [t EXCEPT !.blank = TRUE]

Bare == Plain("", "api.one:6443")
URL  == Plain("https", "api.one:6443")
Two  == Plain("HTTPS", "api.two:6443")

MCLowerCase == [s \in Schemes |-> IF s = "HTTPS" THEN "https" ELSE s]

\* One alias spells the URL of a cluster with a slash and blanks and has a
\* client of its own, one has the name of a host and no scheme, one spells the
\* scheme in capitals, as the server of the settings does.
Table == (Plain("", "lab") :> [url |-> Blank(Slashed(URL)), client |-> "lab-client"])
         @@ (Plain("", "api.alias") :> [url |-> Plain("", "api.two:6443"), client |-> ""])
         @@ (Plain("", "caps") :> [url |-> Two, client |-> ""])

MCSettings == { [url |-> u, client |-> c, clusters |-> t] :
                  u \in {Empty, Blank(Slashed(Two)), Slashed(Empty)}, c \in {"", "own"},
                  t \in {Table, NoClusters} }

MCEnvironments == { <<Blank(Empty), Slashed(URL)>>, <<Blank(URL), Two>>, <<Empty, Empty>> }

MCHosts == { Empty, Blank(Plain("", "lab")), Plain("", "api.alias"), Plain("", "caps"),
             Bare, Slashed(Bare), Blank(Slashed(URL)), Plain("HTTPS", "api.one:6443"),
             Plain("http", "api.one:6443"), Plain("", "api.two:6443"), Plain("", "nope") }

Shorthand == <<"a", "/", "b">>

MCScopes == { <<>>, Shorthand, <<" ">> \o Shorthand, Shorthand \o <<"@", "c">>,
              Shorthand \o <<"@", "b">>, <<"a", "/", "a", " ", "@", " ", "c">>,
              <<Canonical, "a", ":", "b">>, <<Canonical, "a", ":", "b", "@", "c">>,
              <<Canonical, "a", ":", "b", ":", "c">>, <<"a", "/", "b", "/", "c">>,
              Shorthand \o <<"@", "c", "@", "a">>, Shorthand \o <<"@", "c", "|", "a">> }

\* Every hostname with one scope, every scope with two hostnames.
MCRequests == [host : MCHosts, scope : {Shorthand}]
              \cup [host : {Empty, Bare}, scope : MCScopes]

\* Two scopes whose parts hold the separator of a key's parts.
SeparatorRequests ==
    [host : {Bare}, scope : { <<"a", "|", "b", "/", "c">>,
                              <<"a", "/", "b", "@", "c", "|">> }]
OneSetting == { [url |-> Empty, client |-> "", clusters |-> t] : t \in {Table, NoClusters} }
=============================================================================
