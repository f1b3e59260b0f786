------------------------------ MODULE SAScope ------------------------------
(***************************************************************************)
(* Service-account scopes: how a request's scope is read (scope.go), how   *)
(* the account enters a secret's key and is labelled (cache.go).  A string *)
(* is the sequence of its tokens: names, separators, white space, and the  *)
(* prefix of Kubernetes' canonical form.                                   *)
(***************************************************************************)
EXTENDS Integers, SequencesExt

CONSTANTS
    Names,              \* what k8sNamePattern accepts
    None                \* parseSAScope's ok=false: the user's token is meant

Canonical  == "system:serviceaccount:"
Separators == {"/", "@", ":", "|", " ", Canonical}
Tokens     == Names \cup Separators

ASSUME NamesAssumption == Names \cap Separators = {}

Accounts == [ns : Seq(Tokens), sa : Seq(Tokens), aud : Seq(Tokens)]

\* strings.TrimSpace
Trim(s) ==
    LET solid == { i \in DOMAIN s : s[i] # " " }
    IN  IF solid = {} THEN <<>> ELSE SubSeq(s, Min(solid), Max(solid))

Before(s, i) == SubSeq(s, 1, i - 1)
After(s, i)  == SubSeq(s, i + 1, Len(s))

Positions(s, token) == { i \in DOMAIN s : s[i] = token }

\* A fault: the account comes before the namespace.
CanonicalPartsSwapped(s) ==
    { <<After(s, i), SubSeq(s, 2, i - 1)>> :
        i \in { j \in Positions(s, ":") : Positions(s, ":") = {j} } }

\* What follows the prefix, split at its colon when there is just one.
CanonicalParts(s) ==
    { <<SubSeq(s, 2, i - 1), After(s, i)>> :
        i \in { j \in Positions(s, ":") : Positions(s, ":") = {j} } }

\* The shorthand, cut at its slash; a second slash is not accepted.
ShorthandParts(s) ==
    { <<Trim(Before(s, i)), Trim(After(s, i))>> :
        i \in { j \in Positions(s, "/") : Positions(s, "/") = {j} } }

\* The account a scope names: the audience is what follows the last @.
parseSAScope(scope) ==
    LET s     == Trim(scope)
        ats   == Positions(s, "@")
        aud   == IF ats = {} THEN <<>> ELSE Trim(After(s, Max(ats)))
        ref   == IF ats = {} THEN s ELSE Trim(Before(s, Max(ats)))
        parts == IF ref # <<>> /\ ref[1] = Canonical
                 THEN CanonicalParts(ref) ELSE ShorthandParts(ref)
        valid == { p \in parts : p[1] # <<>> /\ p[2] # <<>> }
    IN  IF valid = {} THEN None
        ELSE LET p == CHOOSE q \in valid : TRUE
             IN  [ns |-> p[1], sa |-> p[2], aud |-> aud]

validateK8sName(s) == \E n \in Names : s = <<n>>

\* A TokenRequest is sent for these accounts only.
Mintable(acc) == acc # None /\ validateK8sName(acc.ns) /\ validateK8sName(acc.sa)

\* A fault: the audience is left out.
saCompositeWithoutAudience(api, acc) ==
    <<api, "|">> \o acc.ns \o <<"|">> \o acc.sa \o <<"|">>

\* What saTokenKey hashes.
saComposite(api, acc) ==
    <<api, "|">> \o acc.ns \o <<"|">> \o acc.sa \o <<"|">> \o acc.aud

\* A fault: the audience is left out.
scopeForEntryWithoutAudience(acc) == acc.ns \o <<"/">> \o acc.sa

\* The label of a service-account entry in listings and token responses.
scopeForEntry(acc) ==
    acc.ns \o <<"/">> \o acc.sa \o (IF acc.aud = <<>> THEN <<>> ELSE <<"@">> \o acc.aud)
=============================================================================
