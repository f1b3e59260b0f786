------------------------ MODULE RequestTargetProofs ------------------------
(***************************************************************************)
(* For any settings, environment, hostnames, scopes and number of calls:   *)
(* no two calls race on a map of clusters, every target is what the        *)
(* settings and the environment make of the request, and the tokens filed  *)
(* for different accounts have different keys.                             *)
(***************************************************************************)
EXTENDS RequestTarget, WellFoundedInduction, SequenceTheorems, TLAPS

-----------------------------------------------------------------------------
(* Texts                                                                   *)

LEMMA TrimFacts ==
    \A t \in Texts :
        /\ TrimSpace(t) \in Texts /\ TrimURL(t) \in Trimmed /\ TrimURL(t) \in Texts
        /\ TrimSpace(t).scheme = t.scheme /\ TrimSpace(t).host = t.host
        /\ TrimURL(t).scheme = t.scheme /\ TrimURL(t).host = t.host
  BY DEF TrimSpace, TrimURL, Trimmed, Texts

LEMMA TrimmedFacts ==
    \A t \in Trimmed : t \in Texts /\ TrimSpace(t) = t /\ TrimURL(t) = t
  BY DEF TrimSpace, TrimURL, Trimmed, Texts

LEMMA EmptyTrimmed == Empty \in Trimmed /\ Empty \in Texts /\ Sensible(Empty)
  BY DEF Empty, Trimmed, Texts, Sensible

LEMMA NormalizedFacts ==
    \A c \in Clusters :
        /\ NormalizedCluster(c) \in Clusters
        /\ NormalizedCluster(c).url = TrimURL(c.url) /\ NormalizedCluster(c).url \in Trimmed
        /\ NormalizedCluster(c).client = c.client
        /\ c.url \in Trimmed => NormalizedCluster(c) = c
<1>1. SUFFICES ASSUME NEW c \in Clusters
      PROVE  /\ NormalizedCluster(c) \in Clusters
             /\ NormalizedCluster(c).url = TrimURL(c.url)
             /\ NormalizedCluster(c).url \in Trimmed
             /\ NormalizedCluster(c).client = c.client
             /\ c.url \in Trimmed => NormalizedCluster(c) = c
  OBVIOUS
<1>2. c.url \in Texts /\ c.client \in Clients \cup {""} /\ c = [url |-> c.url, client |-> c.client]
  BY DEF Clusters
<1>3. TrimURL(c.url) \in Trimmed /\ TrimURL(c.url) \in Texts
  BY <1>2, TrimFacts
<1>4. NormalizedCluster(c) = [url |-> TrimURL(c.url), client |-> c.client]
  <2> HIDE DEF Clusters
  <2>1. [c EXCEPT !.url = TrimURL(c.url)] =
          [[url |-> c.url, client |-> c.client] EXCEPT !.url = TrimURL(c.url)]
    BY <1>2
  <2>2. QED
    BY <2>1 DEF NormalizedCluster
<1>5. c.url \in Trimmed => TrimURL(c.url) = c.url
  BY TrimmedFacts
<1>6. c.url \in Trimmed => NormalizedCluster(c) = c
  BY <1>2, <1>4, <1>5
<1>7. NormalizedCluster(c) \in Clusters
  <2>1. \A u \in Texts, k \in Clients \cup {""} : [url |-> u, client |-> k] \in Clusters
    BY DEF Clusters
  <2> HIDE DEF Clusters
  <2>2. QED
    BY <1>2, <1>3, <1>4, <2>1
<1>8. QED
  BY <1>3, <1>4, <1>6, <1>7

\* What a hostname resolves to is trimmed, and a URL that comes of an endpoint
\* has a scheme and a host.
LEMMA EndpointFacts ==
    \A t \in Texts :
        \/ normalizeEndpoint(t) = Unknown
        \/ /\ t.host # "" /\ normalizeEndpoint(t) \in Texts
           /\ normalizeEndpoint(t).host = t.host /\ ~normalizeEndpoint(t).slash
           /\ normalizeEndpoint(t).blank = t.blank
           /\ normalizeEndpoint(t).scheme = EndpointOf(t)[1]
           /\ InNormalForm(normalizeEndpoint(t))
<1>1. SUFFICES ASSUME NEW t \in Texts, normalizeEndpoint(t) # Unknown
      PROVE  /\ t.host # "" /\ normalizeEndpoint(t) \in Texts
             /\ normalizeEndpoint(t).host = t.host /\ ~normalizeEndpoint(t).slash
             /\ normalizeEndpoint(t).blank = t.blank
             /\ normalizeEndpoint(t).scheme = EndpointOf(t)[1]
             /\ InNormalForm(normalizeEndpoint(t))
  BY Zenon
<1> DEFINE sch == IF t.scheme = "" THEN "https" ELSE LowerCase[t.scheme]
<1>2. EndpointOf(t)[1] = sch
  BY DEF EndpointOf
<1>3. sch \in Schemes /\ sch # "" /\ LowerCase[sch] = sch
  <2>1. t.scheme \in Schemes \cup {""}
    BY DEF Texts
  <2>2. CASE t.scheme = ""
    BY <2>2, SchemesAssumption
  <2>3. CASE t.scheme \in Schemes
    <3>1. LowerCase[t.scheme] \in Schemes
      BY <2>3, SchemesAssumption
    <3>2. sch = LowerCase[t.scheme]
      BY <2>3, SchemesAssumption
    <3> HIDE DEF sch
    <3>3. QED
      BY <2>3, <3>1, <3>2, SchemesAssumption
  <2>4. QED
    BY <2>1, <2>2, <2>3
<1>4. t.host # "" /\ normalizeEndpoint(t) = [t EXCEPT !.scheme = sch, !.slash = FALSE]
  BY <1>1 DEF normalizeEndpoint
<1> HIDE DEF sch
<1>5. /\ normalizeEndpoint(t) \in Texts
      /\ normalizeEndpoint(t).scheme = sch /\ normalizeEndpoint(t).host = t.host
      /\ ~normalizeEndpoint(t).slash /\ normalizeEndpoint(t).blank = t.blank
  BY <1>3, <1>4 DEF Texts
<1>6. QED
  BY <1>2, <1>3, <1>4, <1>5 DEF InNormalForm

-----------------------------------------------------------------------------
(* Scopes                                                                  *)

LEMMA LeastNatural ==
    ASSUME NEW S \in SUBSET Nat, S # {}
    PROVE  \E x \in S : \A y \in S : x <= y
<1>1. PICK x \in S : \A y \in S : ~ (<<y, x>> \in OpToRel(<, Nat))
  BY WFMin, NatLessThanWellFounded, Zenon
<1>2. \A y \in S : ~ (y < x)
  BY <1>1 DEF OpToRel
<1>3. QED
  BY <1>2

\* A set of positions that is not empty has a first and a last.
LEMMA FirstAndLast ==
    ASSUME NEW n \in Nat, NEW S \in SUBSET (1..n), S # {}
    PROVE  /\ Min(S) \in S /\ Max(S) \in S
           /\ \A j \in S : Min(S) <= j /\ j <= Max(S)
<1>1. PICK i \in S : \A j \in S : i <= j
  BY LeastNatural
<1>2. Min(S) \in S /\ \A j \in S : Min(S) <= j
  BY <1>1 DEF Min
<1> DEFINE T == { n - j : j \in S }
<1>3. PICK k \in T : \A l \in T : k <= l
  <2>1. T \in SUBSET Nat /\ T # {}
    OBVIOUS
  <2> HIDE DEF T
  <2>2. QED
    BY <2>1, LeastNatural
<1>4. PICK m \in S : k = n - m
  BY <1>3
<1>5. ASSUME NEW j \in S PROVE m >= j
  <2>1. n - j \in T
    OBVIOUS
  <2> HIDE DEF T
  <2>2. k <= n - j
    BY <1>3, <2>1
  <2>3. QED
    BY <1>4, <2>2
<1>6. Max(S) \in S /\ \A j \in S : Max(S) >= j
  BY <1>5 DEF Max
<1>7. \A j \in S : j <= Max(S)
  BY <1>6
<1>8. QED
  BY <1>2, <1>6, <1>7

LEMMA PartType ==
    ASSUME NEW s \in Seq(Tokens), NEW m \in Int, NEW n \in Int, 1 <= m, n <= Len(s)
    PROVE  SubSeq(s, m, n) \in Seq(Tokens)
<1>1. \A i \in m..n : s[i] \in Tokens
  OBVIOUS
<1>2. QED
  BY <1>1, SubSeqProperties

LEMMA TrimType ==
    ASSUME NEW s \in Seq(Tokens)
    PROVE  Trim(s) \in Seq(Tokens)
<1> DEFINE solid == { i \in DOMAIN s : s[i] # " " }
<1>1. Trim(s) = IF solid = {} THEN <<>> ELSE SubSeq(s, Min(solid), Max(solid))
  BY DEF Trim
<1>2. Len(s) \in Nat /\ DOMAIN s = 1..Len(s) /\ <<>> \in Seq(Tokens)
  OBVIOUS
<1>3. solid \in SUBSET (1..Len(s))
  BY <1>2, Zenon
<1> HIDE DEF solid
<1>4. ASSUME solid # {} PROVE SubSeq(s, Min(solid), Max(solid)) \in Seq(Tokens)
  <2>1. Min(solid) \in 1..Len(s) /\ Max(solid) \in 1..Len(s)
    BY <1>2, <1>3, <1>4, FirstAndLast
  <2>2. QED
    BY <1>2, <2>1, PartType
<1>5. QED
  BY <1>1, <1>2, <1>4

LEMMA CutTypes ==
    ASSUME NEW s \in Seq(Tokens), NEW i \in DOMAIN s
    PROVE  /\ Before(s, i) \in Seq(Tokens) /\ After(s, i) \in Seq(Tokens)
           /\ SubSeq(s, 2, i - 1) \in Seq(Tokens)
<1>1. i \in 1..Len(s) /\ Len(s) \in Nat
  OBVIOUS
<1>2. i - 1 \in Int /\ i + 1 \in Int /\ i - 1 <= Len(s) /\ 1 <= i + 1
  BY <1>1
<1>3. QED
  BY <1>1, <1>2, PartType DEF Before, After

\* A scope that names an account names its parts as texts (scope.go:26-58).
LEMMA ScopeType ==
    ASSUME NEW scope \in Seq(Tokens)
    PROVE  parseSAScope(scope) \in Accounts \cup {None}
<1> DEFINE s     == Trim(scope)
           ats   == Positions(s, "@")
           aud   == IF ats = {} THEN <<>> ELSE Trim(After(s, Max(ats)))
           ref   == IF ats = {} THEN s ELSE Trim(Before(s, Max(ats)))
           parts == IF ref # <<>> /\ ref[1] = Canonical
                    THEN CanonicalParts(ref) ELSE ShorthandParts(ref)
           valid == { p \in parts : p[1] # <<>> /\ p[2] # <<>> }
           q     == CHOOSE p \in valid : TRUE
<1>1. parseSAScope(scope) = IF valid = {} THEN None
                            ELSE [ns |-> q[1], sa |-> q[2], aud |-> aud]
  BY DEF parseSAScope
<1>2. s \in Seq(Tokens)
  BY TrimType
<1>3. ats \in SUBSET (1..Len(s)) /\ Len(s) \in Nat /\ DOMAIN s = 1..Len(s)
  BY <1>2 DEF Positions
<1>4. aud \in Seq(Tokens) /\ ref \in Seq(Tokens)
  <2> HIDE DEF s, ats
  <2>1. CASE ats = {}
    BY <1>2, <2>1
  <2>2. CASE ats # {}
    <3>1. Max(ats) \in DOMAIN s
      BY <1>3, <2>2, FirstAndLast
    <3>2. QED
      BY <1>2, <2>2, <3>1, CutTypes, TrimType
  <2>3. QED
    BY <2>1, <2>2
<1> HIDE DEF aud, ref
<1>5. \A p \in parts : p[1] \in Seq(Tokens) /\ p[2] \in Seq(Tokens)
  <2>1. ASSUME NEW i \in DOMAIN ref
        PROVE  /\ SubSeq(ref, 2, i - 1) \in Seq(Tokens)
               /\ After(ref, i) \in Seq(Tokens)
               /\ Trim(Before(ref, i)) \in Seq(Tokens)
               /\ Trim(After(ref, i)) \in Seq(Tokens)
    BY <1>4, CutTypes, TrimType
  <2>2. \A p \in CanonicalParts(ref) : \E i \in DOMAIN ref :
          p = <<SubSeq(ref, 2, i - 1), After(ref, i)>>
    BY DEF CanonicalParts, Positions
  <2>3. \A p \in ShorthandParts(ref) : \E i \in DOMAIN ref :
          p = <<Trim(Before(ref, i)), Trim(After(ref, i))>>
    BY DEF ShorthandParts, Positions
  <2>4. parts = CanonicalParts(ref) \/ parts = ShorthandParts(ref)
    OBVIOUS
  <2> HIDE DEF parts
  <2>5. ASSUME NEW p \in CanonicalParts(ref)
        PROVE  p[1] \in Seq(Tokens) /\ p[2] \in Seq(Tokens)
    <3>1. PICK i \in DOMAIN ref : p = <<SubSeq(ref, 2, i - 1), After(ref, i)>>
      BY <2>2, <2>5
    <3>2. p[1] = SubSeq(ref, 2, i - 1) /\ p[2] = After(ref, i)
      BY <3>1
    <3>3. QED
      BY <2>1, <3>2, Zenon
  <2>6. ASSUME NEW p \in ShorthandParts(ref)
        PROVE  p[1] \in Seq(Tokens) /\ p[2] \in Seq(Tokens)
    <3>1. PICK i \in DOMAIN ref : p = <<Trim(Before(ref, i)), Trim(After(ref, i))>>
      BY <2>3, <2>6
    <3>2. p[1] = Trim(Before(ref, i)) /\ p[2] = Trim(After(ref, i))
      BY <3>1
    <3>3. QED
      BY <2>1, <3>2, Zenon
  <2>7. QED
    BY <2>4, <2>5, <2>6
<1>6. valid # {} => q \in parts
  <2> HIDE DEF parts
  <2>1. QED
    OBVIOUS
<1> HIDE DEF parts, valid, q
<1>7. QED
  BY <1>1, <1>4, <1>5, <1>6 DEF Accounts
-----------------------------------------------------------------------------
(* The inductive invariant                                                 *)

\* What a call starts from, and what it makes of it.
StoredURL       == IF config = None THEN Empty ELSE config.url
StoredClient    == IF config = None THEN DefaultClient ELSE config.client
EffectiveURL    == TrimURL(IF StoredURL = Empty THEN apiServerFromEnv ELSE StoredURL)
EffectiveClient == OrDefault(StoredClient)
Effective       == [url |-> EffectiveURL, client |-> EffectiveClient]

\* The stored configuration is the settings, normalized.
ConfigInv ==
    /\ config = None => DOMAIN maps[Shared] = {}
    /\ config # None =>
         /\ config = [url |-> TrimURL(settings.url), client |-> OrDefault(settings.client)]
         /\ DOMAIN maps[Shared] = DOMAIN settings.clusters
         /\ \A a \in DOMAIN settings.clusters :
              maps[Shared][a] = NormalizedCluster(settings.clusters[a])

\* A call's map is a part of the stored one.
PartOfStored(m) ==
    /\ DOMAIN m \subseteq DOMAIN maps[Shared]
    /\ \A a \in DOMAIN m : m[a] = maps[Shared][a]

\* A call that has begun has a map of its own, and knows what is stored; once it
\* is done copying it has all of that, and what normalizing it again makes of it
\* is the same.
CallInv(r) ==
    LET c == call[r]
    IN  /\ c.pc = "idle" => c = Idle /\ DOMAIN maps[r] = {}
        /\ c.pc # "idle" => c.map = r
        /\ PartOfStored(maps[r])
        /\ c.pc = "copy" =>
             /\ c.todo \subseteq DOMAIN maps[Shared]
             /\ DOMAIN maps[Shared] \ c.todo \subseteq DOMAIN maps[r]
             /\ c.url = StoredURL /\ c.client = StoredClient
        /\ c.pc \in {"normalize", "aimed"} => DOMAIN maps[r] = DOMAIN maps[Shared]
        /\ c.pc = "normalize" =>
             c.todo \subseteq DOMAIN maps[r] /\ c.url = EffectiveURL /\ c.client = EffectiveClient
        /\ c.pc = "aimed" =>
             /\ Target(Effective, maps[Shared], c.req.host) = [url |-> c.url, client |-> c.client]
             /\ c.account = parseSAScope(c.req.scope)

IInv == TypeOK /\ ConfigInv /\ \A r \in Calls : CallInv(r)

LEMMA SettingsFacts ==
    ASSUME TypeOK
    PROVE  /\ settings.url \in Texts /\ Sensible(settings.url)
           /\ settings.client \in Clients \cup {""}
           /\ DOMAIN settings.clusters \subseteq Texts
           /\ \A a \in DOMAIN settings.clusters :
                /\ settings.clusters[a] \in Clusters
                /\ Sensible(settings.clusters[a].url)
<1>1. settings \in Settings
  BY DEF TypeOK
<1>2. [url |-> settings.url, client |-> settings.client] \in Clusters
  BY <1>1, SettingsAssumption
<1>3. settings.url \in Texts /\ settings.client \in Clients \cup {""}
  BY <1>2 DEF Clusters
<1>4. QED
  BY <1>1, <1>3, SettingsAssumption

LEMMA EnvFacts ==
    ASSUME TypeOK
    PROVE  \A i \in 1..2 : env[i] \in Texts /\ Sensible(env[i]) /\ NoBareSlash(env[i])
  BY RequestsAssumption DEF TypeOK

LEMMA OrDefaultType ==
    \A k \in Clients \cup {""} : OrDefault(k) \in Clients
  BY RequestsAssumption DEF OrDefault

\* What a call works with has the right type.
LEMMA EffectiveTypes ==
    ASSUME TypeOK
    PROVE  /\ StoredURL \in Trimmed /\ StoredClient \in Clients
           /\ EffectiveURL \in Trimmed /\ EffectiveClient \in Clients
<1>1. config = None \/ config \in [url : Trimmed, client : Clients]
  BY DEF TypeOK
<1>2. StoredURL \in Trimmed
  BY <1>1, EmptyTrimmed DEF StoredURL
<1>3. StoredClient \in Clients
  BY <1>1, RequestsAssumption DEF StoredClient
<1>4. apiServerFromEnv \in Trimmed
  BY EnvFacts, TrimFacts DEF apiServerFromEnv
<1>5. EffectiveURL \in Trimmed
  BY <1>2, <1>4, TrimFacts, TrimmedFacts DEF EffectiveURL
<1>6. EffectiveClient \in Clients
  BY <1>3, OrDefaultType DEF EffectiveClient
<1>7. QED
  BY <1>2, <1>3, <1>5, <1>6

-----------------------------------------------------------------------------
(* Resolution                                                              *)

\* Two maps with the same clusters resolve a hostname alike.
LEMMA SameTarget ==
    ASSUME NEW c, NEW d, c.url = d.url, c.client = d.client, NEW m, NEW n, NEW host,
           DOMAIN m = DOMAIN n, \A a \in DOMAIN n : m[a] = n[a]
    PROVE  Target(c, m, host) = Target(d, n, host)
<1>1. resolveCluster(m, host) = resolveCluster(n, host)
  <2>1. CASE TrimSpace(host) \in DOMAIN n
    <3>1. m[TrimSpace(host)] = n[TrimSpace(host)]
      BY <2>1
    <3>2. QED
      BY <2>1, <3>1 DEF resolveCluster
  <2>2. CASE TrimSpace(host) \notin DOMAIN n
    BY <2>2 DEF resolveCluster
  <2>3. QED
    BY <2>1, <2>2
<1>2. QED
  BY <1>1 DEF Target

\* A hostname resolves to an alias, or to an endpoint, or not at all.
LEMMA Resolution ==
    ASSUME NEW m, NEW host
    PROVE  LET t == TrimSpace(host)
               url == normalizeEndpoint(t)
           IN  \/ /\ t \in DOMAIN m /\ t # Empty
                  /\ resolveCluster(m, host) = [url |-> TrimURL(m[t].url), client |-> m[t].client]
               \/ /\ t \notin DOMAIN m /\ looksLikeEndpoint(t) /\ url # Unknown
                  /\ resolveCluster(m, host) = [url |-> url, client |-> ""]
               \/ /\ ~(t \in DOMAIN m /\ t # Empty)
                  /\ ~(t \notin DOMAIN m /\ looksLikeEndpoint(t) /\ url # Unknown)
                  /\ resolveCluster(m, host) = Unknown
<1> DEFINE t == TrimSpace(host)
           url == normalizeEndpoint(t)
<1>1. CASE t \in DOMAIN m /\ t # Empty
  BY <1>1 DEF resolveCluster
<1>2. CASE t \notin DOMAIN m /\ looksLikeEndpoint(t) /\ url # Unknown
  BY <1>2 DEF resolveCluster
<1>3. CASE /\ ~(t \in DOMAIN m /\ t # Empty)
           /\ ~(t \notin DOMAIN m /\ looksLikeEndpoint(t) /\ url # Unknown)
  BY <1>3 DEF resolveCluster
<1>4. QED
  BY <1>1, <1>2, <1>3

LEMMA SameText ==
    \A x, y \in Trimmed : x.scheme = y.scheme /\ x.host = y.host => x = y
<1>1. ASSUME NEW x \in Trimmed
      PROVE  x = [blank |-> FALSE, scheme |-> x.scheme, host |-> x.host, slash |-> FALSE]
  <2>1. x \in Texts /\ ~x.blank /\ ~x.slash
    BY DEF Trimmed
  <2>2. x.blank = FALSE /\ x.slash = FALSE
    BY <2>1 DEF Texts
  <2>3. x = [blank |-> x.blank, scheme |-> x.scheme, host |-> x.host, slash |-> x.slash]
    BY <2>1 DEF Texts
  <2>4. QED
    BY <2>2, <2>3
<1>2. QED
  BY <1>1, Zenon

\* What becomes of an endpoint given directly: trimmed, with a host, and with a
\* scheme in lower case.
LEMMA DirectFacts ==
    ASSUME NEW host \in Texts, normalizeEndpoint(TrimSpace(host)) # Unknown
    PROVE  LET t == TrimSpace(host)
               url == normalizeEndpoint(t)
           IN  /\ url \in Trimmed /\ Sensible(url) /\ url.host = t.host
               /\ url.scheme = EndpointOf(t)[1] /\ InNormalForm(url)
<1> DEFINE t == TrimSpace(host)
<1>1. t \in Texts /\ ~t.blank
  BY DEF TrimSpace, Texts
<1> HIDE DEF t
<1>2. /\ t.host # "" /\ normalizeEndpoint(t) \in Texts
      /\ normalizeEndpoint(t).host = t.host /\ ~normalizeEndpoint(t).slash
      /\ ~normalizeEndpoint(t).blank
      /\ normalizeEndpoint(t).scheme = EndpointOf(t)[1] /\ InNormalForm(normalizeEndpoint(t))
  BY <1>1, EndpointFacts DEF t
<1>3. normalizeEndpoint(t) \in Trimmed
  BY <1>2 DEF Trimmed
<1>4. Sensible(normalizeEndpoint(t))
  BY <1>2 DEF Sensible
<1>5. QED
  BY <1>2, <1>3, <1>4 DEF t

\* A request that has a target has a trimmed URL and a client.
LEMMA TargetType ==
    ASSUME NEW c, c.url \in Trimmed, c.client \in Clients,
           NEW m, DOMAIN m \subseteq Texts,
           \A a \in DOMAIN m : m[a] \in Clusters,
           NEW host \in Texts, Target(c, m, host) # Unknown
    PROVE  /\ Target(c, m, host).url \in Trimmed /\ Target(c, m, host).client \in Clients
           /\ Target(c, m, host) = [url |-> Target(c, m, host).url,
                                    client |-> Target(c, m, host).client]
<1> DEFINE resolved == resolveCluster(m, host)
<1>1. CASE host = Empty
  BY <1>1 DEF Target
<1>2. CASE host # Empty
  <2>1. resolved # Unknown
    BY <1>2 DEF Target
  <2>2. resolved.url \in Trimmed /\ resolved.client \in Clients \cup {""}
    <3>1. CASE /\ TrimSpace(host) \in DOMAIN m
               /\ resolved = [url |-> TrimURL(m[TrimSpace(host)].url),
                              client |-> m[TrimSpace(host)].client]
      <4>1. m[TrimSpace(host)].url \in Texts /\ m[TrimSpace(host)].client \in Clients \cup {""}
        BY <3>1 DEF Clusters
      <4>2. TrimURL(m[TrimSpace(host)].url) \in Trimmed
        BY <4>1, TrimFacts
      <4> HIDE DEF resolved
      <4>3. QED
        BY <3>1, <4>1, <4>2
    <3>2. CASE /\ normalizeEndpoint(TrimSpace(host)) # Unknown
               /\ resolved = [url |-> normalizeEndpoint(TrimSpace(host)), client |-> ""]
      <4>1. normalizeEndpoint(TrimSpace(host)) \in Trimmed
        BY <3>2, DirectFacts
      <4> HIDE DEF resolved
      <4>2. QED
        BY <3>2, <4>1
    <3>3. QED
      BY <2>1, <3>1, <3>2, Resolution
  <2>3. Target(c, m, host) =
          [url |-> resolved.url,
           client |-> IF resolved.client # "" THEN resolved.client ELSE c.client]
    BY <1>2, <2>1 DEF Target
  <2> HIDE DEF resolved
  <2>4. PICK k \in Clients : Target(c, m, host) = [url |-> resolved.url, client |-> k]
    BY <2>2, <2>3
  <2>5. Target(c, m, host).url = resolved.url /\ Target(c, m, host).client = k
    BY <2>4
  <2>6. QED
    BY <2>2, <2>4, <2>5
<1>3. QED
  BY <1>1, <1>2

-----------------------------------------------------------------------------
(* The invariant holds                                                     *)

LEMMA InitInv == Init => IInv
<1> SUFFICES ASSUME Init PROVE IInv
  OBVIOUS
<1>1. Idle \in Preparing
  BY EmptyTrimmed DEF Idle, Preparing
<1>2. \A m \in Calls \cup {Shared} : maps[m] = NoClusters /\ DOMAIN maps[m] = {}
  BY DEF Init, NoClusters
<1>3. call \in [Calls -> Preparing \cup AimedCalls]
  BY <1>1 DEF Init
<1>4. TypeOK
  BY <1>2, <1>3 DEF Init, TypeOK
<1>5. ConfigInv
  BY <1>2 DEF Init, ConfigInv
<1>6. \A r \in Calls : CallInv(r)
  BY <1>2 DEF Init, CallInv, PartOfStored, Idle
<1>7. QED
  BY <1>4, <1>5, <1>6 DEF IInv

LEMMA ConfigureInv ==
    ASSUME IInv, Configure
    PROVE  IInv'
<1>1. \A a \in DOMAIN settings.clusters :
        NormalizedCluster(settings.clusters[a]) \in Clusters
        /\ NormalizedCluster(settings.clusters[a]).url \in Trimmed
  BY SettingsFacts, NormalizedFacts DEF IInv
<1>2. config' \in [url : Trimmed, client : Clients]
  <2>1. TrimURL(settings.url) \in Trimmed /\ OrDefault(settings.client) \in Clients
    BY SettingsFacts, TrimFacts, OrDefaultType DEF IInv
  <2>2. QED
    BY <2>1 DEF Configure
<1>3. /\ DOMAIN maps' = Calls \cup {Shared}
      /\ DOMAIN maps'[Shared] = DOMAIN settings.clusters
      /\ \A a \in DOMAIN settings.clusters :
           maps'[Shared][a] = NormalizedCluster(settings.clusters[a])
      /\ \A r \in Calls : maps'[r] = maps[r]
  BY CallsAssumption DEF IInv, TypeOK, Configure
<1>4. TypeOK'
  <2>1. ASSUME NEW m \in Calls \cup {Shared}
        PROVE  /\ DOMAIN maps'[m] \subseteq Texts
               /\ \A a \in DOMAIN maps'[m] :
                    maps'[m][a] \in Clusters /\ maps'[m][a].url \in Trimmed
    <3>1. CASE m = Shared
      BY <1>1, <1>3, <3>1, SettingsFacts DEF IInv
    <3>2. CASE m \in Calls
      BY <1>3, <3>2 DEF IInv, TypeOK
    <3>3. QED
      BY <3>1, <3>2
  <2>2. QED
    BY <1>2, <1>3, <2>1 DEF IInv, TypeOK, Configure
<1>5. ConfigInv'
  <2>1. config' # None
    BY <1>2, NoneAssumption, TrimmedFacts
  <2>2. QED
    BY <1>3, <2>1 DEF ConfigInv, Configure
<1>6. ASSUME NEW r \in Calls
      PROVE  CallInv(r)'
  <2>1. call'[r] = Idle /\ call[r] = Idle
    BY DEF Configure
  <2>2. call[r].pc = "idle" /\ call'[r].pc = "idle"
    <3>1. Idle.pc = "idle"
      BY DEF Idle
    <3>2. QED
      BY <2>1, <3>1
  <2>3. DOMAIN maps'[r] = {}
    BY <1>3, <2>2 DEF IInv, CallInv
  <2>4. PartOfStored(maps[r])'
    BY <2>3 DEF PartOfStored
  <2>5. QED
    BY <2>1, <2>2, <2>3, <2>4 DEF CallInv
<1>7. QED
  BY <1>4, <1>5, <1>6 DEF IInv

\* What a step of one call leaves alone keeps the invariant.
LEMMA OthersInv ==
    ASSUME NEW q \in Calls, CallInv(q), UNCHANGED <<env, config>>,
           maps'[Shared] = maps[Shared], maps'[q] = maps[q], call'[q] = call[q]
    PROVE  CallInv(q)'
  BY DEF CallInv, PartOfStored, StoredURL, StoredClient, EffectiveURL, EffectiveClient,
         Effective, apiServerFromEnv

LEMMA StepOfOne ==
    ASSUME IInv, UNCHANGED <<settings, env, config>>,
           NEW r \in Calls, NEW c \in Preparing \cup AimedCalls,
           call' = [call EXCEPT ![r] = c],
           DOMAIN maps' = DOMAIN maps,
           \A m \in (Calls \cup {Shared}) \ {r} : maps'[m] = maps[m],
           DOMAIN maps'[r] \subseteq Texts,
           \A a \in DOMAIN maps'[r] : maps'[r][a] \in Clusters /\ maps'[r][a].url \in Trimmed,
           CallInv(r)'
    PROVE  IInv'
<1>1. call' \in [Calls -> Preparing \cup AimedCalls]
  BY DEF IInv, TypeOK
<1>2. TypeOK'
  <2>1. ASSUME NEW m \in Calls \cup {Shared}
        PROVE  /\ DOMAIN maps'[m] \subseteq Texts
               /\ \A a \in DOMAIN maps'[m] :
                    maps'[m][a] \in Clusters /\ maps'[m][a].url \in Trimmed
    <3>1. CASE m = r
      BY <3>1
    <3>2. CASE m # r
      BY <3>2 DEF IInv, TypeOK
    <3>3. QED
      BY <3>1, <3>2
  <2>2. QED
    BY <1>1, <2>1 DEF IInv, TypeOK
<1>3. maps'[Shared] = maps[Shared]
  BY CallsAssumption
<1>4. ConfigInv'
  BY <1>3 DEF IInv, ConfigInv
<1>5. ASSUME NEW q \in Calls
      PROVE  CallInv(q)'
  <2>1. CASE q = r
    BY <2>1
  <2>2. CASE q # r
    <3>1. call'[q] = call[q] /\ maps'[q] = maps[q] /\ CallInv(q)
      BY <2>2 DEF IInv, TypeOK
    <3>2. QED
      BY <1>3, <3>1, OthersInv
  <2>3. QED
    BY <2>1, <2>2
<1>6. QED
  BY <1>2, <1>4, <1>5 DEF IInv

\* A call's own map and the stored one, as the invariant has them.
LEMMA MapFacts ==
    ASSUME IInv, NEW m \in Calls \cup {Shared}
    PROVE  /\ DOMAIN maps = Calls \cup {Shared} /\ DOMAIN maps[m] \subseteq Texts
           /\ \A a \in DOMAIN maps[m] :
                maps[m][a] \in Clusters /\ maps[m][a].url \in Trimmed
  BY DEF IInv, TypeOK

LEMMA BeginInv ==
    ASSUME IInv, NEW r \in Calls, Begin(r)
    PROVE  IInv'
<1> DEFINE c == [pc |-> "copy", map |-> r, todo |-> DOMAIN maps[Shared],
                 url |-> StoredURL, client |-> StoredClient]
<1>1. call' = [call EXCEPT ![r] = c]
  BY DEF Begin, StoredURL, StoredClient
<1>2. c \in Preparing
  <2>1. StoredURL \in Trimmed /\ StoredClient \in Clients /\ DOMAIN maps[Shared] \subseteq Texts
    BY EffectiveTypes, MapFacts DEF IInv
  <2>2. QED
    BY <2>1 DEF Preparing
<1>3. maps' = maps /\ UNCHANGED <<settings, env, config>> /\ call[r].pc = "idle"
  BY DEF Begin
<1>4. call'[r] = c
  BY <1>1 DEF IInv, TypeOK
<1>5. DOMAIN maps[r] = {}
  BY <1>3 DEF IInv, CallInv
<1>6. CallInv(r)'
  <2>1. /\ call'[r].pc = "copy" /\ call'[r].map = r /\ call'[r].todo = DOMAIN maps[Shared]
        /\ call'[r].url = StoredURL /\ call'[r].client = StoredClient
    BY <1>4
  <2>2. StoredURL' = StoredURL /\ StoredClient' = StoredClient
    BY <1>3 DEF StoredURL, StoredClient
  <2>3. PartOfStored(maps[r])'
    BY <1>3, <1>5 DEF PartOfStored
  <2> HIDE DEF c
  <2>4. QED
    BY <1>3, <2>1, <2>2, <2>3 DEF CallInv
<1> HIDE DEF c
<1>7. QED
  BY <1>1, <1>2, <1>3, <1>6, MapFacts, StepOfOne

\* A step of the two loops: one alias is done, its cluster the stored one.
LEMMA PutInv ==
    ASSUME IInv, NEW r \in Calls, call[r].pc \in {"copy", "normalize"},
           NEW a \in call[r].todo, NEW x, a \in DOMAIN maps[Shared], x = maps[Shared][a],
           maps' = [maps EXCEPT ![r] = Put(@, a, x)],
           call' = [call EXCEPT ![r].todo = @ \ {a}],
           UNCHANGED <<settings, env, config>>
    PROVE  IInv'
<1> DEFINE c == [call[r] EXCEPT !.todo = @ \ {a}]
<1>1. call[r] \in Preparing /\ CallInv(r) /\ PartOfStored(maps[r])
  <2>1. call[r] \in Preparing \cup AimedCalls
    BY DEF IInv, TypeOK
  <2>2. call[r] \notin AimedCalls
    BY DEF AimedCalls
  <2>3. QED
    BY <2>1, <2>2 DEF IInv, CallInv
<1>2. c \in Preparing
  BY <1>1 DEF Preparing
<1>3. /\ c.pc = call[r].pc /\ c.map = call[r].map /\ c.todo = call[r].todo \ {a}
      /\ c.url = call[r].url /\ c.client = call[r].client
  BY <1>1 DEF Preparing
<1>4. call' = [call EXCEPT ![r] = c] /\ call'[r] = c
  BY DEF IInv, TypeOK
<1>5. r \in DOMAIN maps /\ maps'[Shared] = maps[Shared] /\ maps'[r] = Put(maps[r], a, x)
  BY MapFacts, CallsAssumption
<1>6. /\ DOMAIN maps'[r] = DOMAIN maps[r] \cup {a}
      /\ \A b \in DOMAIN maps'[r] : maps'[r][b] = maps[Shared][b]
  <2>1. /\ DOMAIN Put(maps[r], a, x) = DOMAIN maps[r] \cup {a}
        /\ \A b \in DOMAIN maps[r] \cup {a} :
             Put(maps[r], a, x)[b] = IF b = a THEN x ELSE maps[r][b]
    BY DEF Put
  <2>2. ASSUME NEW b \in DOMAIN maps[r] \cup {a}
        PROVE  maps'[r][b] = maps[Shared][b]
    BY <1>1, <1>5, <2>1 DEF PartOfStored
  <2>3. QED
    BY <1>5, <2>1, <2>2
<1>7. DOMAIN maps'[r] \subseteq DOMAIN maps[Shared]
  BY <1>1, <1>6 DEF PartOfStored
<1>8. PartOfStored(maps[r])'
  BY <1>5, <1>6, <1>7 DEF PartOfStored
<1> HIDE DEF c
<1>9. CallInv(r)'
  <2>1. UNCHANGED <<StoredURL, StoredClient, EffectiveURL, EffectiveClient>>
    BY DEF StoredURL, StoredClient, EffectiveURL, EffectiveClient, apiServerFromEnv
  <2>2. CASE call[r].pc = "copy"
    <3>1. DOMAIN maps[Shared] \ c.todo \subseteq DOMAIN maps'[r]
      BY <1>1, <1>3, <1>6, <2>2 DEF CallInv
    <3>2. c.todo \subseteq DOMAIN maps[Shared] /\ c.url = StoredURL /\ c.client = StoredClient
      BY <1>1, <1>3, <2>2 DEF CallInv
    <3>3. c.pc = "copy" /\ c.map = r
      BY <1>1, <1>3, <2>2 DEF CallInv
    <3>4. QED
      BY <1>4, <1>5, <1>8, <2>1, <3>1, <3>2, <3>3 DEF CallInv
  <2>3. CASE call[r].pc = "normalize"
    <3>1. DOMAIN maps'[r] = DOMAIN maps[Shared] /\ c.todo \subseteq DOMAIN maps'[r]
      BY <1>1, <1>3, <1>6, <2>3 DEF CallInv
    <3>2. c.url = EffectiveURL /\ c.client = EffectiveClient
      BY <1>1, <1>3, <2>3 DEF CallInv
    <3>3. c.pc = "normalize" /\ c.map = r
      BY <1>1, <1>3, <2>3 DEF CallInv
    <3>4. QED
      BY <1>4, <1>5, <1>8, <2>1, <3>1, <3>2, <3>3 DEF CallInv
  <2>4. QED
    BY <2>2, <2>3
<1>10. \A b \in DOMAIN maps'[r] : maps'[r][b] \in Clusters /\ maps'[r][b].url \in Trimmed
  BY <1>6, <1>7, MapFacts
<1>11. DOMAIN maps'[r] \subseteq Texts
  BY <1>7, MapFacts
<1>12. DOMAIN maps' = DOMAIN maps /\ \A m \in (Calls \cup {Shared}) \ {r} : maps'[m] = maps[m]
  BY MapFacts
<1>13. QED
  BY <1>2, <1>4, <1>9, <1>10, <1>11, <1>12, StepOfOne

LEMMA CopyClusterInv ==
    ASSUME IInv, NEW r \in Calls, CopyCluster(r)
    PROVE  IInv'
<1>1. PICK a \in call[r].todo :
        /\ maps' = [maps EXCEPT ![call[r].map] = Put(@, a, maps[Shared][a])]
        /\ call' = [call EXCEPT ![r].todo = @ \ {a}]
  BY DEF CopyCluster
<1>2. call[r].pc = "copy" /\ UNCHANGED <<settings, env, config>>
  BY DEF CopyCluster
<1>3. call[r].map = r /\ a \in DOMAIN maps[Shared]
  BY <1>2 DEF IInv, CallInv
<1>4. QED
  BY <1>1, <1>2, <1>3, PutInv

LEMMA NormalizeClusterInv ==
    ASSUME IInv, NEW r \in Calls, NormalizeCluster(r)
    PROVE  IInv'
<1>1. PICK a \in call[r].todo :
        /\ maps' = [maps EXCEPT ![call[r].map] = Put(@, a, NormalizedCluster(@[a]))]
        /\ call' = [call EXCEPT ![r].todo = @ \ {a}]
  BY DEF NormalizeCluster
<1>2. call[r].pc = "normalize" /\ UNCHANGED <<settings, env, config>>
  BY DEF NormalizeCluster
<1>3. /\ call[r].map = r /\ a \in DOMAIN maps[r] /\ a \in DOMAIN maps[Shared]
      /\ maps[r][a] = maps[Shared][a]
  BY <1>2 DEF IInv, CallInv, PartOfStored
<1>4. NormalizedCluster(maps[r][a]) = maps[Shared][a]
  BY <1>3, MapFacts, NormalizedFacts
<1>5. maps' = [maps EXCEPT ![r] = Put(@, a, maps[Shared][a])]
  BY <1>1, <1>3, <1>4
<1>6. QED
  BY <1>1, <1>2, <1>3, <1>5, PutInv

LEMMA FillInInv ==
    ASSUME IInv, NEW r \in Calls, FillIn(r)
    PROVE  IInv'
<1> DEFINE c == [call[r] EXCEPT !.pc = "normalize", !.todo = DOMAIN maps[call[r].map],
                    !.url = TrimURL(IF call[r].url = Empty THEN apiServerFromEnv ELSE call[r].url),
                    !.client = OrDefault(call[r].client)]
<1>1. /\ call[r].pc = "copy" /\ call[r].todo = {} /\ call' = [call EXCEPT ![r] = c]
      /\ maps' = maps /\ UNCHANGED <<settings, env, config>>
  BY DEF FillIn
<1>2. /\ call[r].map = r /\ call[r].url = StoredURL /\ call[r].client = StoredClient
      /\ PartOfStored(maps[r]) /\ DOMAIN maps[r] = DOMAIN maps[Shared]
  BY <1>1 DEF IInv, CallInv, PartOfStored
<1>3. call[r] \in Preparing
  <2>1. call[r] \in Preparing \cup AimedCalls
    BY DEF IInv, TypeOK
  <2>2. call[r] \notin AimedCalls
    BY <1>1 DEF AimedCalls
  <2>3. QED
    BY <2>1, <2>2
<1>4. c = [call[r] EXCEPT !.pc = "normalize", !.todo = DOMAIN maps[r],
                          !.url = EffectiveURL, !.client = EffectiveClient]
  BY <1>2 DEF EffectiveURL, EffectiveClient
<1> HIDE DEF c
<1>5. DOMAIN maps[r] \subseteq Texts /\ EffectiveURL \in Trimmed /\ EffectiveClient \in Clients
  BY MapFacts, EffectiveTypes DEF IInv
<1>6. c \in Preparing
  BY <1>3, <1>4, <1>5 DEF Preparing
<1>7. /\ c.pc = "normalize" /\ c.map = r /\ c.todo = DOMAIN maps[r]
      /\ c.url = EffectiveURL /\ c.client = EffectiveClient
  BY <1>2, <1>3, <1>4 DEF Preparing
<1>8. call'[r] = c
  BY <1>1 DEF IInv, TypeOK
<1>9. CallInv(r)'
  <2>1. UNCHANGED <<EffectiveURL, EffectiveClient>>
    BY <1>1 DEF StoredURL, StoredClient, EffectiveURL, EffectiveClient, apiServerFromEnv
  <2>2. PartOfStored(maps[r])'
    BY <1>1, <1>2 DEF PartOfStored
  <2>3. QED
    BY <1>1, <1>2, <1>7, <1>8, <2>1, <2>2 DEF CallInv
<1>10. QED
  BY <1>1, <1>6, <1>9, MapFacts, StepOfOne

\* What every call that has its own effective configuration makes of a hostname.
LEMMA EffectiveTarget ==
    ASSUME IInv, NEW r \in Calls, call[r].pc = "normalize", NEW host \in Texts
    PROVE  /\ Target(call[r], maps[call[r].map], host) = Target(Effective, maps[Shared], host)
           /\ call[r].map = r
<1>1. /\ call[r].map = r /\ DOMAIN maps[r] = DOMAIN maps[Shared] /\ PartOfStored(maps[r])
      /\ call[r].url = EffectiveURL /\ call[r].client = EffectiveClient
  BY DEF IInv, CallInv
<1>2. Effective.url = EffectiveURL /\ Effective.client = EffectiveClient
  BY DEF Effective
<1>3. \A a \in DOMAIN maps[Shared] : maps[r][a] = maps[Shared][a]
  BY <1>1 DEF PartOfStored
<1>4. QED
  BY <1>1, <1>2, <1>3, SameTarget

LEMMA EffectiveTargetType ==
    ASSUME IInv, NEW host \in Texts, Target(Effective, maps[Shared], host) # Unknown
    PROVE  LET target == Target(Effective, maps[Shared], host)
           IN  /\ target.url \in Trimmed /\ target.client \in Clients
               /\ target = [url |-> target.url, client |-> target.client]
<1>1. Effective.url \in Trimmed /\ Effective.client \in Clients
  BY EffectiveTypes DEF Effective, IInv
<1>2. DOMAIN maps[Shared] \subseteq Texts /\ \A a \in DOMAIN maps[Shared] : maps[Shared][a] \in Clusters
  BY MapFacts
<1>3. QED
  BY <1>1, <1>2, TargetType

LEMMA AimInv ==
    ASSUME IInv, NEW r \in Calls, Aim(r)
    PROVE  IInv'
<1>1. PICK req \in Requests :
        call' = [call EXCEPT ![r] =
                   IF Target(call[r], maps[call[r].map], req.host) = Unknown
                   THEN [Idle EXCEPT !.pc = "failed", !.map = r]
                   ELSE [pc |-> "aimed", map |-> call[r].map,
                         url |-> Target(call[r], maps[call[r].map], req.host).url,
                         client |-> Target(call[r], maps[call[r].map], req.host).client,
                         req |-> req, account |-> parseSAScope(req.scope)]]
  BY DEF Aim
<1>2. call[r].pc = "normalize" /\ maps' = maps /\ UNCHANGED <<settings, env, config>>
  BY DEF Aim
<1>3. req.host \in Texts /\ req.scope \in Seq(Tokens)
  BY RequestsAssumption
<1> DEFINE target == Target(Effective, maps[Shared], req.host)
<1>4. Target(call[r], maps[call[r].map], req.host) = target /\ call[r].map = r
  BY <1>2, <1>3, EffectiveTarget
<1>5. PartOfStored(maps[r]) /\ DOMAIN maps[r] = DOMAIN maps[Shared] /\ PartOfStored(maps[r])'
  BY <1>2 DEF IInv, CallInv, PartOfStored
<1>6. CASE target = Unknown
  <2> DEFINE c == [Idle EXCEPT !.pc = "failed", !.map = r]
  <2>1. call' = [call EXCEPT ![r] = c]
    BY <1>1, <1>4, <1>6
  <2>2. c \in Preparing /\ c.pc = "failed" /\ c.map = r
    BY EmptyTrimmed DEF Idle, Preparing
  <2> HIDE DEF c
  <2>3. call'[r] = c
    BY <2>1 DEF IInv, TypeOK
  <2>4. CallInv(r)'
    BY <1>5, <2>2, <2>3 DEF CallInv
  <2>5. QED
    BY <1>2, <2>1, <2>2, <2>4, MapFacts, StepOfOne
<1>7. CASE target # Unknown
  <2> DEFINE c == [pc |-> "aimed", map |-> r, url |-> target.url, client |-> target.client,
                   req |-> req, account |-> parseSAScope(req.scope)]
  <2>1. call' = [call EXCEPT ![r] = c]
    BY <1>1, <1>4, <1>7
  <2>2. /\ target.url \in Trimmed /\ target.client \in Clients
        /\ target = [url |-> target.url, client |-> target.client]
    BY <1>3, <1>7, EffectiveTargetType
  <2>3. parseSAScope(req.scope) \in Accounts \cup {None}
    BY <1>3, ScopeType
  <2>4. /\ c.pc = "aimed" /\ c.map = r /\ c.url = target.url /\ c.client = target.client
        /\ c.req = req /\ c.account = parseSAScope(req.scope)
    OBVIOUS
  <2>5. c \in AimedCalls
    BY <2>2, <2>3 DEF AimedCalls
  <2>6. Target(Effective, maps[Shared], c.req.host) = [url |-> c.url, client |-> c.client]
    BY <2>2, <2>4
  <2> HIDE DEF c
  <2>7. call'[r] = c
    BY <2>1 DEF IInv, TypeOK
  <2>8. Effective' = Effective /\ maps'[Shared] = maps[Shared]
    BY <1>2 DEF Effective, EffectiveURL, EffectiveClient, StoredURL, StoredClient,
                apiServerFromEnv
  <2>9. CallInv(r)'
    BY <1>2, <1>5, <2>4, <2>6, <2>7, <2>8 DEF CallInv
  <2>10. QED
    BY <1>2, <2>1, <2>5, <2>9, MapFacts, StepOfOne
<1>8. QED
  BY <1>6, <1>7

LEMMA NextInv ==
    ASSUME IInv, [Next]_vars
    PROVE  IInv'
<1>1. CASE Configure
  BY <1>1, ConfigureInv
<1>2. ASSUME NEW r \in Calls, Begin(r) PROVE IInv'
  BY <1>2, BeginInv
<1>3. ASSUME NEW r \in Calls, CopyCluster(r) PROVE IInv'
  BY <1>3, CopyClusterInv
<1>4. ASSUME NEW r \in Calls, FillIn(r) PROVE IInv'
  BY <1>4, FillInInv
<1>5. ASSUME NEW r \in Calls, NormalizeCluster(r) PROVE IInv'
  BY <1>5, NormalizeClusterInv
<1>6. ASSUME NEW r \in Calls, Aim(r) PROVE IInv'
  BY <1>6, AimInv
<1>7. CASE UNCHANGED vars
  <2>1. TypeOK' /\ ConfigInv'
    BY <1>7 DEF vars, IInv, TypeOK, ConfigInv
  <2>2. ASSUME NEW r \in Calls PROVE CallInv(r)'
    BY <1>7, OthersInv DEF vars, IInv
  <2>3. QED
    BY <2>1, <2>2 DEF IInv
<1>8. QED
  BY <1>1, <1>2, <1>3, <1>4, <1>5, <1>6, <1>7 DEF Next

\* In every state that is reached, the stored configuration is the normalized
\* settings, and what a call has copied, filled in and normalized is what the
\* settings and the environment say (config.go, effectiveConfig).
THEOREM Invariance == Spec => []IInv
<1>1. Init => IInv
  BY InitInv
<1>2. IInv /\ [Next]_vars => IInv'
  BY NextInv
<1>3. QED
  BY <1>1, <1>2, PTL DEF Spec

\* What is stored and what a call works with keeps its type, trimmed throughout.
THEOREM TypeCorrect == Spec => []TypeOK
<1>1. IInv => TypeOK
  BY DEF IInv
<1>2. QED
  BY <1>1, Invariance, PTL

-----------------------------------------------------------------------------
(* What follows                                                            *)

\* No call writes a map of clusters that another reads or writes
\* (auth_handler.go:375-387), however many calls there are.
THEOREM NoRace == Spec => []NoMapRace
<1>1. IInv => NoMapRace
  <2> SUFFICES ASSUME IInv, NEW r \in Calls, NEW q \in Calls, NEW m \in Calls \cup {Shared},
                      r # q, Writes(r, m), Reads(q, m)
               PROVE  FALSE
    BY DEF NoMapRace
  <2>1. m = r
    BY DEF Writes, IInv, CallInv
  <2>2. r # Shared
    BY CallsAssumption
  <2>3. QED
    BY <2>1, <2>2 DEF Writes, Reads, IInv, CallInv
<1>2. QED
  BY <1>1, Invariance, PTL

\* An aimed call has what its hostname resolves to.
LEMMA AimedFacts ==
    ASSUME IInv, NEW r \in Calls, Aimed(r)
    PROVE  /\ call[r].req \in Requests /\ call[r].req.host \in Texts
           /\ call[r].url \in Trimmed /\ call[r].client \in Clients
           /\ call[r].account \in Accounts \cup {None}
           /\ Target(Effective, maps[Shared], call[r].req.host) =
                [url |-> call[r].url, client |-> call[r].client]
           /\ Target(Effective, maps[Shared], call[r].req.host) # Unknown
<1>1. call[r] \in AimedCalls
  <2>1. call[r] \in Preparing \cup AimedCalls
    BY DEF IInv, TypeOK
  <2>2. call[r] \notin Preparing
    BY DEF Aimed, Preparing
  <2>3. QED
    BY <2>1, <2>2
<1>2. /\ call[r].req \in Requests /\ call[r].url \in Trimmed /\ call[r].client \in Clients
      /\ call[r].account \in Accounts \cup {None}
  BY <1>1 DEF AimedCalls
<1>3. Target(Effective, maps[Shared], call[r].req.host) =
        [url |-> call[r].url, client |-> call[r].client]
  BY DEF IInv, CallInv, Aimed
<1>4. [url |-> call[r].url, client |-> call[r].client] \in Clusters
  BY <1>2, TrimmedFacts DEF Clusters
<1>5. QED
  BY <1>2, <1>3, <1>4, RequestsAssumption, UnknownAssumption

\* With a hostname, what is resolved is the alias's cluster or the endpoint.
LEMMA AimedByHost ==
    ASSUME IInv, NEW r \in Calls, Aimed(r), call[r].req.host # Empty
    PROVE  LET t == TrimSpace(call[r].req.host)
           IN  \/ /\ t \in DOMAIN maps[Shared] /\ t # Empty
                  /\ call[r].url = maps[Shared][t].url
                  /\ call[r].client = IF maps[Shared][t].client # ""
                                      THEN maps[Shared][t].client ELSE EffectiveClient
               \/ /\ t \notin DOMAIN maps[Shared] /\ normalizeEndpoint(t) # Unknown
                  /\ call[r].url = normalizeEndpoint(t) /\ call[r].client = EffectiveClient
<1> DEFINE host == call[r].req.host
           t == TrimSpace(host)
           resolved == resolveCluster(maps[Shared], host)
<1>1. /\ Target(Effective, maps[Shared], host) = [url |-> call[r].url, client |-> call[r].client]
      /\ Target(Effective, maps[Shared], host) # Unknown
  BY AimedFacts
<1>2. /\ resolved # Unknown
      /\ Target(Effective, maps[Shared], host) =
           [url |-> resolved.url,
            client |-> IF resolved.client # "" THEN resolved.client ELSE Effective.client]
  BY <1>1 DEF Target
<1>3. Effective.client = EffectiveClient
  BY DEF Effective
<1>4. call[r].url = resolved.url
  <2> HIDE DEF resolved
  <2>1. PICK k : Target(Effective, maps[Shared], host) = [url |-> resolved.url, client |-> k]
    BY <1>2
  <2>2. QED
    BY <1>1, <2>1
<1>5. call[r].client = IF resolved.client # "" THEN resolved.client ELSE EffectiveClient
  <2> DEFINE k == IF resolved.client # "" THEN resolved.client ELSE EffectiveClient
  <2>1. Target(Effective, maps[Shared], host) = [url |-> resolved.url, client |-> k]
    BY <1>2, <1>3
  <2> HIDE DEF k, resolved
  <2>2. call[r].client = k
    BY <1>1, <2>1
  <2>3. QED
    BY <2>2 DEF k
<1>6. CASE /\ t \in DOMAIN maps[Shared] /\ t # Empty
           /\ resolved = [url |-> TrimURL(maps[Shared][t].url), client |-> maps[Shared][t].client]
  <2>1. maps[Shared][t].url \in Trimmed
    BY <1>6, MapFacts
  <2>2. resolved.url = TrimURL(maps[Shared][t].url) /\ resolved.client = maps[Shared][t].client
    <3> HIDE DEF resolved
    <3>1. QED
      BY <1>6
  <2>3. TrimURL(maps[Shared][t].url) = maps[Shared][t].url
    BY <2>1, TrimmedFacts
  <2> HIDE DEF resolved
  <2>4. QED
    BY <1>4, <1>5, <1>6, <2>2, <2>3
<1>7. CASE /\ t \notin DOMAIN maps[Shared] /\ normalizeEndpoint(t) # Unknown
           /\ resolved = [url |-> normalizeEndpoint(t), client |-> ""]
  <2> HIDE DEF resolved
  <2>1. resolved.url = normalizeEndpoint(t) /\ resolved.client = ""
    BY <1>7
  <2>2. QED
    BY <1>4, <1>5, <1>7, <2>1
<1>8. QED
  BY <1>2, <1>6, <1>7, Resolution

\* The stored cluster of an alias is the one of the settings, normalized.
LEMMA AliasFacts ==
    ASSUME IInv, config # None, NEW t \in DOMAIN settings.clusters
    PROVE  /\ DOMAIN maps[Shared] = DOMAIN settings.clusters
           /\ maps[Shared][t].url = TrimURL(settings.clusters[t].url)
           /\ maps[Shared][t].client = settings.clusters[t].client
           /\ maps[Shared][t].url.scheme = settings.clusters[t].url.scheme
           /\ maps[Shared][t].url.host = settings.clusters[t].url.host
<1>1. /\ DOMAIN maps[Shared] = DOMAIN settings.clusters
      /\ maps[Shared][t] = NormalizedCluster(settings.clusters[t])
  BY DEF IInv, ConfigInv
<1>2. settings.clusters[t] \in Clusters
  BY SettingsFacts DEF IInv
<1>3. settings.clusters[t].url \in Texts
  BY <1>2 DEF Clusters
<1>4. QED
  BY <1>1, <1>2, <1>3, NormalizedFacts, TrimFacts

LEMMA TrimTwice ==
    \A t \in Texts : TrimURL(TrimURL(t)) = TrimURL(t)
  BY TrimFacts, TrimmedFacts

\* A blank value is no value, and one that is none but slashes is excluded.
LEMMA BlankValue ==
    ASSUME NEW t \in Texts, NoBareSlash(t)
    PROVE  TrimSpace(t) = Empty <=> TrimURL(t) = Empty
<1>1. ASSUME TrimSpace(t) = Empty PROVE TrimURL(t) = Empty
  <2>1. TrimURL(t).host = Empty.host /\ TrimURL(t).scheme = Empty.scheme
    BY <1>1, TrimFacts
  <2>2. QED
    BY <2>1, TrimFacts, EmptyTrimmed, SameText
<1>2. ASSUME TrimURL(t) = Empty PROVE TrimSpace(t) = Empty
  <2>1. TrimURL(t).host = "" /\ TrimURL(t).scheme = ""
    <3>1. Empty.host = "" /\ Empty.scheme = ""
      BY DEF Empty
    <3>2. QED
      BY <1>2, <3>1
  <2>2. t.host = "" /\ ~t.slash
    BY <2>1, TrimFacts DEF NoBareSlash
  <2>3. TrimSpace(t) \in Trimmed
    BY <2>2 DEF Trimmed, TrimSpace, Texts
  <2>4. TrimSpace(t).host = TrimURL(t).host /\ TrimSpace(t).scheme = TrimURL(t).scheme
    BY TrimFacts
  <2>5. QED
    BY <1>2, <2>3, <2>4, EmptyTrimmed, SameText
<1>3. QED
  BY <1>1, <1>2

\* A call works with the first URL that is set.
LEMMA EffectiveIsFirst ==
    ASSUME IInv, config # None
    PROVE  EffectiveURL = FirstSet(settings.url, env[1], env[2])
<1>1. StoredURL = TrimURL(settings.url) /\ settings.url \in Texts
  <2>1. config = [url |-> TrimURL(settings.url), client |-> OrDefault(settings.client)]
    BY DEF IInv, ConfigInv
  <2>2. settings.url \in Texts
    BY SettingsFacts DEF IInv
  <2>3. QED
    BY <2>1, <2>2 DEF StoredURL
<1>2. /\ env[1] \in Texts /\ env[2] \in Texts
      /\ TrimSpace(env[1]) = Empty <=> TrimURL(env[1]) = Empty
  <2>1. /\ env[1] \in Texts /\ env[2] \in Texts /\ NoBareSlash(env[1])
    BY EnvFacts DEF IInv
  <2>2. QED
    BY <2>1, BlankValue
<1>3. CASE TrimURL(settings.url) # Empty
  BY <1>1, <1>3, TrimTwice DEF EffectiveURL, FirstSet
<1>4. CASE TrimURL(settings.url) = Empty /\ TrimURL(env[1]) # Empty
  <2>1. apiServerFromEnv = TrimURL(env[1])
    BY <1>2, <1>4 DEF apiServerFromEnv
  <2>2. FirstSet(settings.url, env[1], env[2]) = TrimURL(env[1])
    BY <1>4 DEF FirstSet
  <2>3. QED
    BY <1>1, <1>2, <1>4, <2>1, <2>2, TrimTwice DEF EffectiveURL
<1>5. CASE TrimURL(settings.url) = Empty /\ TrimURL(env[1]) = Empty
  <2>1. apiServerFromEnv = TrimURL(env[2])
    BY <1>2, <1>5 DEF apiServerFromEnv
  <2>2. FirstSet(settings.url, env[1], env[2]) = TrimURL(env[2])
    BY <1>5 DEF FirstSet
  <2>3. QED
    BY <1>1, <1>2, <1>5, <2>1, <2>2, TrimTwice DEF EffectiveURL
<1>6. QED
  BY <1>3, <1>4, <1>5

\* A request without a hostname is about the server its call works with.
LEMMA HostlessURL ==
    ASSUME IInv, NEW r \in Calls, Aimed(r), call[r].req.host = Empty
    PROVE  call[r].url = EffectiveURL
<1>1. Target(Effective, maps[Shared], call[r].req.host) =
        [url |-> Effective.url, client |-> Effective.client]
  BY DEF Target
<1>2. [url |-> Effective.url, client |-> Effective.client] =
        [url |-> call[r].url, client |-> call[r].client]
  BY <1>1, AimedFacts
<1>3. Effective.url = EffectiveURL
  BY DEF Effective
<1>4. QED
  BY <1>2, <1>3

\* The URL of a request, whichever way its hostname spells it.
LEMMA SpelledFacts ==
    ASSUME IInv, config # None, NEW r \in Calls, Aimed(r)
    PROVE  LET h == call[r].req.host
           IN  /\ call[r].url.scheme = KeptScheme(h)
               /\ EndpointOf(call[r].url) = EndpointOf(SpelledURL(h))
               /\ EndpointOf(SpelledURL(h))[2] = call[r].url.host
<1> DEFINE h == call[r].req.host
           t == TrimSpace(h)
<1>1. DOMAIN maps[Shared] = DOMAIN settings.clusters /\ h \in Texts
  BY AimedFacts DEF IInv, ConfigInv
<1>2. t.scheme = h.scheme /\ t.host = h.host
  BY <1>1, TrimFacts
<1>3. CASE Direct(h)
  <2>1. SpelledURL(h) = h /\ KeptScheme(h) = EndpointOf(h)[1]
    BY <1>3, Zenon DEF SpelledURL, KeptScheme, Direct
  <2>2. call[r].url = normalizeEndpoint(t) /\ normalizeEndpoint(t) # Unknown
    BY <1>1, <1>3, AimedByHost DEF Direct
  <2>3. /\ call[r].url.host = h.host
        /\ call[r].url.scheme = EndpointOf(t)[1] /\ InNormalForm(call[r].url)
    BY <1>1, <1>2, <2>2, DirectFacts
  <2>4. EndpointOf(t) = EndpointOf(h)
    BY <1>2 DEF EndpointOf
  <2>5. EndpointOf(call[r].url) = EndpointOf(h) /\ EndpointOf(h)[2] = h.host
    BY <2>3, <2>4 DEF EndpointOf, InNormalForm
  <2>6. QED
    BY <2>1, <2>3, <2>4, <2>5
<1>4. CASE h = Empty
  <2>1. SpelledURL(h) = FirstSet(settings.url, env[1], env[2])
        /\ KeptScheme(h) = SpelledURL(h).scheme
    BY <1>4 DEF SpelledURL, KeptScheme, Direct
  <2>2. call[r].url = SpelledURL(h)
    BY <1>4, <2>1, HostlessURL, EffectiveIsFirst
  <2>3. QED
    BY <2>1, <2>2 DEF EndpointOf
<1>5. CASE ~Direct(h) /\ h # Empty
  <2>1. t \in DOMAIN settings.clusters
    BY <1>5 DEF Direct
  <2>2. SpelledURL(h) = settings.clusters[t].url /\ KeptScheme(h) = SpelledURL(h).scheme
    BY <1>5 DEF SpelledURL, KeptScheme
  <2>3. call[r].url = maps[Shared][t].url
    BY <1>1, <1>5, <2>1, AimedByHost
  <2>4. call[r].url.scheme = SpelledURL(h).scheme /\ call[r].url.host = SpelledURL(h).host
    BY <2>1, <2>2, <2>3, AliasFacts
  <2>5. QED
    BY <2>2, <2>4 DEF EndpointOf
<1>6. QED
  BY <1>3, <1>4, <1>5

\* Two requests are about one server exactly when they spell one endpoint and the
\* scheme is kept the same: always for two hostnames given directly, and for
\* aliases, settings and variables that have their scheme in lower case, for any
\* of them (config.go:114-175).
THEOREM OneServer == Spec => []SpellingsAgree
<1>1. IInv => SpellingsAgree
  <2> SUFFICES ASSUME IInv, NEW r \in Calls, NEW q \in Calls, config # None, Aimed(r), Aimed(q)
               PROVE  LET h == call[r].req.host
                          g == call[q].req.host
                      IN  call[r].url = call[q].url <=>
                            /\ EndpointOf(SpelledURL(h)) = EndpointOf(SpelledURL(g))
                            /\ KeptScheme(h) = KeptScheme(g)
    BY DEF SpellingsAgree
  <2> DEFINE h == call[r].req.host
             g == call[q].req.host
  <2>1. /\ call[r].url.scheme = KeptScheme(h) /\ call[q].url.scheme = KeptScheme(g)
        /\ EndpointOf(call[r].url) = EndpointOf(SpelledURL(h))
        /\ EndpointOf(call[q].url) = EndpointOf(SpelledURL(g))
        /\ EndpointOf(SpelledURL(h))[2] = call[r].url.host
        /\ EndpointOf(SpelledURL(g))[2] = call[q].url.host
    BY SpelledFacts
  <2>2. call[r].url \in Trimmed /\ call[q].url \in Trimmed
    BY AimedFacts
  <2> HIDE DEF h, g
  <2>3. ASSUME call[r].url = call[q].url
        PROVE  /\ EndpointOf(SpelledURL(h)) = EndpointOf(SpelledURL(g))
               /\ KeptScheme(h) = KeptScheme(g)
    BY <2>1, <2>3
  <2>4. ASSUME EndpointOf(SpelledURL(h)) = EndpointOf(SpelledURL(g)),
               KeptScheme(h) = KeptScheme(g)
        PROVE  call[r].url = call[q].url
    <3>1. call[r].url.scheme = call[q].url.scheme /\ call[r].url.host = call[q].url.host
      BY <2>1, <2>4
    <3>2. QED
      BY <2>2, <3>1, SameText
  <2>5. QED
    BY <2>3, <2>4 DEF h, g
<1>2. QED
  BY <1>1, Invariance, PTL

\* A target with a scheme has a host.
LEMMA TargetSensible ==
    ASSUME IInv, NEW r \in Calls, Aimed(r)
    PROVE  Sensible(call[r].url)
<1>1. CASE call[r].req.host = Empty
  <2>1. call[r].url = EffectiveURL
    BY <1>1, HostlessURL
  <2>2. Sensible(StoredURL) /\ StoredURL \in Texts
    <3>1. CASE config = None
      BY <3>1, EmptyTrimmed DEF StoredURL
    <3>2. CASE config # None
      <4>1. StoredURL = TrimURL(settings.url)
        BY <3>2 DEF StoredURL, IInv, ConfigInv
      <4>2. QED
        BY <4>1, SettingsFacts, TrimFacts DEF IInv, Sensible
    <3>3. QED
      BY <3>1, <3>2
  <2>3. Sensible(apiServerFromEnv) /\ apiServerFromEnv \in Texts
    <3>1. ASSUME NEW i \in 1..2
          PROVE  Sensible(TrimURL(env[i])) /\ TrimURL(env[i]) \in Texts
      <4>1. env[i] \in Texts /\ Sensible(env[i])
        BY EnvFacts DEF IInv
      <4>2. QED
        BY <4>1, TrimFacts DEF Sensible
    <3>2. apiServerFromEnv = TrimURL(env[1]) \/ apiServerFromEnv = TrimURL(env[2])
      BY DEF apiServerFromEnv
    <3>3. 1 \in 1..2 /\ 2 \in 1..2
      OBVIOUS
    <3>4. QED
      BY <3>1, <3>2, <3>3
  <2>4. Sensible(EffectiveURL)
    BY <2>2, <2>3, TrimFacts DEF Sensible, EffectiveURL
  <2>5. QED
    BY <2>1, <2>4
<1>2. CASE call[r].req.host # Empty
  <2> DEFINE t == TrimSpace(call[r].req.host)
  <2>1. CASE t \in DOMAIN maps[Shared] /\ call[r].url = maps[Shared][t].url
    <3>1. config # None
      BY <2>1 DEF IInv, ConfigInv
    <3>2. t \in DOMAIN settings.clusters
      BY <2>1, <3>1 DEF IInv, ConfigInv
    <3>3. Sensible(settings.clusters[t].url)
      BY <3>2, SettingsFacts DEF IInv
    <3>4. QED
      BY <2>1, <3>1, <3>2, <3>3, AliasFacts DEF Sensible
  <2>2. CASE normalizeEndpoint(t) # Unknown /\ call[r].url = normalizeEndpoint(t)
    BY <2>2, AimedFacts, DirectFacts
  <2>3. QED
    BY <1>2, <2>1, <2>2, AimedByHost
<1>3. QED
  BY <1>1, <1>2

\* A request whose hostname is the URL a session is listed under, if that is no
\* alias, is about that session's server exactly when the URL has its scheme, in
\* lower case (cache.go:271-276, config.go:136-175).
THEOREM ListedSessionFound == Spec => []SessionFoundAgain
<1>1. IInv => SessionFoundAgain
  <2> SUFFICES ASSUME IInv, NEW r \in Calls, NEW q \in Calls, Aimed(r), call[r].url # Empty,
                      call[r].url \notin DOMAIN settings.clusters,
                      call[q].pc = "normalize"
               PROVE  LET target == Target(call[q], maps[call[q].map], call[r].url)
                      IN  target # Unknown /\ target.url = call[r].url
                            <=> InNormalForm(call[r].url)
    BY DEF SessionFoundAgain
  <2> DEFINE u == call[r].url
             target == Target(call[q], maps[call[q].map], u)
             resolved == resolveCluster(maps[Shared], u)
  <2>1. u \in Trimmed /\ u \in Texts /\ TrimSpace(u) = u /\ Sensible(u)
    BY AimedFacts, TargetSensible, TrimmedFacts
  <2>2. target = Target(Effective, maps[Shared], u)
    BY <2>1, EffectiveTarget
  <2>3. u \notin DOMAIN maps[Shared]
    BY DEF IInv, ConfigInv
  <2>4. ASSUME InNormalForm(u) PROVE target # Unknown /\ target.url = u
    <3>1. u.scheme # "" /\ u.host # "" /\ LowerCase[u.scheme] = u.scheme
      BY <2>1, <2>4 DEF InNormalForm, Sensible
    <3>2. normalizeEndpoint(u) = [u EXCEPT !.scheme = u.scheme, !.slash = FALSE]
      BY <3>1 DEF normalizeEndpoint
    <3>3. normalizeEndpoint(u) \in Texts
      BY <2>1, <3>2 DEF Texts
    <3>4. normalizeEndpoint(u) # Unknown /\ looksLikeEndpoint(u)
      BY <3>1, <3>3, UnknownAssumption DEF looksLikeEndpoint
    <3>5. normalizeEndpoint(u) = u
      <4>1. normalizeEndpoint(u) \in Trimmed /\ normalizeEndpoint(u).host = u.host
            /\ normalizeEndpoint(u).scheme = EndpointOf(u)[1]
        BY <2>1, <3>4, DirectFacts
      <4>2. EndpointOf(u)[1] = u.scheme
        BY <3>1 DEF EndpointOf
      <4>3. QED
        BY <2>1, <4>1, <4>2, SameText
    <3>6. resolved = [url |-> u, client |-> ""]
      BY <2>1, <2>3, <3>4, <3>5, Resolution
    <3> HIDE DEF u, resolved
    <3>7. resolved.url = u /\ resolved.client = "" /\ resolved # Unknown
      <4>1. [url |-> u, client |-> ""] \in Clusters
        BY <2>1 DEF Clusters
      <4>2. QED
        BY <3>6, <4>1, UnknownAssumption
    <3>8. u # Empty
      BY DEF u
    <3>9. target = [url |-> u, client |-> Effective.client]
      BY <2>2, <3>7, <3>8 DEF Target, resolved
    <3>10. Effective.client \in Clients
      BY EffectiveTypes DEF Effective, IInv
    <3> HIDE DEF target
    <3>11. target \in Clusters /\ target.url = u
      BY <2>1, <3>9, <3>10 DEF Clusters
    <3>12. QED
      BY <3>11, UnknownAssumption
  <2>5. ASSUME target # Unknown, target.url = u PROVE InNormalForm(u)
    <3>1. u # Empty /\ TrimSpace(u) \notin DOMAIN maps[Shared]
      BY <2>1, <2>3
    <3>2. resolved # Unknown /\ target = [url |-> resolved.url, client |->
            IF resolved.client # "" THEN resolved.client ELSE Effective.client]
      BY <2>2, <2>5, <3>1 DEF Target
    <3>3. normalizeEndpoint(TrimSpace(u)) # Unknown
          /\ resolved = [url |-> normalizeEndpoint(TrimSpace(u)), client |-> ""]
      BY <3>1, <3>2, Resolution
    <3>4. InNormalForm(normalizeEndpoint(TrimSpace(u)))
      BY <2>1, <3>3, DirectFacts
    <3> HIDE DEF u, resolved
    <3>5. resolved.url = normalizeEndpoint(TrimSpace(u))
      BY <3>3
    <3>6. target.url = resolved.url
      <4> HIDE DEF target
      <4>1. QED
        BY <3>2
    <3>7. QED
      BY <2>5, <3>4, <3>5, <3>6
  <2>6. QED
    BY <2>4, <2>5
<1>2. QED
  BY <1>1, Invariance, PTL

\* Without a hostname a request is about the settings' server, or else that of
\* the environment's first value that is not blank; the client is the alias's, or
\* else the settings', or else the default (auth_handler.go:371-406).
THEOREM Precedence == Spec => []ServerByPrecedence
<1>1. IInv => ServerByPrecedence
  <2> SUFFICES ASSUME IInv, NEW r \in Calls, Aimed(r), config # None
               PROVE  LET c == call[r]
                          t == TrimSpace(c.req.host)
                          ofAlias == IF c.req.host # Empty /\ t \in DOMAIN settings.clusters
                                     THEN settings.clusters[t].client ELSE ""
                      IN  /\ c.req.host = Empty => c.url = FirstSet(settings.url, env[1], env[2])
                          /\ c.client = IF ofAlias # "" THEN ofAlias
                                        ELSE OrDefault(settings.client)
    BY DEF ServerByPrecedence
  <2> DEFINE t == TrimSpace(call[r].req.host)
  <2>1. /\ config = [url |-> TrimURL(settings.url), client |-> OrDefault(settings.client)]
        /\ StoredURL = TrimURL(settings.url) /\ StoredClient = OrDefault(settings.client)
    BY DEF IInv, ConfigInv, StoredURL, StoredClient
  <2>2. settings.url \in Texts /\ settings.client \in Clients \cup {""}
    BY SettingsFacts DEF IInv
  <2>3. EffectiveClient = OrDefault(settings.client)
    <3>1. OrDefault(settings.client) \in Clients
      BY <2>2, OrDefaultType
    <3>2. OrDefault(settings.client) # ""
      BY <3>1, UnknownAssumption
    <3>3. \A k : k # "" => OrDefault(k) = k
      BY DEF OrDefault
    <3>4. QED
      BY <2>1, <3>2, <3>3 DEF EffectiveClient
  <2>4. EffectiveURL = FirstSet(settings.url, env[1], env[2])
    BY EffectiveIsFirst
  <2>5. CASE call[r].req.host = Empty
    <3>1. [url |-> EffectiveURL, client |-> EffectiveClient] =
            [url |-> call[r].url, client |-> call[r].client]
      <4>1. Target(Effective, maps[Shared], call[r].req.host) =
              [url |-> Effective.url, client |-> Effective.client]
        BY <2>5 DEF Target
      <4>2. Effective.url = EffectiveURL /\ Effective.client = EffectiveClient
        BY DEF Effective
      <4>3. QED
        BY <4>1, <4>2, AimedFacts
    <3>2. call[r].url = EffectiveURL /\ call[r].client = EffectiveClient
      BY <3>1
    <3>3. QED
      BY <2>3, <2>4, <2>5, <3>2
  <2>6. CASE call[r].req.host # Empty
    <3>1. DOMAIN maps[Shared] = DOMAIN settings.clusters
      BY DEF IInv, ConfigInv
    <3>2. CASE t \in DOMAIN settings.clusters
      <4>1. call[r].client = IF maps[Shared][t].client # ""
                             THEN maps[Shared][t].client ELSE EffectiveClient
        BY <2>6, <3>1, <3>2, AimedByHost
      <4>2. maps[Shared][t].client = settings.clusters[t].client
        BY <3>2, AliasFacts
      <4>3. QED
        BY <2>3, <2>6, <3>2, <4>1, <4>2
    <3>3. CASE t \notin DOMAIN settings.clusters
      <4>1. call[r].client = EffectiveClient
        BY <2>6, <3>1, <3>3, AimedByHost
      <4>2. QED
        BY <2>3, <2>6, <3>3, <4>1
    <3>4. QED
      BY <3>2, <3>3
  <2>7. QED
    BY <2>5, <2>6
<1>2. QED
  BY <1>1, Invariance, PTL

-----------------------------------------------------------------------------
(* Keys                                                                    *)

LEMMA AddOne ==
    ASSUME NEW S, NEW s \in Seq(S), NEW x \in S
    PROVE  /\ s \o <<x>> \in Seq(S) /\ Len(s \o <<x>>) = Len(s) + 1
           /\ \A i \in 1..Len(s) : (s \o <<x>>)[i] = s[i]
           /\ (s \o <<x>>)[Len(s) + 1] = x
<1>1. <<x>> \in Seq(S) /\ Len(<<x>>) = 1 /\ <<x>>[1] = x /\ Len(s) \in Nat
  OBVIOUS
<1> DEFINE t == <<x>>
<1> HIDE DEF t
<1>2. /\ s \o t \in Seq(S) /\ Len(s \o t) = Len(s) + Len(t)
      /\ \A i \in 1 .. Len(s) + Len(t) :
           (s \o t)[i] = IF i <= Len(s) THEN s[i] ELSE t[i - Len(s)]
  BY <1>1, ConcatProperties, Zenon DEF t
<1>3. t \in Seq(S) /\ Len(t) = 1 /\ t[1] = x
  BY <1>1 DEF t
<1>4. Len(s) + 1 \in 1..Len(s) + Len(t) /\ ~(Len(s) + 1 <= Len(s)) /\ Len(s) + 1 - Len(s) = 1
  BY <1>1, <1>3
<1>5. (s \o t)[Len(s) + 1] = x
  BY <1>2, <1>3, <1>4
<1>6. QED
  BY <1>1, <1>2, <1>3, <1>5 DEF t

\* Where the parts of a key are: with valid names they are its first elements,
\* and the audience is what follows.
LEMMA CompositeParts ==
    ASSUME NEW api, NEW n, NEW a, NEW acc, acc.ns = <<n>>, acc.sa = <<a>>,
           acc.aud \in Seq(Tokens)
    PROVE  LET s == saComposite(api, acc)
           IN  /\ s[1] = api /\ s[3] = n /\ s[5] = a
               /\ Len(s) = 6 + Len(acc.aud)
               /\ \A i \in 1..Len(acc.aud) : s[6 + i] = acc.aud[i]
<1> DEFINE S  == Tokens \cup {api, "|", n, a}
           k  == Len(acc.aud)
           s2 == <<api, "|">>
           s3 == s2 \o <<n>>
           s4 == s3 \o <<"|">>
           s5 == s4 \o <<a>>
           s6 == s5 \o <<"|">>
           s  == saComposite(api, acc)
<1>1. s = s6 \o acc.aud
  BY DEF saComposite
<1>2. "|" \in S /\ n \in S /\ a \in S /\ acc.aud \in Seq(S) /\ k \in Nat /\ k = Len(acc.aud)
  OBVIOUS
<1>3. s2 \in Seq(S) /\ Len(s2) = 2 /\ s2[1] = api
  OBVIOUS
<1> HIDE DEF S, s, k, s2
<1>4. s3 \in Seq(S) /\ Len(s3) = 3 /\ s3[1] = api /\ s3[3] = n
  <2>1. /\ s3 \in Seq(S) /\ Len(s3) = Len(s2) + 1
        /\ \A i \in 1..Len(s2) : s3[i] = s2[i]
        /\ s3[Len(s2) + 1] = n
    BY <1>2, <1>3, AddOne, ZenonT(60)
  <2> HIDE DEF s3
  <2>2. QED
    BY <1>3, <2>1
<1> HIDE DEF s3
<1>5. s4 \in Seq(S) /\ Len(s4) = 4 /\ s4[1] = api /\ s4[3] = n
  <2>1. /\ s4 \in Seq(S) /\ Len(s4) = Len(s3) + 1
        /\ \A i \in 1..Len(s3) : s4[i] = s3[i]
        /\ s4[Len(s3) + 1] = "|"
    BY <1>2, <1>4, AddOne, ZenonT(60)
  <2> HIDE DEF s4
  <2>2. QED
    BY <1>4, <2>1
<1> HIDE DEF s4
<1>6. s5 \in Seq(S) /\ Len(s5) = 5 /\ s5[1] = api /\ s5[3] = n /\ s5[5] = a
  <2>1. /\ s5 \in Seq(S) /\ Len(s5) = Len(s4) + 1
        /\ \A i \in 1..Len(s4) : s5[i] = s4[i]
        /\ s5[Len(s4) + 1] = a
    BY <1>2, <1>5, AddOne, ZenonT(60)
  <2> HIDE DEF s5
  <2>2. QED
    BY <1>5, <2>1
<1> HIDE DEF s5
<1>7. s6 \in Seq(S) /\ Len(s6) = 6 /\ s6[1] = api /\ s6[3] = n /\ s6[5] = a
  <2>1. /\ s6 \in Seq(S) /\ Len(s6) = Len(s5) + 1
        /\ \A i \in 1..Len(s5) : s6[i] = s5[i]
        /\ s6[Len(s5) + 1] = "|"
    BY <1>2, <1>6, AddOne, ZenonT(60)
  <2> HIDE DEF s6
  <2>2. QED
    BY <1>6, <2>1
<1> HIDE DEF s6
<1>8. /\ Len(s6 \o acc.aud) = Len(s6) + Len(acc.aud)
      /\ \A i \in 1 .. Len(s6) + Len(acc.aud) :
           (s6 \o acc.aud)[i] = IF i <= Len(s6) THEN s6[i] ELSE acc.aud[i - Len(s6)]
  BY <1>2, <1>7, ConcatProperties, ZenonT(60)
<1>9. Len(s) = 6 + k /\ \A i \in 1 .. 6 + k : s[i] = IF i <= 6 THEN s6[i] ELSE acc.aud[i - 6]
  BY <1>1, <1>2, <1>7, <1>8
<1>10. s[1] = api /\ s[3] = n /\ s[5] = a
  BY <1>2, <1>7, <1>9
<1>11. \A i \in 1..k : s[6 + i] = acc.aud[i]
  <2>1. ASSUME NEW i \in 1..k PROVE 6 + i \in 1..6 + k /\ ~(6 + i <= 6) /\ 6 + i - 6 = i
    BY <1>2
  <2>2. QED
    BY <1>9, <2>1
<1>12. QED
  BY <1>2, <1>9, <1>10, <1>11 DEF s, k

\* The tokens minted for different accounts, or on different clusters, are filed
\* under different keys (cache.go:61-66), for any names and audiences.
THEOREM DistinctKeys == Spec => []FiledKeysDistinct
<1>1. IInv => FiledKeysDistinct
  <2> SUFFICES ASSUME IInv, NEW r \in Calls, NEW q \in Calls, Aimed(r), Aimed(q),
                      Mintable(call[r].account), Mintable(call[q].account), SameKey(r, q)
               PROVE  call[r].url = call[q].url /\ call[r].account = call[q].account
    BY DEF FiledKeysDistinct
  <2> DEFINE x == call[r].account
             y == call[q].account
  <2>1. x \in Accounts /\ y \in Accounts
    BY AimedFacts DEF Mintable
  <2>2. PICK nx \in Names, ax \in Names : x.ns = <<nx>> /\ x.sa = <<ax>>
    BY DEF Mintable, validateK8sName
  <2>3. PICK ny \in Names, ay \in Names : y.ns = <<ny>> /\ y.sa = <<ay>>
    BY DEF Mintable, validateK8sName
  <2>4. x = [ns |-> x.ns, sa |-> x.sa, aud |-> x.aud] /\ x.aud \in Seq(Tokens)
    BY <2>1 DEF Accounts
  <2>5. y = [ns |-> y.ns, sa |-> y.sa, aud |-> y.aud] /\ y.aud \in Seq(Tokens)
    BY <2>1 DEF Accounts
  <2> DEFINE s == saComposite(call[r].url, x)
             w == saComposite(call[q].url, y)
  <2>6. s = w
    BY DEF SameKey
  <2>7. /\ s[1] = call[r].url /\ s[3] = nx /\ s[5] = ax /\ Len(s) = 6 + Len(x.aud)
        /\ \A i \in 1..Len(x.aud) : s[6 + i] = x.aud[i]
    BY <2>2, <2>4, CompositeParts, SMTT(30)
  <2>8. /\ w[1] = call[q].url /\ w[3] = ny /\ w[5] = ay /\ Len(w) = 6 + Len(y.aud)
        /\ \A i \in 1..Len(y.aud) : w[6 + i] = y.aud[i]
    BY <2>3, <2>5, CompositeParts, SMTT(30)
  <2> HIDE DEF s, w, x, y
  <2>9. nx = ny /\ ax = ay /\ call[r].url = call[q].url
    BY <2>6, <2>7, <2>8
  <2>10. Len(x.aud) \in Nat /\ Len(y.aud) \in Nat
    BY <2>4, <2>5
  <2>11. Len(x.aud) = Len(y.aud)
    BY <2>6, <2>7, <2>8, <2>10
  <2>12. \A i \in 1..Len(x.aud) : x.aud[i] = y.aud[i]
    BY <2>6, <2>7, <2>8, <2>11
  <2>13. x.aud = y.aud
    BY <2>4, <2>5, <2>11, <2>12, SeqEqual
  <2>14. x = y
    BY <2>2, <2>3, <2>4, <2>5, <2>9, <2>13
  <2>15. QED
    BY <2>9, <2>14 DEF x, y
<1>2. QED
  BY <1>1, Invariance, PTL
=============================================================================
