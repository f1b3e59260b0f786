---------------------------- MODULE TokenExpiry ----------------------------
(***************************************************************************)
(* When a held token may still be handed out, and when it may be purged    *)
(* (cache.go, weblogin_flow.go).  Times are natural numbers; an expiry of  *)
(* UnknownExpiry is Go's zero time.Time, "no expiry recorded".             *)
(***************************************************************************)
EXTENDS Integers

CONSTANT Leeway                     \* tokenExpiryLeeway, in units of the clock

ASSUME LeewayAssumption == Leeway \in Nat

UnknownExpiry == 0

\* The longest remaining validity a caller can insist on: its own demand or
\* the leeway, whichever is longer.
RequiredValidity(min) == IF min > Leeway THEN min ELSE Leeway

\* A fault, used only to show that properties notice it: the leeway of
\* isUsableFor is applied to purging too.
isExpiredWithLeeway(now, exp) == exp # UnknownExpiry /\ now + Leeway >= exp

\* isExpired: an expiry is set and lies strictly in the past.
isExpired(now, exp) == exp # UnknownExpiry /\ now > exp

\* isUsableFor: the token stays valid for the required time.  A token whose
\* expiry is unknown is always taken to be usable.
isUsableFor(now, exp, min) ==
    exp = UnknownExpiry \/ now + RequiredValidity(min) < exp

\* isUsable
isUsable(now, exp) == isUsableFor(now, exp, 0)

\* The expiry of a token granted now for the given lifetime: a missing or
\* invalid lifetime (0) leaves the expiry unknown.
ExpiryOf(now, lifetime) == IF lifetime = 0 THEN UnknownExpiry ELSE now + lifetime
=============================================================================
