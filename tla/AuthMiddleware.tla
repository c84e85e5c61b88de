--------------------------- MODULE AuthMiddleware ---------------------------
(***************************************************************************)
(* The authentication middleware as a function of the request, the options  *)
(* and the time.  A credential is what its verification yields: a JWT after *)
(* jwt.ParseWithClaims, a session after the configured validator, gateway   *)
(* headers after their HMAC; "good" says that this verification succeeds.  *)
(* "claims" are the values of the user id claims of a JWT in their order.  *)
(* Text is the empty string where it is missing or blank, a time is 0.     *)
(***************************************************************************)
EXTENDS Integers, Sequences

CONSTANT DefaultClockSkew     \* 30 seconds in the code

ASSUME ClockSkewAssumption == DefaultClockSkew \in Nat

Absent == [present |-> FALSE, good |-> FALSE, prefixed |-> TRUE, user |-> "",
           claims |-> <<>>, device |-> "", issuer |-> "", audience |-> {}, exp |-> 0]

(* An Authorization header that is no bearer token is still an attempt. *)
Garbled == [Absent EXCEPT !.present = TRUE]

(***************************************************************************)
(* withDefaults                                                            *)
(***************************************************************************)

(* Mutant: what the caller leaves out stays out. *)
AsGiven(o) == o

(* An expiry and a device are always required, whatever the options say. *)
StrictDefaults(o) ==
    [o EXCEPT !.skew = IF o.skew <= 0 THEN DefaultClockSkew ELSE o.skew,
              !.requireExpires = TRUE, !.requireDevice = TRUE]

AuthDefaults(o) ==
    [o EXCEPT !.sources = IF o.sources = <<>> THEN <<"gateway", "jwt", "session">> ELSE o.sources,
              !.session = StrictDefaults(o.session),
              !.gateway = StrictDefaults(o.gateway)]

(***************************************************************************)
(* The checks                                                              *)
(***************************************************************************)

ValidateIssuer(actual, expected) == expected = "" \/ actual = expected

ValidateAudience(actual, expected) == expected = {} \/ actual \cap expected # {}

ValidateExpiration(exp, required, skew, now) ==
    IF exp = 0 THEN ~required ELSE exp > now - skew

ValidateDeviceHeader(req, expected) == req.device # "" /\ req.device = expected

ValidateOptionalDeviceHeader(req, expected) ==
    expected = "" \/ ValidateDeviceHeader(req, expected)

(***************************************************************************)
(* The sources.  A verdict says whether the source was tried and with what  *)
(* result.                                                                 *)
(***************************************************************************)

NotAttempted == [attempted |-> FALSE, ok |-> FALSE]
Refused == [attempted |-> TRUE, ok |-> FALSE]
Accepted(source, user, device, exp) ==
    [attempted |-> TRUE, ok |-> TRUE, source |-> source, user |-> user, device |-> device,
     exp |-> exp]

(* Cookies are read from HTTP requests only, and only under configured names. *)
Cookie(req, o, cookie) == IF req.http /\ o.cookies THEN cookie ELSE Absent

ExtractJWTToken(req, o) ==
    IF req.bearer.present
    THEN IF req.bearer.prefixed THEN req.bearer ELSE Garbled
    ELSE Cookie(req, o, req.jwtCookie)

(* user_id, uid and sub by default: the first one that is not blank. *)
ExtractUserIDClaim(claims) ==
    LET Filled == {i \in DOMAIN claims : claims[i] # ""}
    IN  IF Filled = {} THEN ""
        ELSE claims[CHOOSE i \in Filled : \A j \in Filled : i <= j]

AuthenticateJWT(req, opts) ==
    LET o    == opts.jwt
        c    == ExtractJWTToken(req, o)
        user == ExtractUserIDClaim(c.claims)
    IN  IF ~o.enabled \/ ~c.present THEN NotAttempted
        ELSE IF /\ o.hasKey /\ c.good
                /\ ValidateIssuer(c.issuer, o.issuer)
                /\ ValidateAudience(c.audience, o.audience)
                /\ ValidateExpiration(c.exp, o.requireExpires, o.skew, opts.now)
                /\ c.device # "" /\ ValidateDeviceHeader(req, c.device)
                /\ user # ""
        THEN Accepted("jwt", user, c.device, c.exp)
        ELSE Refused

ExtractSessionID(req, o) ==
    IF req.sessionHeader.present THEN req.sessionHeader ELSE Cookie(req, o, req.sessionCookie)

AuthenticateSession(req, opts) ==
    LET o == opts.session
        c == ExtractSessionID(req, o)
    IN  IF ~o.enabled \/ ~c.present THEN NotAttempted
        ELSE IF /\ o.hasKey /\ c.good
                /\ c.user # ""
                /\ o.requireDevice => c.device # ""
                /\ ValidateOptionalDeviceHeader(req, c.device)
                /\ ValidateIssuer(c.issuer, o.issuer)
                /\ ValidateAudience(c.audience, o.audience)
                /\ ValidateExpiration(c.exp, o.requireExpires, o.skew, opts.now)
        THEN Accepted("session", c.user, c.device, c.exp)
        ELSE Refused

(* The signature is the HMAC, in hex or base64, of every header that is used, *)
(* the device among them; without a secret none matches.                     *)
VerifyGatewaySignature(o, c) == o.hasKey /\ c.good

(* The device is the request's own header. *)
AuthenticateGateway(req, opts) ==
    LET o == opts.gateway
        c == req.gateway
    IN  IF ~o.enabled \/ ~c.present THEN NotAttempted
        ELSE IF /\ c.user # ""
                /\ o.requireDevice => req.device # ""
                /\ ValidateIssuer(c.issuer, o.issuer)
                /\ ValidateAudience(c.audience, o.audience)
                /\ ValidateExpiration(c.exp, o.requireExpires, o.skew, opts.now)
                /\ VerifyGatewaySignature(o, c)
        THEN Accepted("gateway", c.user, req.device, c.exp)
        ELSE Refused

Verdict(source, req, opts) ==
    CASE source = "gateway" -> AuthenticateGateway(req, opts)
      [] source = "jwt"     -> AuthenticateJWT(req, opts)
      [] source = "session" -> AuthenticateSession(req, opts)
      [] OTHER              -> NotAttempted

(* Mutant: a refused credential lets the next source try. *)
TriesOn(v) == v.ok

(* The loop over Sources ends at the first source that was tried. *)
Decides(v) == v.attempted

Authenticate(req, opts) ==
    LET Deciding == {i \in DOMAIN opts.sources : Decides(Verdict(opts.sources[i], req, opts))}
    IN  IF Deciding = {} THEN NotAttempted
        ELSE Verdict(opts.sources[CHOOSE i \in Deciding : \A j \in Deciding : i <= j], req, opts)

(* AuthMiddleware: operations that are skipped run without an identity. *)
Handle(req, opts) ==
    IF req.operation \in opts.skip THEN [handled |-> TRUE, info |-> NotAttempted]
    ELSE LET v == Authenticate(req, AuthDefaults(opts))
         IN  [handled |-> v.ok, info |-> v]

-----------------------------------------------------------------------------
(* Properties of one request *)

(* The request without the credentials of the other sources. *)
Only(req, source) ==
    [req EXCEPT !.gateway       = IF source = "gateway" THEN req.gateway ELSE Absent,
                !.bearer        = IF source = "jwt" THEN req.bearer ELSE Absent,
                !.jwtCookie     = IF source = "jwt" THEN req.jwtCookie ELSE Absent,
                !.sessionHeader = IF source = "session" THEN req.sessionHeader ELSE Absent,
                !.sessionCookie = IF source = "session" THEN req.sessionCookie ELSE Absent]

(* The source is enabled and the request has a credential for it. *)
Presents(req, opts, source) ==
    \/ source = "gateway" /\ opts.gateway.enabled /\ req.gateway.present
    \/ source = "jwt" /\ opts.jwt.enabled /\ ExtractJWTToken(req, opts.jwt).present
    \/ source = "session" /\ opts.session.enabled /\ ExtractSessionID(req, opts.session).present

(* An identity comes from one source alone: without the credentials of all   *)
(* the others the request has the same result.  And that source is the first *)
(* one of the configured order the request has a credential for, so that a   *)
(* credential that was refused is never made up for by that of another.      *)
OneSourceDecides(req, opts) ==
    LET h     == Handle(req, opts)
        order == AuthDefaults(opts).sources
    IN  h.info.ok =>
          /\ Handle(Only(req, h.info.source), opts) = h
          /\ \E j \in DOMAIN order :
                /\ order[j] = h.info.source
                /\ \A i \in 1..(j - 1) : ~Presents(req, opts, order[i])

(* How long after its expiry a credential of a source is still accepted. *)
LeewayOf(opts, source) ==
    LET skew == IF source = "gateway" THEN opts.gateway.skew ELSE opts.session.skew
    IN  IF source = "jwt" THEN opts.jwt.skew
        ELSE IF skew > 0 THEN skew ELSE DefaultClockSkew

BoundTo(info, req, opts) ==
    /\ info.user # ""
    /\ info.device # "" /\ info.device = req.device
    /\ IF info.exp = 0 THEN info.source = "jwt" /\ ~opts.jwt.requireExpires
       ELSE opts.now < info.exp + LeewayOf(opts, info.source)

(* The user that a handler sees was vouched for, on the device that sends    *)
(* the request, by a credential that has not expired by more than the skew;  *)
(* only a JWT may lack an expiry, and only if none was required.  This holds *)
(* whatever the options leave out.                                          *)
IdentityIsBound(req, opts) ==
    LET h == Handle(req, opts)
    IN  h.handled /\ req.operation \notin opts.skip => BoundTo(h.info, req, opts)
=============================================================================
