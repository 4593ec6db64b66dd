----------------------------- MODULE Turnstile ------------------------------
(***************************************************************************)
(* turnstile-verification.service.ts: what the API answers to a token, by  *)
(* its own configuration and by what Cloudflare's siteverify says of it.   *)
(***************************************************************************)

\* The environment: NODE_ENV, TURNSTILE_ENABLED, the kind of TURNSTILE_SECRET_KEY and
\* whether TURNSTILE_ALLOWED_HOSTNAMES names the page's host, another, or nothing.
Config == [production : BOOLEAN, enabled : BOOLEAN, secret : {"none", "test", "real"},
           hostnames : {"none", "page", "other"}]

\* Production cannot switch the verification off.
IsEnabled(c) == c.production \/ c.enabled

\* siteverify: no answer within the time limit, a refusal, or an approval for an action.
Approvals == {"public_booking", "other action"}
Verdicts == {"unreachable", "refused"} \cup Approvals

\* mutant: a test secret is taken in production, too
VerifyAnySecret(c, token, verdict) ==
    IF ~IsEnabled(c) THEN 200
    ELSE IF c.secret = "none" THEN 503
    ELSE IF ~token THEN 400
    ELSE IF verdict = "unreachable" THEN 503
    ELSE IF verdict = "refused" THEN 403
    ELSE IF c.secret = "test" THEN 200
    ELSE IF verdict # "public_booking" THEN 403
    ELSE IF c.production /\ c.hostnames = "none" THEN 503
    ELSE IF c.hostnames = "other" THEN 403 ELSE 200

\* The HTTP status of a request whose body carries a token or does not; 200 is the
\* one that goes on to createAppointment.
Verify(c, token, verdict) ==
    IF ~IsEnabled(c) THEN 200
    ELSE IF c.secret = "none" \/ (c.production /\ c.secret = "test") THEN 503
    ELSE IF ~token THEN 400
    ELSE IF verdict = "unreachable" THEN 503
    ELSE IF verdict = "refused" THEN 403
    ELSE IF c.secret = "test" THEN 200
    ELSE IF verdict # "public_booking" THEN 403
    ELSE IF c.production /\ c.hostnames = "none" THEN 503
    ELSE IF c.hostnames = "other" THEN 403 ELSE 200
=============================================================================
