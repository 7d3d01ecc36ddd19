-------------------------------- MODULE Auth --------------------------------
(***************************************************************************)
(* Who a request of the API is from: the Authorization header decides, a   *)
(* NIP-98 event or a bearer token (signet-api rpc.rs, signet-nostr), and   *)
(* only a signer may be issued a token.                                    *)
(*                                                                         *)
(* Timestamps are unsigned and saturate, as those of the nostr crate.      *)
(***************************************************************************)
EXTENDS Integers

CONSTANTS
    AuthCalls,
    Skew,       \* MAX_FUTURE_SKEW
    Top,        \* the largest timestamp
    Unlimited   \* the maximal age, where it is switched off

Tag == {"same", "other", "missing"}

HttpEvent == [parses: BOOLEAN, signed: BOOLEAN, kind: BOOLEAN,
              created: 0..Top, url: Tag, method: Tag]

ASSUME AuthAssumption ==
    /\ Top \in Nat /\ Skew \in 0..Top /\ Unlimited \notin 0..Top
    /\ AuthCalls \subseteq
         [scheme: {"none", "nostr", "bearer", "other"},
          event: HttpEvent,
          token: {"malformed", "unknown", "revoked", "issued"},
          now: 0..Top, maxAge: 0..Top \cup {Unlimited},
          rpc: {"token.create", "another"},
          database: BOOLEAN]            \* whether its queries succeed

VARIABLES
    login,      \* the request
    authPc

authVars == <<login, authPc>>

AuthInit == login \in AuthCalls /\ authPc = "header"

Becomes(pc) == authPc' = pc /\ UNCHANGED login

Plus(t, d) == IF t + d > Top THEN Top ELSE t + d
Minus(t, d) == IF t < d THEN 0 ELSE t - d

\* A mutant: the age wraps around for an event of a clock that is ahead.
FreshWrapping(event, now, maxAge) ==
    maxAge = Unlimited \/ ~(event.created > Plus(now, Skew)
                            \/ (now - event.created) % (Top + 1) > maxAge)

\* The window of verify_http_auth; no maximal age, no window.
Fresh(event, now, maxAge) ==
    maxAge = Unlimited \/ ~(event.created > Plus(now, Skew)
                            \/ Minus(now, event.created) > maxAge)

\* authenticate: the scheme selects the check.
Authenticate ==
    /\ authPc = "header"
    /\ Becomes(CASE login.scheme = "nostr" -> "event"
                 [] login.scheme = "bearer" -> "token"
                 [] OTHER -> "refused")

\* verify_nip98_header: the event parses, verifies, is fresh and is of this
\* URL and method.
VerifyEvent ==
    /\ authPc = "event"
    /\ LET event == login.event
           good == /\ event.parses /\ event.signed /\ event.kind
                   /\ Fresh(event, login.now, login.maxAge)
                   /\ event.url = "same" /\ event.method = "same"
       IN  Becomes(IF good THEN "signer" ELSE "refused")

\* verify_bearer: the token is in the database and not revoked.
FindToken ==
    /\ authPc = "token"
    /\ Becomes(IF login.database /\ login.token = "issued" THEN "bearer" ELSE "refused")

\* A mutant: a token may issue another.
HandleAny ==
    /\ authPc \in {"signer", "bearer"}
    /\ Becomes(IF login.rpc = "token.create" /\ ~login.database
               THEN "refused" ELSE "served")

\* handle, token_create: a token is issued to a signer only, if its row is
\* written; what the other methods do is not looked at.
Handle ==
    /\ authPc \in {"signer", "bearer"}
    /\ Becomes(IF login.rpc = "token.create"
                  /\ (authPc = "bearer" \/ ~login.database)
               THEN "refused" ELSE "served")

AuthNext == Authenticate \/ VerifyEvent \/ FindToken \/ Handle

AuthSpec == AuthInit /\ [][AuthNext]_authVars

-----------------------------------------------------------------------------

\* A request is let in exactly if its event is from Skew ahead to maxAge
\* behind the clock of the API, edges included and at either end of the
\* range of timestamps, or its token is issued and it does not ask for
\* another (signet-nostr verify_http_auth, rpc.rs authenticate and handle).
AdmissionExact ==
    authPc \in {"served", "refused"} =>
        LET event == login.event
            window == (login.now - login.maxAge)..(login.now + Skew)
            signer == /\ login.scheme = "nostr"
                      /\ event.parses /\ event.signed /\ event.kind
                      /\ event.url = "same" /\ event.method = "same"
                      /\ login.maxAge # Unlimited => event.created \in window
            bearer == login.scheme = "bearer" /\ login.token = "issued" /\ login.database
        IN  authPc = "served" <=>
                IF login.rpc = "token.create" THEN signer /\ login.database
                ELSE signer \/ bearer
=============================================================================
