---------------------------- MODULE CaptchaForm -----------------------------
(***************************************************************************)
(* The sign-in and sign-up forms (app/auth/login, app/auth/register) with  *)
(* the Turnstile challenge they submit the token of.  A real token is the  *)
(* number of its issue and good for one verification; Mock stands for the  *)
(* tokens Turnstile makes up when there is nothing to ask.                 *)
(***************************************************************************)
EXTENDS Integers

CONSTANTS maxRetries,   \* waits for the Turnstile script
          MaxTokens     \* bound: real tokens issued in a run

null == 0
Mock == -1
Token == 1..MaxTokens

VARIABLES
    isProduction,   \* neither a local host nor a development site key
    script,         \* window.turnstile is there
    challenge,      \* the component: "mounting", "rendered" or "fallback"
    retryCount,
    issued,         \* real tokens issued so far
    captchaToken,
    form,           \* "editing", "loading", or "left" after a success
    spent           \* real tokens that were submitted

vars == <<isProduction, script, challenge, retryCount, issued, captchaToken, form, spent>>

TypeOK ==
    /\ isProduction \in BOOLEAN
    /\ script \in BOOLEAN
    /\ challenge \in {"mounting", "rendered", "fallback"}
    /\ retryCount \in 0..maxRetries
    /\ issued \in 0..MaxTokens
    /\ captchaToken \in {null, Mock} \cup Token
    /\ form \in {"editing", "loading", "left"}
    /\ spent \in SUBSET Token

Init ==
    /\ isProduction \in BOOLEAN
    /\ script = FALSE
    /\ challenge = "mounting"
    /\ retryCount = 0
    /\ issued = 0
    /\ captchaToken = null
    /\ form = "editing"
    /\ spent = {}

-----------------------------------------------------------------------------
(* The challenge.                                                          *)

(* onVerify with a made-up token; the widget disappears.                   *)
FallBack ==
    /\ captchaToken' = Mock
    /\ challenge' = "fallback"

SkipChallenge ==
    /\ challenge = "mounting" /\ ~isProduction
    /\ FallBack
    /\ UNCHANGED <<isProduction, script, retryCount, issued, form, spent>>

LoadScript ==
    /\ ~script
    /\ script' = TRUE
    /\ UNCHANGED <<isProduction, challenge, retryCount, issued, captchaToken, form, spent>>

MayRetry == retryCount < maxRetries

(* renderTurnstile, first called by the effect, then by its own timer.  To *)
(* render can throw.                                                       *)
RenderTurnstile ==
    /\ challenge = "mounting" /\ isProduction
    /\ \/ /\ script
          /\ challenge' = "rendered"
          /\ UNCHANGED <<retryCount, captchaToken>>
       \/ /\ script \/ ~MayRetry
          /\ FallBack
          /\ UNCHANGED retryCount
       \/ /\ ~script /\ MayRetry
          /\ retryCount' = retryCount + 1
          /\ UNCHANGED <<challenge, captchaToken>>
    /\ UNCHANGED <<isProduction, script, issued, form, spent>>

(* The widget shows a token of its own until it expires.                   *)
Verify ==
    /\ challenge = "rendered" /\ captchaToken = null
    /\ issued < MaxTokens
    /\ issued' = issued + 1
    /\ captchaToken' = issued'
    /\ UNCHANGED <<isProduction, script, challenge, retryCount, form, spent>>

ChallengeFails ==
    /\ challenge = "rendered"
    /\ FallBack
    /\ UNCHANGED <<isProduction, script, retryCount, issued, form, spent>>

Expire ==
    /\ challenge = "rendered" /\ captchaToken \in Token
    /\ captchaToken' = null
    /\ UNCHANGED <<isProduction, script, challenge, retryCount, issued, form, spent>>

-----------------------------------------------------------------------------
(* The form.                                                               *)

HandleSubmit ==
    /\ form = "editing" /\ captchaToken # null
    /\ form' = "loading"
    /\ spent' = spent \cup ({captchaToken} \cap Token)
    /\ UNCHANGED <<isProduction, script, challenge, retryCount, issued, captchaToken>>

(* The session starts, or the registered user goes to the login page.      *)
Accepted ==
    /\ form = "loading"
    /\ form' = "left"
    /\ UNCHANGED <<isProduction, script, challenge, retryCount, issued, captchaToken, spent>>

(* setCaptchaToken(null) and a new key for the component.                  *)
Restart ==
    /\ captchaToken' = null
    /\ challenge' = "mounting"
    /\ retryCount' = 0

(* Any other answer, or none: the error is shown.                          *)
NotAccepted ==
    /\ form = "loading"
    /\ form' = "editing"
    /\ Restart
    /\ UNCHANGED <<isProduction, script, issued, spent>>

Next ==
    \/ SkipChallenge \/ LoadScript \/ RenderTurnstile
    \/ Verify \/ ChallengeFails \/ Expire
    \/ HandleSubmit \/ Accepted \/ NotAccepted

Spec == Init /\ [][Next]_vars

(* Effects and timers run; a rendered widget comes to a result, good or    *)
(* bad; a submission is answered or fails.                                 *)
FairSpec ==
    /\ Spec
    /\ WF_vars(SkipChallenge) /\ WF_vars(RenderTurnstile)
    /\ WF_vars(Verify \/ (ChallengeFails /\ captchaToken = null))
    /\ WF_vars(Accepted \/ NotAccepted)

-----------------------------------------------------------------------------
(* Properties.                                                             *)

(* Cloudflare verifies a token once: no submission carries a token that an *)
(* earlier one carried, whatever failed, expired or was solved meanwhile.  *)
TokensAreSpentOnce == form = "editing" => captchaToken \notin spent

(* "user is never blocked" (Turnstile.tsx:44): after a failed attempt, an  *)
(* expired token or a script that never loads, the form can be submitted   *)
(* again in the end.                                                       *)
NeverBlocked == []<>(captchaToken # null \/ form = "left")
=============================================================================
