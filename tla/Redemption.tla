------------------------------ MODULE Redemption ------------------------------
(****************************************************************************)
(* A presented token on its way to gas: REQ_CREDIT_PRESENT in dispatch.rs,   *)
(* CreditIssuerClientV1::redeem in credit_issuer.rs, the connection's        *)
(* failure counter in credit_gate.rs and serve.rs, and REQ_API_KEY, which    *)
(* shares that counter.  The issuer is external: it verifies a signed        *)
(* request, swaps the token at the mint at most once and answers a repeated  *)
(* nonce from its store (the contract redeem's comment relies on).  Each     *)
(* attempt is an HTTP exchange of its own that may fail before or after the  *)
(* issuer has acted, or be acted on after the server has given up on it.     *)
(****************************************************************************)
EXTENDS Naturals, FiniteSets

CONSTANTS
    Presenters,        \* client connections
    Tokens,       \* well-formed Cashu tokens, worth 1 credit each
    Junk,         \* presentations validate_presentation rejects
    Keys,         \* API keys the server knows
    BadKeys,      \* API keys it does not know
    HasIssuer,    \* --credit-issuer-url is configured
    Signers,      \* keys the issuer may sign its answers with
    Pinned,       \* the --credit-issuer-pubkey keys
    MaxNonces     \* bound: redeem calls

BoundAssumption == MaxNonces \in Nat

VARIABLES
    open,       \* connections not closed
    credits,        \* [Presenters -> credits on the connection]
    rejections,   \* [Presenters -> GasBalanceV1.presentation_failures]
    label,      \* connections with an accepted API key
    job,        \* [Presenters -> the redeem call in progress, {} when none]
    nonces,     \* nonces drawn so far
    wire,       \* requests on their way to the issuer: [nonce, token, try, call]
    replies,    \* answers on their way back: [nonce, try, ok, key]
    store,      \* the issuer's store: [nonce -> {} or {answer}]
    swapped,    \* tokens the mint has swapped, with the call: [token, nonce, call]
    granted,    \* top-ups done: [conn, token, nonce, try]
    answer      \* [Presenters -> the last response to the client]

redeemVars == <<open, credits, rejections, label, job, nonces, wire, replies, store, swapped, granted, answer>>
issuer == <<store, swapped>>

----------------------------------------------------------------------------
(* The server *)

\* note_presentation_failure, and the loop's check after the response.
Fail(c) ==
    /\ rejections' = [rejections EXCEPT ![c] = @ + 1]
    /\ open' = IF rejections[c] + 1 >= 3 THEN open \ {c} ELSE open
    /\ answer' = [answer EXCEPT ![c] = "error"]

\* Rejected without asking the issuer: in clear, or with no issuer (not
\* counted), or malformed (counted).
PresentRejected(c, p, encrypted) ==
    /\ c \in open /\ job[c] = {}
    /\ IF encrypted /\ HasIssuer
         THEN p \in Junk /\ Fail(c)
         ELSE answer' = [answer EXCEPT ![c] = "error"] /\ UNCHANGED <<open, rejections>>
    /\ UNCHANGED <<credits, label, job, nonces, wire, replies, issuer, granted>>

Exchange(n, t, k, call) == [nonce |-> n, token |-> t, try |-> k, call |-> call]

\* redeem: one nonce, the first attempt (inside the channel, like PresentKey).
PresentToken(c, t) ==
    /\ c \in open /\ job[c] = {} /\ HasIssuer /\ nonces < MaxNonces
    /\ nonces' = nonces + 1
    /\ job' = [job EXCEPT ![c] = {Exchange(nonces + 1, t, 1, nonces + 1)}]
    /\ wire' = wire \cup {Exchange(nonces + 1, t, 1, nonces + 1)}
    /\ UNCHANGED <<open, credits, rejections, label, replies, issuer, granted, answer>>

\* Mutant: the retry draws a nonce of its own.
RetryFreshNonce(c, r) ==
    /\ nonces < MaxNonces
    /\ nonces' = nonces + 1
    /\ job' = [job EXCEPT ![c] = {Exchange(nonces + 1, r.token, 2, r.call)}]
    /\ wire' = wire \cup {Exchange(nonces + 1, r.token, 2, r.call)}
    /\ UNCHANGED <<open, rejections, answer>>

\* The second attempt repeats the body, nonce included; after it the issuer
\* counts as unreachable.
Retry(c, r) ==
    IF r.try = 1
      THEN /\ job' = [job EXCEPT ![c] = {Exchange(r.nonce, r.token, 2, r.call)}]
           /\ wire' = wire \cup {Exchange(r.nonce, r.token, 2, r.call)}
           /\ UNCHANGED <<open, rejections, answer, nonces>>
      ELSE /\ job' = [job EXCEPT ![c] = {}]
           /\ Fail(c)
           /\ UNCHANGED <<nonces, wire>>

\* The exchange fails or times out: the request may be lost or late, an
\* answer may be lost.
ExchangeFails(c) ==
    \E r \in job[c] :
        /\ Retry(c, r)
        /\ UNCHANGED <<credits, label, replies, issuer, granted>>

\* verify_redeem_response: a 200 signed by a pinned key over this nonce.
Verified(r, reply) == reply.ok /\ reply.key \in Pinned /\ reply.nonce = r.nonce

TopUp(c, r) ==
    /\ credits' = [credits EXCEPT ![c] = @ + 1]
    /\ granted' = granted \cup {[conn |-> c, token |-> r.token, nonce |-> r.nonce, try |-> r.try]}
    /\ job' = [job EXCEPT ![c] = {}]
    /\ answer' = [answer EXCEPT ![c] = "ok"]
    /\ UNCHANGED wire

\* An answer arrives on the exchange that asked: it ends the redeem call,
\* good or bad.
ExchangeAnswered(c) ==
    \E r \in job[c], reply \in replies :
        /\ reply.nonce = r.nonce /\ reply.try = r.try
        /\ replies' = replies \ {reply}
        /\ IF Verified(r, reply)
             THEN TopUp(c, r) /\ UNCHANGED <<open, rejections>>
             ELSE /\ Fail(c)
                  /\ job' = [job EXCEPT ![c] = {}]
                  /\ UNCHANGED <<credits, granted, wire>>
        /\ UNCHANGED <<label, nonces, issuer>>

\* REQ_API_KEY: a known key makes the connection unmetered, an unknown one
\* counts as a rejected presentation.
PresentKey(c, k) ==
    /\ c \in open /\ job[c] = {}
    /\ IF k \in Keys
         THEN /\ label' = label \cup {c}
              /\ answer' = [answer EXCEPT ![c] = "key"]
              /\ UNCHANGED <<open, rejections>>
         ELSE Fail(c) /\ UNCHANGED label
    /\ UNCHANGED <<credits, job, nonces, wire, replies, issuer, granted>>

----------------------------------------------------------------------------
(* The issuer (external) *)

IssuerActs(r) ==
    /\ r \in wire
    /\ wire' = wire \ {r}
    /\ LET spentBefore == \E s \in swapped : s.token = r.token
           ok == IF store[r.nonce] = {} THEN ~spentBefore ELSE store[r.nonce] = {TRUE}
       IN  /\ store' = [store EXCEPT ![r.nonce] = {ok}]
           /\ swapped' = IF ok /\ store[r.nonce] = {}
                           THEN swapped \cup {[token |-> r.token, nonce |-> r.nonce, call |-> r.call]} ELSE swapped
           /\ \E key \in Signers :
                replies' = replies \cup {[nonce |-> r.nonce, try |-> r.try, ok |-> ok, key |-> key]}
    /\ UNCHANGED <<open, credits, rejections, label, job, nonces, granted, answer>>

\* A request or an answer is lost on the way.
Lost(r) ==
    /\ \/ r \in wire /\ wire' = wire \ {r} /\ UNCHANGED replies
       \/ r \in replies /\ replies' = replies \ {r} /\ UNCHANGED wire
    /\ UNCHANGED <<open, credits, rejections, label, job, nonces, issuer, granted, answer>>

----------------------------------------------------------------------------

RedeemInit ==
    /\ open = Presenters
    /\ credits = [c \in Presenters |-> 0] /\ rejections = [c \in Presenters |-> 0] /\ label = {}
    /\ job = [c \in Presenters |-> {}] /\ nonces = 0 /\ wire = {} /\ replies = {}
    /\ store = [n \in 1..MaxNonces |-> {}] /\ swapped = {} /\ granted = {}
    /\ answer = [c \in Presenters |-> "none"]

RedeemNext ==
    \/ \E c \in Presenters :
         \/ \E p \in Junk \cup Tokens, encrypted \in BOOLEAN : PresentRejected(c, p, encrypted)
         \/ \E t \in Tokens : PresentToken(c, t)
         \/ ExchangeFails(c) \/ ExchangeAnswered(c)
         \/ \E k \in Keys \cup BadKeys : PresentKey(c, k)
    \/ \E r \in wire : IssuerActs(r)
    \/ \E r \in wire \cup replies : Lost(r)

\* A timeout of ISSUER_TIMEOUT bounds every exchange.
RedeemSpec == RedeemInit /\ [][RedeemNext]_redeemVars /\ \A c \in Presenters : WF_redeemVars(ExchangeFails(c))

----------------------------------------------------------------------------
(* Properties *)

\* A connection's record: rejections below the limit while it is open, one
\* redeem call at a time.
RedeemTypeOK ==
    /\ open \subseteq Presenters /\ label \subseteq Presenters
    /\ credits \in [Presenters -> Nat]
    /\ \A c \in Presenters : Cardinality(job[c]) <= 1 /\ rejections[c] \in 0..3
    /\ \A c \in open : rejections[c] < 3

\* However often a token is presented, retried or answered late, it tops up at
\* most one connection, once.
GrantedOnce ==
    \A g, h \in granted : g.token = h.token => g = h

\* Gas on a connection was paid for: each top-up's token was swapped by the
\* mint for this very redeem call.
GrantedWasSwapped ==
    /\ \A g \in granted : \E s \in swapped : s.token = g.token /\ s.nonce = g.nonce
    /\ \A c \in Presenters : credits[c] = Cardinality({g \in granted : g.conn = c})

\* The retry recovers a lost answer: the issuer never refuses a redeem call
\* because an earlier attempt of the same call succeeded.
RetryRecovers ==
    \A c \in Presenters : \A r \in job[c] :
        store[r.nonce] = {FALSE} => \A s \in swapped : s.call # r.call

\* Redeeming over retries, late answers and concurrent connections: a token
\* tops up one connection once, only after the mint swapped it for that call,
\* and a repeated attempt is never refused because an earlier one succeeded.
RedeemedOnce == RedeemTypeOK /\ GrantedOnce /\ GrantedWasSwapped /\ RetryRecovers
=============================================================================
