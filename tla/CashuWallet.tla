------------------------------ MODULE CashuWallet ------------------------------
(****************************************************************************)
(* The browser's ecash wallet (web/src/cashu-wallet.ts, x402.ts,             *)
(* cashu-purchase.ts): one stored record {proofs, inFlight, pending}, shared *)
(* by every tab, changed by top-ups over two rails, their cancellation,      *)
(* presentations to servers and the later check with the mint.               *)
(*                                                                           *)
(* Every await is a step boundary.  A top-up's blinded outputs are one       *)
(* number, which is also the proof they turn into, whatever its amount is.   *)
(* The mint and the issuer are modelled from how the wallet                  *)
(* uses them: a quote or invoice is paid once, the mint signs a paid quote   *)
(* into one set of outputs, the issuer repeats its signatures for the same   *)
(* request.                                                                  *)
(****************************************************************************)
EXTENDS Naturals, FiniteSets

CONSTANTS
    Runs,          \* top-up calls that may be open at once (tabs, or clicks in a tab)
    Checks,        \* reconcile calls that may be open at once
    Rails,         \* rails a new top-up may use
    StatusFails,   \* the issuer may answer an invoice status request with an error
    Grace,         \* IN_FLIGHT_GRACE_SECS
    RedeemTime,    \* a server redeems a token within this time or never
    Life,          \* lifetime of an x402 invoice
    MaxTime, MaxInvoices, MaxOutputs, MaxPresents   \* bounds

GraceCoversRedeem == Grace > RedeemTime

VARIABLES
    proofs,     \* spendable proofs
    inFlight,   \* presentations not yet known spent: [at, proof]
    pending,    \* the pending top-up, {} or {record}
    run,        \* [Runs -> the state of a top-up call]
    cancel,     \* the cancellation in progress: its pending record, {} when none
    check,      \* [Checks -> the state of a reconcile call]
    invoice,    \* [id -> "none" | "unpaid" | "paid" | "issued"], quotes and invoices
    expiry,     \* [id -> time], of x402 invoices
    body,       \* [id -> outputs an x402 invoice is bound to]
    signed,     \* outputs the mint has signed: pairs <<invoice, outputs>>
    spent,      \* proofs the mint has swapped
    tokens,     \* tokens handed to servers: [at, proof]
    outputs,    \* outputs made so far
    dropped,    \* invoices whose top-up the user asked to cancel
    now

stored == <<proofs, inFlight, pending>>
world == <<invoice, expiry, body, signed, spent, tokens>>
vars == <<stored, run, cancel, check, world, outputs, dropped, now>>

Ids == 1..MaxInvoices

Idle == [pc |-> "idle"]

Fresh == {i \in Ids : invoice[i] = "none"}

MintRecord(i) == [rail |-> "mint", id |-> i, out |-> 0]

X402Record(o) == [rail |-> "x402", id |-> 0, out |-> o, preimage |-> FALSE]

SetPending(rec) == pending' = {rec}

\* CashuStore.receive: add what is not held, clear the pending top-up.
Receive(o) ==
    /\ proofs' = IF o \in {f.proof : f \in inFlight} THEN proofs ELSE proofs \cup {o}
    /\ pending' = {}
    /\ UNCHANGED inFlight

Goto(r, pc, rec) == run' = [run EXCEPT ![r] = [pc |-> pc, rec |-> rec]]

Stop(r) == run' = [run EXCEPT ![r] = Idle]

rest == <<cancel, check, dropped, now>>

----------------------------------------------------------------------------
(* A top-up call: topUpFromMint *)

\* Start or resume: the stored record decides the step.
StartMint(r) ==
    /\ run[r].pc = "idle" /\ "mint" \in Rails
    /\ \/ pending = {} /\ Goto(r, "quoting", <<>>)
       \/ \E rec \in pending :
            rec.rail = "mint" /\ Goto(r, IF rec.out = 0 THEN "waiting" ELSE "minting", rec)
    /\ UNCHANGED <<stored, world, outputs, rest>>

\* The quote arrives, is stored, and only then shown.
QuoteArrives(r) ==
    /\ run[r].pc = "quoting"
    /\ \E i \in Fresh :
         /\ invoice' = [invoice EXCEPT ![i] = "unpaid"]
         /\ SetPending(MintRecord(i))
         /\ Goto(r, "waiting", MintRecord(i))
    /\ UNCHANGED <<proofs, inFlight, expiry, body, signed, spent, tokens, outputs, rest>>

\* waitForQuotePayment returns once the mint reports the quote paid or issued.
QuotePaid(r) ==
    /\ run[r].pc = "waiting"
    /\ invoice[run[r].rec.id] \in {"paid", "issued"}
    /\ Goto(r, "blinding", run[r].rec)
    /\ UNCHANGED <<stored, world, outputs, rest>>

\* createOutputs, stored before minting.
Blind(r) ==
    /\ run[r].pc = "blinding" /\ outputs < MaxOutputs
    /\ outputs' = outputs + 1
    /\ LET rec == [run[r].rec EXCEPT !.out = outputs + 1]
       IN  SetPending(rec) /\ Goto(r, "minting", rec)
    /\ UNCHANGED <<proofs, inFlight, world, rest>>

\* checkQuoteStatus decides between minting and restoring.
MintOrRestore(r) ==
    /\ run[r].pc = "minting"
    /\ Goto(r, IF invoice[run[r].rec.id] = "issued" THEN "restore" ELSE "mint", run[r].rec)
    /\ UNCHANGED <<stored, world, outputs, rest>>

\* The mint signs a paid quote once; its answer is on the way.
MintSigns(r) ==
    /\ run[r].pc = "mint"
    /\ LET i == run[r].rec.id o == run[r].rec.out
       IN  IF invoice[i] = "paid"
             THEN /\ invoice' = [invoice EXCEPT ![i] = "issued"]
                  /\ signed' = signed \cup {<<i, o>>}
                  /\ Goto(r, "answered", run[r].rec)
             ELSE Stop(r) /\ UNCHANGED <<invoice, signed>>
    /\ UNCHANGED <<stored, expiry, body, spent, tokens, outputs, rest>>

\* restoreProofs: only outputs the mint signed can be restored.
Restore(r) ==
    /\ run[r].pc = "restore"
    /\ IF <<run[r].rec.id, run[r].rec.out>> \in signed
         THEN Receive(run[r].rec.out)
         ELSE UNCHANGED stored
    /\ Stop(r)
    /\ UNCHANGED <<world, outputs, rest>>

\* The signatures arrive (of either rail) and the proofs are stored.
StoreProofs(r) ==
    /\ run[r].pc = "answered"
    /\ Receive(run[r].rec.out)
    /\ Stop(r)
    /\ UNCHANGED <<world, outputs, rest>>

----------------------------------------------------------------------------
(* A top-up call: topUpX402 *)

StartX402(r) ==
    /\ run[r].pc = "idle" /\ "x402" \in Rails
    /\ \/ pending = {} /\ Goto(r, "making", <<>>)
       \/ \E rec \in pending : rec.rail = "x402" /\ Goto(r, "resumed", rec)
    /\ UNCHANGED <<stored, world, outputs, rest>>

\* Fresh outputs and the exact body, stored before the invoice is requested.
MakeBody(r) ==
    /\ run[r].pc = "making" /\ outputs < MaxOutputs
    /\ outputs' = outputs + 1
    /\ SetPending(X402Record(outputs + 1))
    /\ Goto(r, "resumed", X402Record(outputs + 1))
    /\ UNCHANGED <<proofs, inFlight, world, rest>>

Expired(rec) == rec.id # 0 /\ expiry[rec.id] <= now

\* The branch of a resumed call: check an expired invoice, ask for a fresh
\* one, wait for the payment, or settle.
Resumed(r) ==
    /\ run[r].pc = "resumed"
    /\ LET rec == run[r].rec
       IN  Goto(r, CASE rec.preimage -> "settling"
                     [] Expired(rec) -> "checking"
                     [] rec.id = 0 -> "asking"
                     [] OTHER -> "watching", rec)
    /\ UNCHANGED <<stored, world, outputs, rest>>

\* paidPreimage: the preimage when the issuer reports the invoice paid, and
\* "not paid" both when it is not and when the request fails.
PaidPreimage(r) ==
    /\ run[r].pc = "checking"
    /\ \/ /\ invoice[run[r].rec.id] # "unpaid"
          /\ LET rec == [run[r].rec EXCEPT !.preimage = TRUE]
             IN  SetPending(rec) /\ Goto(r, "settling", rec)
          /\ UNCHANGED <<proofs, inFlight>>
       \/ /\ invoice[run[r].rec.id] = "unpaid" \/ StatusFails
          /\ Goto(r, "asking", run[r].rec)
          /\ UNCHANGED stored
    /\ UNCHANGED <<world, outputs, rest>>

\* A challenge's binding is to some request body; a stale answer may be for
\* another one.
Challenges == {[bound |-> o, expires |-> e] : o \in 1..outputs, e \in {now, now + Life}}

\* validateChallenge: the request hash recomputed over our body is the one in
\* the requirement and in the invoice, and the invoice has not expired.
ValidateChallenge(ch, o) == ch.bound = o /\ ch.expires >= now

\* requestChallenge: a fresh invoice, stored before it is shown; a challenge
\* that does not validate ends the call.
Challenged(r) ==
    /\ run[r].pc = "asking"
    /\ \E ch \in Challenges :
         IF ~ValidateChallenge(ch, run[r].rec.out)
           THEN Stop(r) /\ UNCHANGED <<stored, world>>
           ELSE \E i \in Fresh :
                  /\ invoice' = [invoice EXCEPT ![i] = "unpaid"]
                  /\ expiry' = [expiry EXCEPT ![i] = ch.expires]
                  /\ body' = [body EXCEPT ![i] = ch.bound]
                  /\ LET rec == [run[r].rec EXCEPT !.id = i]
                     IN  SetPending(rec) /\ Goto(r, "watching", rec)
                  /\ UNCHANGED <<proofs, inFlight, signed, spent, tokens>>
    /\ UNCHANGED <<outputs, rest>>

\* waitForPayment: the preimage, or the invoice expired.
Watched(r) ==
    /\ run[r].pc = "watching"
    /\ \/ /\ invoice[run[r].rec.id] # "unpaid"
          /\ LET rec == [run[r].rec EXCEPT !.preimage = TRUE]
             IN  SetPending(rec) /\ Goto(r, "settling", rec)
          /\ UNCHANGED <<proofs, inFlight>>
       \/ /\ invoice[run[r].rec.id] = "unpaid" /\ Expired(run[r].rec)
          /\ Stop(r)
          /\ UNCHANGED stored
    /\ UNCHANGED <<world, outputs, rest>>

\* settle: the issuer has the mint sign exactly the body's outputs; it repeats
\* the signatures for the same request, and refuses another body.
Settle(r) ==
    /\ run[r].pc = "settling"
    /\ LET i == run[r].rec.id o == run[r].rec.out
       IN  IF body[i] = o
             THEN /\ invoice' = [invoice EXCEPT ![i] = "issued"]
                  /\ signed' = signed \cup {<<i, o>>}
                  /\ Goto(r, "answered", run[r].rec)
             ELSE Stop(r) /\ UNCHANGED <<invoice, signed>>
    /\ UNCHANGED <<stored, expiry, body, spent, tokens, outputs, rest>>

----------------------------------------------------------------------------
(* Errors, reloads, cancellation, and the payer *)

\* A request fails, an answer is lost, or the page reloads: the call ends and
\* keeps nothing.
RunEnds(r) ==
    /\ run[r].pc # "idle"
    /\ Stop(r)
    /\ UNCHANGED <<stored, world, outputs, rest>>

\* The user pays an invoice on show; not while a cancellation is in progress,
\* and not one that was on show when a cancellation went through.
Pay(i) ==
    /\ invoice[i] = "unpaid" /\ i \notin dropped /\ cancel = {}
    /\ body[i] # 0 => now < expiry[i]
    /\ invoice' = [invoice EXCEPT ![i] = "paid"]
    /\ UNCHANGED <<stored, run, expiry, body, signed, spent, tokens, outputs, rest>>

Drop ==
    /\ pending' = {}
    /\ dropped' = dropped \cup {i \in Ids : invoice[i] # "none"}

\* What the record itself says of a payment, and whether the mint or the
\* issuer must be asked.
RecordedPaid(rec) == IF rec.rail = "x402" THEN rec.preimage ELSE rec.out # 0

MustAsk(rec) == ~RecordedPaid(rec) /\ rec.id # 0

\* cancelPendingTopUp reads the record and settles the matter at once unless a
\* status has to be fetched.  A running call may go on or end (RunEnds).
CancelStarts ==
    /\ cancel = {} /\ pending # {}
    /\ \E rec \in pending :
         IF MustAsk(rec)
           THEN cancel' = pending /\ UNCHANGED <<pending, dropped>>
           ELSE /\ UNCHANGED cancel
                /\ IF RecordedPaid(rec) THEN UNCHANGED <<pending, dropped>> ELSE Drop
    /\ UNCHANGED <<proofs, inFlight, run, check, world, outputs, now>>

\* With the status in hand it drops whatever is pending by then, or keeps it.
CancelEnds ==
    /\ cancel # {}
    /\ \E rec \in cancel :
         IF invoice[rec.id] # "unpaid" THEN UNCHANGED <<pending, dropped>> ELSE Drop
    /\ cancel' = {}
    /\ UNCHANGED <<proofs, inFlight, run, check, world, outputs, now>>

\* The status request fails: the top-up stays.
CancelFails ==
    /\ cancel # {}
    /\ cancel' = {}
    /\ UNCHANGED <<stored, run, check, world, outputs, dropped, now>>

----------------------------------------------------------------------------
(* Presenting and reconciling *)

\* CashuWallet.present: the proof is in flight before the token leaves.
Present(p) ==
    /\ p \in proofs /\ Cardinality(tokens) < MaxPresents
    /\ proofs' = proofs \ {p}
    /\ inFlight' = inFlight \cup {[at |-> now, proof |-> p]}
    /\ tokens' = tokens \cup {[at |-> now, proof |-> p]}
    /\ UNCHANGED <<pending, run, invoice, expiry, body, signed, spent, outputs, rest>>

Redeemable(t) == t.proof \notin spent /\ now - t.at <= RedeemTime

\* A server has the issuer swap the token; a lost token is never redeemed.
Redeem(t) ==
    /\ t \in tokens /\ Redeemable(t)
    /\ spent' = spent \cup {t.proof}
    /\ UNCHANGED <<stored, run, invoice, expiry, body, signed, tokens, outputs, rest>>

\* Mutant: presentations are checked with the mint at once.
DueAtOnce == {f.proof : f \in inFlight}

Due == {f.proof : f \in {g \in inFlight : now - g.at >= Grace}}

CheckStarts(c) ==
    /\ check[c].pc = "idle" /\ Due # {}
    /\ check' = [check EXCEPT ![c] = [pc |-> "asked", due |-> Due]]
    /\ UNCHANGED <<stored, run, cancel, world, outputs, dropped, now>>

\* The mint reports the state of the proofs as it is now.
CheckAnswered(c) ==
    /\ check[c].pc = "asked"
    /\ check' = [check EXCEPT ![c] = [pc |-> "told", due |-> check[c].due,
                                      unspent |-> check[c].due \ spent]]
    /\ UNCHANGED <<stored, run, cancel, world, outputs, dropped, now>>

\* The answer is applied to the record as it is by then.
CheckApplied(c) ==
    /\ check[c].pc = "told"
    /\ inFlight' = {f \in inFlight : f.proof \notin check[c].due}
    /\ proofs' = proofs \cup check[c].unspent
    /\ check' = [check EXCEPT ![c] = Idle]
    /\ UNCHANGED <<pending, run, cancel, world, outputs, dropped, now>>

CheckFails(c) ==
    /\ check[c].pc # "idle"
    /\ check' = [check EXCEPT ![c] = Idle]
    /\ UNCHANGED <<stored, run, cancel, world, outputs, dropped, now>>

Tick ==
    /\ now < MaxTime
    /\ now' = now + 1
    /\ UNCHANGED <<stored, run, cancel, check, world, outputs, dropped>>

----------------------------------------------------------------------------

Init ==
    /\ proofs = {} /\ inFlight = {} /\ pending = {}
    /\ run = [r \in Runs |-> Idle] /\ cancel = {} /\ check = [c \in Checks |-> Idle]
    /\ invoice = [i \in Ids |-> "none"]
    /\ expiry = [i \in Ids |-> 0] /\ body = [i \in Ids |-> 0]
    /\ signed = {} /\ spent = {} /\ tokens = {} /\ outputs = 0 /\ dropped = {} /\ now = 0

Next ==
    \/ \E r \in Runs :
         \/ StartMint(r) \/ QuoteArrives(r) \/ QuotePaid(r) \/ Blind(r)
         \/ MintOrRestore(r) \/ MintSigns(r) \/ Restore(r) \/ StoreProofs(r)
         \/ StartX402(r) \/ MakeBody(r) \/ Resumed(r) \/ PaidPreimage(r)
         \/ Challenged(r) \/ Watched(r) \/ Settle(r) \/ RunEnds(r)
    \/ \E i \in Ids : Pay(i)
    \/ CancelStarts \/ CancelEnds \/ CancelFails
    \/ \E p \in proofs : Present(p)
    \/ \E t \in tokens : Redeem(t)
    \/ \E c \in Checks :
         CheckStarts(c) \/ CheckAnswered(c) \/ CheckApplied(c) \/ CheckFails(c)
    \/ Tick

Spec == Init /\ [][Next]_vars

----------------------------------------------------------------------------
(* Properties *)

Records ==
    [rail : {"mint"}, id : Ids, out : 0..MaxOutputs]
        \cup [rail : {"x402"}, id : 0..MaxInvoices, out : 1..MaxOutputs, preimage : BOOLEAN]

\* The stored record is well formed: one pending top-up, and no proof is
\* spendable and in flight at once.
TypeOK ==
    /\ proofs \subseteq 1..outputs
    /\ inFlight \subseteq [at : 0..MaxTime, proof : 1..outputs]
    /\ pending \subseteq Records /\ Cardinality(pending) <= 1
    /\ proofs \cap {f.proof : f \in inFlight} = {}

Held == proofs \cup {f.proof : f \in inFlight} \cup spent

\* "Resumable: a pending top-up continues from its last step, and outputs the
\* mint signed while its answer was lost are recovered": whatever step a
\* reload interrupts, a paid invoice is the stored pending top-up's, and
\* signed outputs are stored ones or already held proofs.
PaidIsRecoverable ==
    \A i \in Ids :
        /\ invoice[i] = "paid" => \E rec \in pending : rec.id = i
        /\ \A o \in 1..outputs : <<i, o>> \in signed =>
             o \in Held \/ \E rec \in pending : rec.id = i /\ rec.out = o

\* validateChallenge: an x402 invoice on show is bound to the stored body, so
\* that paying it buys the stored outputs.
ShownIsBound ==
    \A rec \in pending : (rec.rail = "x402" /\ rec.id # 0) => body[rec.id] = rec.out

\* reconcile returns only proofs no server can still redeem ("no server
\* redeemed them"; the grace period outlasts a redemption): a spendable proof
\* is unspent and in no live presentation.
SpendableIsFree ==
    \A p \in proofs : p \notin spent /\ \A t \in tokens : t.proof = p => ~Redeemable(t)

\* No step of the wallet loses ecash: a held proof the mint has not swapped
\* stays spendable or in flight.
NothingLost ==
    (Held \ spent) \subseteq (proofs \cup {f.proof : f \in inFlight})' \cup spent'
=============================================================================
