------------------------------ MODULE MCAccess ------------------------------
(***************************************************************************)
(* Instances of what decides who is served and what it costs: the access   *)
(* gate of a server and the redemption of what clients present to it (this *)
(* module extends both), the prices, the client's paying transport, the    *)
(* wallet it pays from and the checks that bind a directory entry to the   *)
(* server it names. The parts share no state, so every behaviour explores  *)
(* one of them, its focus.                                                 *)
(***************************************************************************)
EXTENDS AccessGate, Redemption, TLC

CONSTANTS Foci,       \* the parts a run explores, one in each behaviour
          c1, c2, c3, d1, d2, t1, t2, j1, k1, k2, s1, s2, r1

VARIABLE focus         \* the part of this behaviour; the others stay put

VARIABLES db, card, server, meter, asked, stage, exact, requests
priceVars == <<db, card, server, meter, asked, stage, exact, requests>>
priceIdle ==
    db = 0 /\ card = 0 /\ server = 0 /\ meter = 0 /\ asked = 0 /\ stage = 0 /\ exact = 0
    /\ requests = 0

VARIABLES balance, out, observed, retry, wallet, call, up, down, credit_gas, credit_failures, sent,
          since, ret
creditVars == <<balance, out, observed, retry, wallet, call, up, down, credit_gas, credit_failures, sent,
                since, ret>>
creditIdle ==
    balance = 0 /\ out = 0 /\ observed = 0 /\ retry = 0 /\ wallet = 0 /\ call = 0
    /\ up = 0 /\ down = 0 /\ credit_gas = 0 /\ credit_failures = 0 /\ sent = 0
    /\ since = 0 /\ ret = 0

VARIABLES present_open, present_credits, present_rejections, present_label, present_job,
          present_nonces, present_wire, present_replies, present_store, present_swapped,
          present_granted, present_answer
presentVars == <<present_open, present_credits, present_rejections, present_label, present_job,
                 present_nonces, present_wire, present_replies, present_store,
                 present_swapped, present_granted, present_answer>>
presentIdle ==
    present_open = 0 /\ present_credits = 0 /\ present_rejections = 0
    /\ present_label = 0 /\ present_job = 0 /\ present_nonces = 0 /\ present_wire = 0
    /\ present_replies = 0 /\ present_store = 0 /\ present_swapped = 0
    /\ present_granted = 0 /\ present_answer = 0

VARIABLES proofs, inFlight, pending, run, cancel, check, invoice, expiry, body, signed, spent,
          purse_tokens, outputs, dropped, purse_now
purseVars == <<proofs, inFlight, pending, run, cancel, check, invoice, expiry, body, signed, spent,
               purse_tokens, outputs, dropped, purse_now>>
purseIdle ==
    proofs = 0 /\ inFlight = 0 /\ pending = 0 /\ run = 0 /\ cancel = 0 /\ check = 0
    /\ invoice = 0 /\ expiry = 0 /\ body = 0 /\ signed = 0 /\ spent = 0
    /\ purse_tokens = 0 /\ outputs = 0 /\ dropped = 0 /\ purse_now = 0

VARIABLES bind_now, node, page, entry, session
bindVars == <<bind_now, node, page, entry, session>>
bindIdle ==
    bind_now = 0 /\ node = 0 /\ page = 0 /\ entry = 0 /\ session = 0

-----------------------------------------------------------------------------
Symmetry == Permutations(Conns)

(* Prices: small tables whose costs fall on both sides of a half gas,      *)
(* databases with every combination of backends.                           *)
Sub(bins, groups, bytes) == [bins |-> bins, groups |-> groups, bytes |-> bytes]
Cuckoo(i, c, is, cs) ==
    [main |-> [Index |-> i, Chunk |-> c], siblings |-> [Index |-> is, Chunk |-> cs]]

Small == Cuckoo(Sub(4, 2, 8), Sub(9, 2, 30), <<>>, <<Sub(2, 2, 6)>>)
Large == Cuckoo(Sub(30, 3, 90), Sub(50, 3, 200), <<Sub(12, 3, 70), Sub(3, 3, 20)>>,
                <<Sub(20, 3, 120), Sub(5, 3, 40)>>)

MCRate == [dpf_bin |-> 7, dpf_byte |-> 3, onion_index |-> 11, onion_chunk |-> 13,
           onion_sibling |-> 90, register |-> 40, pool |-> 9, sibling |-> 5, query |-> 3,
           oram |-> 17, tree_tops |-> 52]

MCGeometries ==
    [cuckoo : {{}, {Small}, {Large}}, onion : {{}, {[index |-> 6, chunk |-> 7]}}, oram : {{}, {3}}]

\* A server with every backend, for sequences of requests.
MCFull == {[cuckoo |-> {Large}, onion |-> {[index |-> 6, chunk |-> 7]}, oram |-> {3}]}

(* The paying transport: a light query, a heavy query and a two-frame       *)
(* stream; prices of a few gas, a few gas to the credit.                   *)
PaidOps == {"query", "stream"}
BestOps == {"query", "heavy", "tops"}
WaveOps == {"query", "heavy"}

AllPaid == [query |-> "paid", heavy |-> "paid", stream |-> "paid"]
BestAccess == [query |-> "best_effort", heavy |-> "best_effort", tops |-> "free"]
Prices == [query |-> 1, tops |-> 1, heavy |-> 2, stream |-> 2]
PartSizes == [query |-> <<2>>, tops |-> <<2>>, heavy |-> <<4>>, stream |-> <<3, 3>>]
Estimates == [query |-> 2, tops |-> 2, heavy |-> 4, stream |-> 6]

(* Providers: one endpoint with configurations that differ in role, access, *)
(* identity, hardware and build; a page whose second version accepts a     *)
(* build switch.                                                           *)
Config(id, role, policy, identity, measurement, binary, ahead) ==
    [operator |-> "op", server_id |-> id, role |-> role, policy |-> policy,
     identity |-> identity, from |-> 1, until |-> 1, measurement |-> measurement,
     ark |-> IF measurement = {} THEN {} ELSE {"milan"}, binary |-> binary, ahead |-> ahead]

FreePolicy == [b \in {"dpf", "harmony", "onion", "oram"} |-> [mode |-> "free"]]
MixedPolicy ==
    [b \in {"dpf", "harmony", "onion", "oram"} |->
        IF b = "dpf" THEN [mode |-> "best-effort", free_concurrency |-> 1, free_gas_per_hour |-> {}]
        ELSE [mode |-> "paid"]]

MCConfigs ==
    {Config("new", "primary", MixedPolicy, TRUE, {}, "b1", 0),
     Config("new", "secondary", MixedPolicy, TRUE, {}, "b1", 0),
     Config("new", "primary", FreePolicy, TRUE, {}, "b1", 2),
     Config("other", "primary", MixedPolicy, TRUE, {}, "b1", 1),
     Config("pinned", "primary", MixedPolicy, TRUE, {}, "b1", 0),
     Config("pinned", "primary", MixedPolicy, TRUE, {}, "b2", 0),
     Config("sev", "primary", MixedPolicy, FALSE, {"img"}, "b1", 0),
     Config("sev", "primary", FreePolicy, TRUE, {"img"}, "b1", 0)}

Hint(b, role, access, att) == [backend |-> b, role |-> role, access |-> access, attestation |-> att]
MCHintLists ==
    {<<Hint("dpf", "primary", "best-effort", "none"), Hint("onion", "primary", "paid", "none")>>,
     <<Hint("dpf", "secondary", "best-effort", "none")>>,
     <<Hint("dpf", "primary", "best-effort", "none"), Hint("onion", "secondary", "paid", "none")>>,
     <<Hint("onion", "primary", "paid", "none"), Hint("dpf", "primary", "best-effort", "none")>>,
     <<Hint("dpf", "primary", "free", "sev-snp")>>,
     <<Hint("dpf", "primary", "best-effort", "sev-snp"), Hint("oram", "primary", "paid", "sev-snp")>>,
     <<>>}

Pin(id, measurement, binary, transition, ark) ==
    [operator |-> "op", server_id |-> {id}, measurement |-> measurement, binary |-> binary,
     transition |-> transition, ark |-> ark]
MCBuiltIns ==
    <<{Pin("pinned", {}, {"b1"}, {}, {}), Pin("tier3", {"img"}, {"b1"}, {}, {"milan"})},
      {Pin("pinned", {}, {"b2"}, {"b1"}, {}), Pin("tier3", {"img"}, {"b1"}, {}, {"milan"})}>>

-----------------------------------------------------------------------------
(* The instances. *)

Published == INSTANCE GasPricing WITH
        Rate <- MCRate, Unit <- 10, Geometries <- MCGeometries, MaxSubs <- 3, Base <- 2,
        PerCredit <- 50, PerMb <- 3, Million <- 1000, MaxRequests <- 1

Metered == INSTANCE GasPricing WITH
        Rate <- MCRate, Unit <- 10, Geometries <- MCFull, MaxSubs <- 3, Base <- 2, PerCredit <- 50,
        PerMb <- 3, Million <- 1000, MaxRequests <- 2

CreditPaid == INSTANCE CreditedTransport WITH
        Ops <- PaidOps, Access <- AllPaid, Price <- Prices, Parts <- PartSizes,
        Estimate <- Estimates, Overhead <- 1, ErrBytes <- 1, Rate <- 1, Unit <- 2,
        GasPerCredit <- 3, Credits <- {0, 2, 9}, CanPay <- TRUE, Rejects <- TRUE,
        Depth <- 1, MaxFrames <- 8, gas <- credit_gas, failures <- credit_failures

CreditBest == INSTANCE CreditedTransport WITH
        Ops <- BestOps, Access <- BestAccess, Price <- Prices, Parts <- PartSizes,
        Estimate <- Estimates, Overhead <- 4, ErrBytes <- 1, Rate <- 1, Unit <- 2,
        GasPerCredit <- 6, Credits <- {0, 2, 9}, CanPay <- TRUE, Rejects <- TRUE,
        Depth <- 2, MaxFrames <- 6, gas <- credit_gas, failures <- credit_failures

CreditWave == INSTANCE CreditedTransport WITH
        Ops <- WaveOps, Access <- AllPaid, Price <- Prices, Parts <- PartSizes,
        Estimate <- Estimates, Overhead <- 1, ErrBytes <- 1, Rate <- 1, Unit <- 2,
        GasPerCredit <- 3, Credits <- {6}, CanPay <- TRUE, Rejects <- FALSE, Depth <- 3,
        MaxFrames <- 7, gas <- credit_gas, failures <- credit_failures

RedeemEnds == INSTANCE Redemption WITH
        Presenters <- {d1}, Tokens <- {t1, t2}, Junk <- {j1}, Keys <- {k1}, BadKeys <- {k2},
        HasIssuer <- TRUE, Signers <- {s1, s2}, Pinned <- {s1}, MaxNonces <- 2,
        open <- present_open, credits <- present_credits, rejections <- present_rejections,
        label <- present_label, job <- present_job, nonces <- present_nonces,
        wire <- present_wire, replies <- present_replies, store <- present_store,
        swapped <- present_swapped, granted <- present_granted, answer <- present_answer

Purse == INSTANCE CashuWallet WITH
        Runs <- {r1}, Checks <- {d1}, Rails <- {"mint", "x402"}, StatusFails <- FALSE, Grace <- 2,
        RedeemTime <- 1, Life <- 1, MaxTime <- 3, MaxInvoices <- 2, MaxOutputs <- 2,
        MaxPresents <- 2, tokens <- purse_tokens, now <- purse_now

Binding == INSTANCE ProviderBinding WITH
        Configs <- MCConfigs, HintLists <- MCHintLists, BuiltIns <- MCBuiltIns, Skew <- 1,
        MaxAge <- 0, MaxTime <- 2, MaxBoots <- 2, now <- bind_now

ASSUME InstanceAssumptions ==
    /\ BoundAssumption
    /\ Published!UnitAssumption
    /\ Metered!UnitAssumption
    /\ RedeemEnds!BoundAssumption
    /\ Purse!GraceCoversRedeem

-----------------------------------------------------------------------------
suiteVars == <<focus, vars, redeemVars, priceVars, creditVars, presentVars, purseVars, bindVars>>

SuiteInit ==
    /\ focus \in Foci
    /\ Init
    /\ RedeemInit
    /\ CASE focus = "prices" -> Published!Init
         [] focus = "meter" -> Metered!Init
         [] OTHER -> priceIdle
    /\ CASE focus = "credit_paid" -> CreditPaid!Init
         [] focus = "credit_best" -> CreditBest!Init
         [] focus = "credit_wave" -> CreditWave!Init
         [] OTHER -> creditIdle
    /\ IF focus = "redeem_ends" THEN RedeemEnds!RedeemInit ELSE presentIdle
    /\ IF focus = "purse" THEN Purse!Init ELSE purseIdle
    /\ IF focus = "binding" THEN Binding!Init ELSE bindIdle

GateStep ==
    /\ focus = "gate" /\ Next
    /\ UNCHANGED <<focus, redeemVars, priceVars, creditVars, presentVars, purseVars, bindVars>>

RedeemStep ==
    /\ focus = "redeem" /\ RedeemNext
    /\ UNCHANGED <<focus, vars, priceVars, creditVars, presentVars, purseVars, bindVars>>

PriceStep ==
    /\ \/ focus = "prices" /\ Published!Next
       \/ focus = "meter" /\ Metered!Next
    /\ UNCHANGED <<focus, vars, redeemVars, creditVars, presentVars, purseVars, bindVars>>

CreditStep ==
    /\ \/ focus = "credit_paid" /\ CreditPaid!Next
       \/ focus = "credit_best" /\ CreditBest!Next
       \/ focus = "credit_wave" /\ CreditWave!Next
    /\ UNCHANGED <<focus, vars, redeemVars, priceVars, presentVars, purseVars, bindVars>>

PresentStep ==
    /\ focus = "redeem_ends" /\ RedeemEnds!RedeemNext
    /\ UNCHANGED <<focus, vars, redeemVars, priceVars, creditVars, purseVars, bindVars>>

PurseStep ==
    /\ focus = "purse" /\ Purse!Next
    /\ UNCHANGED <<focus, vars, redeemVars, priceVars, creditVars, presentVars, bindVars>>

BindStep ==
    /\ focus = "binding" /\ Binding!Next
    /\ UNCHANGED <<focus, vars, redeemVars, priceVars, creditVars, presentVars, purseVars>>

SuiteNext ==
    \/ GateStep
    \/ RedeemStep
    \/ PriceStep
    \/ CreditStep
    \/ PresentStep
    \/ PurseStep
    \/ BindStep

SuiteSpec == SuiteInit /\ [][SuiteNext]_suiteVars

\* A frame that waits in the lane is woken, by a slot or by its timer; a
\* redeem call gives up when its attempts have timed out.
SuiteFairness ==
    /\ \A c \in Conns : WF_vars(focus = "gate" /\ Decide(c))
    /\ WF_redeemVars(focus = "redeem" /\ ExchangeFails(d1))

FairSuiteSpec == SuiteSpec /\ SuiteFairness

-----------------------------------------------------------------------------
(* Properties. *)

(***************************************************************************)
(* The client prices an operation with a published figure as the server    *)
(* does; what it derives for batches and sibling levels is short by half a *)
(* gas per sub-query at most; the browser derives the same; with exact     *)
(* prices a response within the reserve leaves no debt; and the client's   *)
(* meter is then the server's balance.                                     *)
(***************************************************************************)
PricesSafe ==
    /\ focus = "prices" =>
          Published!PublishedPricesAgree /\ Published!DerivedPricesClose
          /\ Published!BrowserPricesAgree
    /\ focus = "meter" => Metered!ReserveCoversEgress /\ Metered!MeterExact

(***************************************************************************)
(* A client's mirror of its balance. Every response is attributed to the   *)
(* frame that caused it; used one request at a time the mirror is never    *)
(* below the server's balance, and above it only by answers it does not    *)
(* count; a paid round trip never ends in a gas refusal, and a best-effort *)
(* frame comes back busy only when the client could not pay; and the       *)
(* balance dips below zero by one response at most. What it presents, keys *)
(* and malformed tokens among it, is redeemed as RedeemedOnce says.        *)
(***************************************************************************)
MirrorSafe ==
    /\ focus = "credit_paid" =>
          CreditPaid!TypeOK /\ CreditPaid!TripPaysThrough
          /\ CreditPaid!MirrorBehind
    /\ focus = "credit_best" =>
          CreditBest!TypeOK /\ CreditBest!BusyOnlyUnpaid
          /\ CreditBest!DipsByOneResponse
    /\ focus = "credit_wave" => CreditWave!DipsByOneResponse
    /\ focus = "credit_paid" => CreditPaid!Attributed
    /\ focus = "credit_best" => CreditBest!Attributed
    /\ focus = "credit_wave" => CreditWave!Attributed
    /\ focus = "redeem_ends" => RedeemEnds!RedeemedOnce

(***************************************************************************)
(* A frame that entered the free lane is admitted or refused, whether or   *)
(* not the holders of its slots ever finish; and a presentation is         *)
(* answered, whatever the issuer does.                                     *)
(***************************************************************************)
EveryRequestEnds ==
    /\ EveryFrameDecided
    /\ (focus = "redeem" /\ job[d1] # {}) ~> (focus = "redeem" /\ job[d1] = {})

(***************************************************************************)
(* The browser's wallet over reloads and cancellations. A paid invoice is  *)
(* the stored top-up's, and signed outputs are stored ones or proofs       *)
(* already held; an x402 invoice on show is bound to the stored body; and  *)
(* a proof that counts as spendable is unspent and in no live              *)
(* presentation.                                                           *)
(***************************************************************************)
WalletSafe ==
    focus = "purse" =>
          Purse!TypeOK /\ Purse!PaidIsRecoverable /\ Purse!ShownIsBound
          /\ Purse!SpendableIsFree

(***************************************************************************)
(* Closing a directory entry against a live server. Browser and codec make *)
(* the same check; an entry closed against a server whose connection still *)
(* stands describes that server; what the publisher's check accepted the   *)
(* client accepts while the node runs on; and a build switch as the        *)
(* operator does it goes unnoticed.                                        *)
(***************************************************************************)
BindingSafe ==
    focus = "binding" =>
          Binding!BindingsAgree /\ Binding!BoundIsLive /\ Binding!AnnouncedBinds
          /\ Binding!SwitchUnnoticed
=============================================================================
