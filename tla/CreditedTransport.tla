--------------------------- MODULE CreditedTransport ---------------------------
(****************************************************************************)
(* One metered connection seen from both ends: the client's wrapper          *)
(* (sdk/client/src/credit_transport.rs), which keeps a mirror of the gas     *)
(* balance and funds frames before they go out, and the server's balance     *)
(* (credit_gate.rs) with the order of the connection loop (serve.rs): admit, *)
(* dispatch, charge the response.  The connection is a FIFO in each          *)
(* direction.  A caller either makes round trips or sends a wave of frames   *)
(* and then receives the answers, as the Merkle sibling rounds do.           *)
(* Response sizes are small numbers of bytes; gas is Rate * bytes \div Unit. *)
(****************************************************************************)
EXTENDS Integers, Sequences

CONSTANTS
    Ops,          \* metered request families
    Access,       \* [Ops -> {"free", "paid", "best_effort"}], published by the server
    Price,        \* [Ops -> Nat]: work plus base fee, known to both sides
    Parts,        \* [Ops -> Seq(Nat)]: the frames of one answer, in bytes
    Estimate,     \* [Ops -> Nat]: the built-in response-size estimates
    Overhead,     \* bytes per frame the server counts and the client does not
    ErrBytes,     \* length of an error response
    Rate, Unit,   \* egress gas: Rate per Unit bytes, rounded down
    GasPerCredit,
    Credits,      \* what the wallet holds at the start
    CanPay,       \* the server has an issuer
    Rejects,      \* presentations may be rejected
    Depth,        \* frames a caller keeps in flight at once
    MaxFrames     \* bound: frames a caller sends

VARIABLES
    balance,    \* CreditedTransport.balance: the mirror
    out,        \* CreditedTransport.outstanding
    observed,   \* CreditedTransport.observed; 0 is "no entry"
    retry,      \* CreditedTransport.busy_retry, <<>> or <<[op, before]>>
    wallet,     \* credits the provider still has
    call,       \* the client call in progress, <<>> when none
    up, down,   \* the connection, client to server and back
    gas,        \* GasBalanceV1.gas
    failures,   \* GasBalanceV1.presentation_failures
    sent,       \* frames sent so far; numbers them
    since,      \* metered answers since the server last named its balance
    ret         \* the last result handed to the caller, <<>> before any

vars == <<balance, out, observed, retry, wallet, call, up, down, gas, failures, sent, since, ret>>
server == <<gas, failures>>

----------------------------------------------------------------------------
(* Prices *)

EgressGas(bytes) == (bytes * Rate) \div Unit

CreditsToCover(g) == (g + GasPerCredit - 1) \div GasPerCredit

SumOf(s) == LET F[i \in 0..Len(s)] == IF i = 0 THEN 0 ELSE F[i - 1] + s[i] IN F[Len(s)]

Larger(a, b) == IF a > b THEN a ELSE b

Smaller(a, b) == IF a < b THEN a ELSE b

EgressReserve(op) ==
    EgressGas(IF observed[op] = 0 THEN Estimate[op] ELSE observed[op] + observed[op] \div 8)

\* What the server charges for a whole answer: the bytes its sink counted.
AnswerGas(op) == EgressGas(SumOf(Parts[op]) + Overhead * Len(Parts[op]))

----------------------------------------------------------------------------
(* The outstanding queue *)

\* Mutant: an answered request stays at the head.
KeepAnsweredHead(q) == q

CloseAnsweredHead(q) == IF Len(q) = 1 /\ q[1].seen > 0 THEN <<>> ELSE q

IsBestEffort(entry) ==
    \/ entry.kind = "freelane"
    \/ /\ entry.kind = "metered"
       /\ Access[entry.op] = "best_effort"

\* after_recv: the queue, the mirror and the observed sizes once `bytes` arrived.
AfterRecv(bytes) ==
    IF out = <<>> THEN [out |-> out, balance |-> balance, observed |-> observed]
    ELSE LET head == [out[1] EXCEPT !.seen = @ + 1]
             metered == head.kind = "metered"
             seen == observed[head.op]
         IN  [out |-> IF Len(out) > 1 THEN Tail(out) ELSE <<head>>,
              balance |-> IF metered THEN balance - EgressGas(bytes) ELSE balance,
              observed |-> IF ~metered THEN observed
                           ELSE [observed EXCEPT ![head.op] =
                                   IF head.seen <= 1 THEN Larger(seen, bytes) ELSE seen + bytes]]

Entry(op) ==
    [op |-> op, seen |-> 0, id |-> 0,
     kind |-> CASE Access[op] = "free" -> "free"
                [] Access[op] = "best_effort" /\ balance < Price[op] -> "freelane"
                [] OTHER -> "metered"]

----------------------------------------------------------------------------
(* The client *)

Closed == ret # <<>> /\ ret[1].what \in {"protocol", "rejected", "credits required", "closed"}

Quiet == up = <<>> /\ down = <<>>

Return(how, op, what) == ret' = <<[how |-> how, op |-> op, what |-> what]>>

\* send / roundtrip up to the end of before_send's pricing.
Begin(how, op) ==
    /\ call = <<>> /\ ~Closed /\ sent < MaxFrames
    /\ IF how = "trip" THEN Quiet /\ Len(Parts[op]) = 1 ELSE Len(up) + Len(down) < Depth
    /\ Quiet \/ Len(Parts[op]) = 1
    /\ out' = CloseAnsweredHead(out)
    /\ call' = <<[how |-> how, op |-> op, pc |-> "fund", entry |-> Entry(op), before |-> balance,
                  tries |-> 0, paying |-> FALSE,
                  needed |-> IF Access[op] = "paid" THEN Price[op] + EgressReserve(op) ELSE balance]>>
    /\ UNCHANGED <<balance, observed, retry, wallet, up, down, server, sent, since, ret>>

Transmit(entry) ==
    /\ up' = Append(up, [kind |-> "frame", op |-> entry.op, id |-> sent + 1])
    /\ out' = Append(out, [entry EXCEPT !.id = sent + 1])
    /\ sent' = sent + 1
    /\ balance' = IF entry.kind = "metered" THEN balance - Price[entry.op] ELSE balance

\* The end of before_send: the frame is priced and funded, and goes out.
Launch ==
    /\ call # <<>>
    /\ LET c == call[1]
       IN  /\ c.pc = "fund" /\ ~c.paying /\ balance >= c.needed
           /\ retry' = IF c.how = "send" /\ out = <<>> /\ IsBestEffort(c.entry)
                         THEN <<[op |-> c.op, before |-> c.before]>> ELSE <<>>
           /\ Transmit(c.entry)
           /\ call' = IF c.how = "trip" THEN <<[c EXCEPT !.pc = "wait"]>> ELSE <<>>
    /\ UNCHANGED <<observed, wallet, down, server, since, ret>>

\* One pass of top_up_if_possible: ask the provider and present what it gives.
Present ==
    /\ call # <<>>
    /\ LET c == call[1]
           asked == Larger(CreditsToCover(c.needed - balance), 1)
       IN  /\ c.pc \in {"fund", "refund"} /\ ~c.paying /\ balance < c.needed
           /\ c.tries < 4 /\ wallet > 0
           /\ \E n \in {1, Smaller(asked, wallet)} :
                /\ wallet' = wallet - n
                /\ up' = Append(up, [kind |-> "present", credits |-> n])
           /\ call' = <<[c EXCEPT !.paying = TRUE, !.tries = @ + 1]>>
    /\ UNCHANGED <<balance, out, observed, retry, down, server, sent, since, ret>>

ApplyReceipt(receipt) == receipt.balance

\* The answer of a presentation's round trip: the next frame of the connection.
TakeReceipt ==
    /\ call # <<>> /\ call[1].paying /\ down # <<>>
    /\ down' = Tail(down)
    /\ LET c == call[1] m == Head(down)
       IN  IF m.kind = "receipt"
             THEN /\ balance' = ApplyReceipt(m)
                  /\ since' = 0
                  /\ call' = <<[c EXCEPT !.paying = FALSE]>>
                  /\ UNCHANGED ret
             ELSE /\ Return(c.how, c.op, IF m.kind = "rejected" THEN "rejected" ELSE "protocol")
                  /\ call' = <<>>
                  /\ UNCHANGED <<balance, since>>
    /\ UNCHANGED <<out, observed, retry, wallet, up, server, sent>>

\* top_up gives up: the provider has nothing left, or four presentations were
\* not enough.  After a busy refusal an empty wallet hands the refusal back.
GiveUp ==
    /\ call # <<>>
    /\ LET c == call[1]
       IN  /\ c.pc \in {"fund", "refund"} /\ ~c.paying /\ balance < c.needed
           /\ wallet = 0 \/ c.tries = 4
           /\ Return(c.how, c.op, IF c.tries = 4 THEN "protocol"
                                  ELSE IF c.pc = "refund" /\ c.busy THEN "busy" ELSE "credits required")
    /\ call' = <<>>
    /\ UNCHANGED <<balance, out, observed, retry, wallet, up, down, server, sent, since>>

NeededAfterBusy(op, entry, before) ==
    LET price == Price[op] + EgressReserve(op)
    IN  IF entry.kind = "metered" THEN Larger(price, before + 1) ELSE price

\* fund_after_busy up to its top-up; without an issuer the refusal stands.
FundAfterBusy(how, op, entry, before, after) ==
    /\ balance' = before
    /\ IF ~CanPay
         THEN call' = <<>> /\ Return(how, op, "busy")
         ELSE /\ call' = <<[how |-> how, op |-> op, pc |-> "refund", busy |-> TRUE, before |-> before,
                            entry |-> [entry EXCEPT !.kind = "metered", !.seen = 0],
                            tries |-> 0, paying |-> FALSE,
                            needed |-> NeededAfterBusy(op, entry, before)]>>
              /\ UNCHANGED ret

NoteRefusal(m) == m.balance

\* roundtrip: the first answer.
TripAnswer ==
    /\ call # <<>> /\ call[1].pc = "wait" /\ down # <<>>
    /\ down' = Tail(down)
    /\ LET c == call[1]
           m == Head(down)
           after == AfterRecv(m.bytes)
       IN  /\ out' = after.out
           /\ observed' = after.observed
           /\ CASE m.kind = "busy" ->
                     FundAfterBusy("trip", c.op, c.entry, c.before, after) /\ UNCHANGED since
                [] m.kind = "refused" ->
                     /\ balance' = NoteRefusal(m)
                     /\ since' = 0
                     /\ call' = <<[how |-> "trip", op |-> c.op, pc |-> "refund", busy |-> FALSE,
                                   before |-> c.before, entry |-> c.entry, tries |-> 0, paying |-> FALSE,
                                   needed |-> m.needed + IF c.entry.kind = "metered"
                                                           THEN EgressReserve(c.op) ELSE 0]>>
                     /\ UNCHANGED ret
                [] OTHER ->
                     /\ balance' = after.balance
                     /\ since' = since + 1
                     /\ call' = <<>>
                     /\ Return("trip", c.op, m.kind)
    /\ UNCHANGED <<retry, wallet, up, server, sent>>

\* book_resend and the second send, of a round trip or of a busy frame's recv.
Resend ==
    /\ call # <<>>
    /\ LET c == call[1]
           q == CloseAnsweredHead(out)
       IN  /\ c.pc = "refund" /\ ~c.paying /\ balance >= c.needed
           /\ up' = Append(up, [kind |-> "frame", op |-> c.op, id |-> sent + 1])
           /\ out' = Append(q, [c.entry EXCEPT !.id = sent + 1])
           /\ sent' = sent + 1
           /\ balance' = balance - Price[c.op]
           /\ call' = <<[c EXCEPT !.pc = "rewait"]>>
    /\ UNCHANGED <<observed, retry, wallet, down, server, since, ret>>

\* The answer to the second send goes to the caller whatever it is.
ResendAnswer ==
    /\ call # <<>> /\ call[1].pc = "rewait" /\ down # <<>>
    /\ LET c == call[1]
           m == Head(down)
           after == AfterRecv(m.bytes)
       IN  /\ out' = after.out /\ observed' = after.observed /\ balance' = after.balance
           /\ Return(c.how, c.op, m.kind)
    /\ since' = since + 1
    /\ down' = Tail(down)
    /\ call' = <<>>
    /\ UNCHANGED <<retry, wallet, up, server, sent>>

\* recv on the split path.
Recv ==
    /\ call = <<>> /\ ~Closed /\ down # <<>>
    /\ down' = Tail(down)
    /\ retry' = <<>>
    /\ LET m == Head(down)
           after == AfterRecv(m.bytes)
       IN  /\ out' = after.out
           /\ observed' = after.observed
           /\ IF retry # <<>> /\ after.out # <<>> /\ m.kind = "busy"
                THEN FundAfterBusy("recv", retry[1].op, after.out[1], retry[1].before, after)
                       /\ UNCHANGED since
                ELSE /\ balance' = IF m.kind = "refused" THEN NoteRefusal(m) ELSE after.balance
                     /\ since' = IF m.kind = "refused" THEN 0 ELSE since + 1
                     /\ Return("wave", m.op, m.kind)
                     /\ UNCHANGED call
    /\ UNCHANGED <<wallet, up, server, sent>>

----------------------------------------------------------------------------
(* The server's connection loop: one frame at a time *)

Answer(req) ==
    [i \in 1..Len(Parts[req.op]) |->
        [kind |-> "answer", op |-> req.op, id |-> req.id, bytes |-> Parts[req.op][i]]]

Covers(price) == gas >= price

\* GasBalanceV1::admit, the dispatch, then charge_egress of what was sent.
ServeCharged(req) ==
    /\ Access[req.op] # "free" /\ Covers(Price[req.op])
    /\ gas' = gas - Price[req.op] - AnswerGas(req.op)
    /\ down' = down \o Answer(req)

\* A paid frame the balance does not cover: nothing is charged.
ServeRefused(req) ==
    /\ Access[req.op] = "paid" /\ ~Covers(Price[req.op])
    /\ down' = Append(down, [kind |-> "refused", op |-> req.op, id |-> req.id, bytes |-> ErrBytes,
                             needed |-> Price[req.op], balance |-> gas])
    /\ UNCHANGED gas

\* A free frame, or one the free lane had a slot for.
ServeFree(req) ==
    /\ Access[req.op] = "free" \/ (Access[req.op] = "best_effort" /\ ~Covers(Price[req.op]))
    /\ down' = down \o Answer(req)
    /\ UNCHANGED gas

ServeBusy(req) ==
    /\ Access[req.op] = "best_effort" /\ ~Covers(Price[req.op])
    /\ down' = Append(down, [kind |-> "busy", op |-> req.op, id |-> req.id, bytes |-> ErrBytes])
    /\ UNCHANGED gas

Serve ==
    /\ up # <<>> /\ Head(up).kind = "frame" /\ failures < 3
    /\ LET req == Head(up)
       IN  ServeCharged(req) \/ ServeRefused(req) \/ ServeFree(req) \/ ServeBusy(req)
    /\ up' = Tail(up)
    /\ UNCHANGED <<balance, out, observed, retry, wallet, call, failures, sent, since, ret>>

\* REQ_CREDIT_PRESENT: the issuer's verdict tops up the balance or counts a failure.
ServePresent ==
    /\ up # <<>> /\ Head(up).kind = "present" /\ failures < 3
    /\ LET added == Head(up).credits * GasPerCredit
       IN  \/ /\ CanPay
              /\ gas' = gas + added
              /\ down' = Append(down, [kind |-> "receipt", added |-> added, balance |-> gas'])
              /\ UNCHANGED failures
           \/ /\ Rejects \/ ~CanPay
              /\ down' = Append(down, [kind |-> "rejected"])
              /\ failures' = failures + 1
              /\ UNCHANGED gas
    /\ up' = Tail(up)
    /\ UNCHANGED <<balance, out, observed, retry, wallet, call, sent, since, ret>>

----------------------------------------------------------------------------

Init ==
    /\ balance = 0 /\ out = <<>> /\ retry = <<>> /\ call = <<>>
    /\ observed = [op \in Ops |-> 0]
    /\ wallet \in Credits
    /\ up = <<>> /\ down = <<>>
    /\ gas = 0 /\ failures = 0 /\ sent = 0 /\ since = 0 /\ ret = <<>>

Next ==
    \/ \E how \in {"send", "trip"}, op \in Ops : Begin(how, op)
    \/ Launch \/ Present \/ TakeReceipt \/ GiveUp
    \/ TripAnswer \/ Resend \/ ResendAnswer \/ Recv
    \/ Serve \/ ServePresent

Spec == Init /\ [][Next]_vars

----------------------------------------------------------------------------
(* Properties *)

\* The kinds of things in the queue and on the wire, and the failure counter.
TypeOK ==
    /\ balance \in Int /\ gas \in Int /\ wallet \in Nat /\ sent \in Nat /\ since \in Nat
    /\ \A i \in 1..Len(out) :
          out[i].kind \in {"metered", "freelane", "free"} /\ out[i].op \in Ops /\ out[i].seen \in Nat
    /\ observed \in [Ops -> Nat]
    /\ failures \in 0..3
    /\ Len(out) <= Depth + 1
    /\ Len(retry) <= 1 /\ Len(call) <= 1 /\ Len(ret) <= 1

\* after_recv attributes a response to the frame that caused it: the head of
\* the outstanding queue is always the frame the next answer belongs to,
\* through waves, streams, refusals and resends.
Attributed ==
    (down # <<>> /\ ~Closed /\ Head(down).kind \notin {"receipt", "rejected"})
        => (out # <<>> /\ out[1].id = Head(down).id)

\* A paid round trip never hands the caller a gas refusal: the wrapper adopts
\* the server's numbers, pays the difference and sends again, or says that the
\* wallet is empty.
TripPaysThrough ==
    (ret # <<>> /\ ret[1].how = "trip") => ret[1].what # "refused"

\* A best-effort frame alone in flight comes back busy only if the wrapper
\* could not pay: the wallet is empty or the server takes no credits.
BusyOnlyUnpaid ==
    ret # <<>> /\ ret[1].how \in {"trip", "recv"} /\ ret[1].what = "busy" => (wallet = 0 \/ ~CanPay)

\* The server's balance dips below zero by at most one response
\* (credit_gate.rs: egress is charged after the response is known).
DipsByOneResponse ==
    \E op \in Ops : gas >= -AnswerGas(op)

LargestSlip ==
    CHOOSE s \in {AnswerGas(op) - SumOf([i \in 1..Len(Parts[op]) |-> EgressGas(Parts[op][i])]) : op \in Ops} :
        \A op \in Ops :
            AnswerGas(op) - SumOf([i \in 1..Len(Parts[op]) |-> EgressGas(Parts[op][i])]) <= s

\* On a paid connection used one request at a time the mirror is never below
\* the server's balance, and above it only by what the client does not count
\* of the answers since the server last named its figure.
MirrorBehind ==
    Quiet /\ call = <<>> /\ ~Closed => balance - gas \in 0..(LargestSlip * since)

=============================================================================
