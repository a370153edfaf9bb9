--------------------------- MODULE ProviderBinding ---------------------------
(***************************************************************************)
(* From a directory entry to a checked server: an entry is listed after    *)
(* the publisher checked the node live, a client picks it, attests the     *)
(* server, checks its operator identity, reads its info document over a    *)
(* connection of its own, and closes the entry against what it found.      *)
(* Between any two of these the node may be switched off and come back     *)
(* with another configuration; its connections do not survive that.        *)
(*                                                                         *)
(* The browser does all of it (verification.ts, directory-providers.ts,    *)
(* nostr-directory.ts); the codec has its own form of the last check       *)
(* (bind_directory_entry_to_live_identity_v1).  Signatures are those of    *)
(* honest nodes and always verify.  A key that is missing is 0, a value    *)
(* that may be missing is a set.                                           *)
(***************************************************************************)
EXTENDS Integers, Sequences

CONSTANTS Configs,     \* configurations of the node
          HintLists,   \* catalog hints an entry may be proposed with
          BuiltIns,    \* pinned providers of the client, by page version
          Skew,        \* FRESHNESS_SKEW_SECS
          MaxAge,      \* maxAnnounceAgeSeconds, 0 for none
          MaxTime,     \* bound: the clock
          MaxBoots     \* bound: boots of the node

VARIABLES
    now,        \* the clock; 0 would turn the time checks off
    node,       \* the running node: its configuration, boot number and bundle's issue time
    page,       \* version of the client's built-in pins
    entry,      \* the provider's directory entry, in a set
    session     \* the client's session with the chosen entry, in a set
vars == <<now, node, page, entry, session>>

----------------------------------------------------------------------------
(* What a server charges for each backend: its access policy, the form it  *)
(* is published in, and the policy a reader takes from that.  A field that *)
(* is missing is an empty set.                                             *)

Backends == {"dpf", "harmony", "onion", "oram"}

Free == [mode |-> "free"]
Paid == [mode |-> "paid"]
BestEffort(concurrency, hourly) ==
    [mode |-> "best-effort", free_concurrency |-> concurrency, free_gas_per_hour |-> hourly]

uniform(access) == [b \in Backends |-> access]

any_paid(policy) == \E b \in Backends : policy[b] = Paid

published(policy) == [b \in Backends |-> {policy[b]}]

PublishedAccess_resolve(entries, required) ==
    [b \in Backends |->
        LET given == UNION {e[b] : e \in entries}
        IN  IF given # {} THEN CHOOSE a \in given : TRUE
            ELSE IF required THEN Paid ELSE Free]

\* Rust readers: the flags of the info document, if it has them.
ReadPolicy(credits) ==
    IF credits = {} THEN uniform(Free)
    ELSE LET flags == CHOOSE f \in credits : TRUE
         IN  PublishedAccess_resolve(flags.access, flags.enabled /\ flags.required)

parseAccessMode(value) ==
    CASE value.mode = "free" -> {Free}
      [] value.mode = "paid" -> {Paid}
      [] value.mode = "best-effort" /\ value.free_concurrency >= 1 ->
            {BestEffort(value.free_concurrency, value.free_gas_per_hour)}
      [] OTHER -> {}

\* The browser's reading, for one backend.
resolveAccess(credits, backend) ==
    LET given == UNION {UNION {UNION {parseAccessMode(v) : v \in e[backend]} : e \in f.access}
                           : f \in credits}
    IN  IF given # {} THEN CHOOSE a \in given : TRUE
        ELSE IF \E f \in credits : f.enabled /\ f.required THEN Paid ELSE Free

----------------------------------------------------------------------------
(* The node. *)

Boot(c, n) == [config |-> c, boot |-> n, issued |-> now + c.ahead]

Init ==
    /\ now = 1 /\ page = 1 /\ entry = {} /\ session = {}
    /\ \E c \in Configs : node = [config |-> c, boot |-> 1, issued |-> 1 + c.ahead]

Live == node.config

\* GET_INFO_JSON of the running node.
Info == [role |-> Live.role,
         credits |-> {[enabled |-> TRUE, required |-> any_paid(Live.policy),
                       access |-> {published(Live.policy)}]}]

----------------------------------------------------------------------------
(* Entries. *)

BackendIndex(b) ==
    CASE b = "dpf" -> 0 [] b = "harmony" -> 1 [] b = "onion" -> 2 [] b = "oram" -> 3

\* Sorted, one per backend, one role and one attestation for the entry.  With
\* the backends in strict order the access class never decides.
validate_catalog_hints(hints) ==
    /\ \A i \in 1..(Len(hints) - 1) :
            BackendIndex(hints[i].backend) < BackendIndex(hints[i + 1].backend)
    /\ \A i \in 1..Len(hints) : /\ hints[i].role = hints[1].role
                                /\ hints[i].attestation = hints[1].attestation

\* The publisher reads the info document as wallets do.
check_live_info(hints, info) ==
    \A i \in 1..Len(hints) :
        /\ info.role = hints[i].role
        /\ ReadPolicy(info.credits)[hints[i].backend].mode = hints[i].access

\* The operator key is the pinned one and its certificate is in date.
check_pinned_operator(cert, operator) ==
    cert.operator = operator /\ cert.from <= now /\ now <= cert.until

\* The certificate part of the node's announce bundle, if it has one.
announce == {[operator |-> Live.operator, server_id |-> Live.server_id, from |-> Live.from,
              until |-> Live.until, channel_pub |-> node.boot, issued_at |-> node.issued]
                : x \in {n \in {1} : Live.identity}}

check_node_live(e) ==
    /\ \A i \in 1..Len(e.hints) : e.hints[i].attestation = "none"
    /\ \E v \in announce : /\ check_pinned_operator(v, e.operator)
                           /\ v.server_id = e.server_id
    /\ check_live_info(e.hints, Info)

Proposal(hints, by) ==
    [operator |-> Live.operator, server_id |-> Live.server_id, hints |-> hints, by |-> by,
     boot |-> node.boot, status |-> "active"]

\* A node announces itself and the publisher lists it.
ListAnnounced ==
    \E hints \in HintLists :
      LET e == Proposal(hints, "announced") IN
      /\ Len(hints) > 0 /\ validate_catalog_hints(hints) /\ check_node_live(e)
      /\ entry' = {e}
      /\ UNCHANGED <<now, node, page, session>>

\* An entry the directory's operator keeps by hand.
ListOwn ==
    \E hints \in HintLists :
      /\ Len(hints) > 0 /\ validate_catalog_hints(hints)
      /\ entry' = {Proposal(hints, "own")}
      /\ UNCHANGED <<now, node, page, session>>

----------------------------------------------------------------------------
(* The client's choice. *)

builtInProviderForV1(e) ==
    {pin \in BuiltIns[page] : pin.server_id = {e.server_id} /\ pin.operator = e.operator}

Measured == {pin \in BuiltIns[page] : pin.measurement # {}}

choice(e) ==
    LET connection(trust, pins, operator, arks) ==
            [trust |-> trust, pin |-> pins, operator |-> operator, ark |-> arks]
    IN  CASE builtInProviderForV1(e) # {} ->
               (LET p == CHOOSE x \in builtInProviderForV1(e) : TRUE
                IN  connection("pinned-build", {p}, p.operator, p.ark))
          [] e.hints[1].attestation = "sev-snp" ->
               (LET p == {CHOOSE x \in Measured : TRUE : y \in {n \in {1} : Measured # {}}}
                IN  connection("sev-snp", p, e.operator, UNION {x.ark : x \in p}))
          [] OTHER -> connection("operator-identity", {}, e.operator, {})

----------------------------------------------------------------------------
(* Attestation. *)

\* The node's report, as the client reads it.
Report == [sevStatus |-> IF Live.measurement # {} THEN "reportDataMatch" ELSE "noSevHost",
           serverStaticPub |-> node.boot, binary |-> Live.binary,
           measurement |-> Live.measurement, chain |-> Live.ark]

pinAcceptsBinary(pin, binary) == binary \in pin.binary \cup pin.transition

pinFailure(pin, att) ==
    CASE pin.measurement # {} /\ pin.measurement # att.measurement -> {"measurement-mismatch"}
      [] pin.binary # {} /\ ~pinAcceptsBinary(pin, att.binary) -> {"binary-mismatch"}
      [] OTHER -> {}

\* The report binds the channel key; with a chain and a root to check it by,
\* it must verify; then the pin.
summariseAttestation(att, pins, ark) ==
    LET matched == att.sevStatus = "reportDataMatch"
        base == IF att.serverStaticPub = 0 THEN "plaintext"
                ELSE IF matched \/ att.sevStatus = "noSevHost" THEN "verified" ELSE "mismatch"
        chained == IF base = "verified" /\ matched /\ att.chain # {} /\ ark # {}
                   THEN IF att.chain = ark THEN "verified-vcek" ELSE "mismatch"
                   ELSE base
        failure == UNION {pinFailure(p, att) : p \in pins}
    IN  CASE pins = {} -> [state |-> chained, pinStatus |-> {"no-pin"}]
          [] chained \notin {"verified", "verified-vcek"} -> [state |-> chained, pinStatus |-> {}]
          [] failure # {} -> [state |-> "mismatch", pinStatus |-> failure]
          [] OTHER -> [state |-> chained, pinStatus |-> {"match"}]

----------------------------------------------------------------------------
(* Operator identity. *)

check_channel_binding(v, channel) == v.channel_pub = channel

check_freshness(v) ==
    /\ v.issued_at <= now + Skew
    /\ MaxAge = 0 \/ now - v.issued_at <= MaxAge

gateOperatorIdentity(v, operator, channel) ==
    IF /\ check_pinned_operator(v, operator)
       /\ check_channel_binding(v, channel)
       /\ check_freshness(v)
    THEN [state |-> "verified", server_id |-> {v.server_id}, operator |-> {v.operator}]
    ELSE [state |-> "unverified", server_id |-> {v.server_id}, operator |-> {v.operator}]

\* A server without an identity says so.
checkOperatorIdentity(operator, channel) ==
    IF announce = {} THEN [state |-> "unconfigured", server_id |-> {}, operator |-> {}]
    ELSE gateOperatorIdentity(CHOOSE v \in announce : TRUE, operator, channel)

----------------------------------------------------------------------------
(* Closing the entry against the live server. *)

\* Mutant: whether the attestation is the entry's is not looked at.
directoryBindingMatches_tierless(e, identity, attestation, info) ==
    /\ identity.state = "verified" => /\ identity.operator = {e.operator}
                                      /\ identity.server_id = {e.server_id}
    /\ identity.state \in {"verified", "unconfigured"}
    /\ info.role = e.hints[1].role
    /\ \A i \in 1..Len(e.hints) :
            resolveAccess(info.credits, e.hints[i].backend).mode = e.hints[i].access

\* directoryBindingMismatchV1 answers null.
directoryBindingMatches(e, identity, attestation, info) ==
    LET tier == e.hints[1].attestation = "sev-snp"
        sevSnp == attestation.state = "verified-vcek" /\ attestation.pinStatus = {"match"}
    IN  /\ IF identity.state = "verified"
           THEN identity.operator = {e.operator} /\ identity.server_id = {e.server_id}
           ELSE identity.state = "unconfigured" /\ tier /\ sevSnp
        /\ sevSnp = tier
        /\ info.role = e.hints[1].role
        /\ \A i \in 1..Len(e.hints) :
                resolveAccess(info.credits, e.hints[i].backend).mode = e.hints[i].access

\* The codec's form, over what a client verified live.
bind_directory_entry_to_live_identity_v1(e, live) ==
    /\ e.status = "active"
    /\ IF live.announce # {}
       THEN live.announce = {<<e.operator, e.server_id>>}
       ELSE live.attestation = "sev-snp" /\ e.hints[1].attestation = "sev-snp"
    /\ \A i \in 1..Len(e.hints) : /\ <<e.hints[i].backend, e.hints[i].access>> \in live.access
                                  /\ e.hints[i].role = live.role
                                  /\ e.hints[i].attestation = live.attestation

\* LiveProviderIdentityV1 of a session; an identity that did not verify has none.
LiveIdentity(s, info) ==
    [announce |-> IF s.identity.state = "verified"
                  THEN {<<CHOOSE o \in s.identity.operator : TRUE,
                          CHOOSE i \in s.identity.server_id : TRUE>>} ELSE {},
     attestation |-> IF s.attestation.state = "verified-vcek" /\ s.attestation.pinStatus = {"match"}
                     THEN "sev-snp" ELSE "none",
     role |-> info.role,
     access |-> {<<b, ReadPolicy(info.credits)[b].mode>> : b \in Backends}]

----------------------------------------------------------------------------
(* The client's steps. *)

NoIdentity == [state |-> "not-checked", server_id |-> {}, operator |-> {}]

\* Pick the entry, connect and attest (attestPair, first half).
Attest ==
    /\ session = {}
    /\ \E e \in entry : LET c == choice(e) IN
         session' = {[entry |-> e, choice |-> c, page |-> page, alive |-> TRUE,
                      channel |-> Report.serverStaticPub,
                      attestation |-> summariseAttestation(Report, c.pin, c.ark),
                      identity |-> NoIdentity, bound |-> {}, agrees |-> TRUE]}
    /\ UNCHANGED <<now, node, page, entry>>

\* A connection that broke leaves the identity in error.
CheckIdentity ==
    /\ \E s \in session :
         /\ s.identity = NoIdentity
         /\ session' = {[s EXCEPT !.identity =
                IF s.alive THEN checkOperatorIdentity(s.choice.operator, s.channel)
                ELSE [state |-> "error", server_id |-> {}, operator |-> {}]]}
    /\ UNCHANGED <<now, node, page, entry>>

\* checkDirectoryBinding, on a connection of its own.
CloseEntry ==
    /\ \E s \in session :
         /\ s.identity # NoIdentity /\ s.bound = {}
         /\ LET matches == directoryBindingMatches(s.entry, s.identity, s.attestation, Info)
                usable == s.identity.state \in {"verified", "unconfigured"}
            IN  session' = {[s EXCEPT
                    !.bound = {matches},
                    !.agrees = (matches <=> (usable /\ bind_directory_entry_to_live_identity_v1(
                                                          s.entry, LiveIdentity(s, Info))))]}
    /\ UNCHANGED <<now, node, page, entry>>

Disconnect == session # {} /\ session' = {} /\ UNCHANGED <<now, node, page, entry>>

----------------------------------------------------------------------------
(* The node and the operator. *)

\* A restart, or a switch of build or settings.
Restart ==
    /\ node.boot < MaxBoots
    /\ \E c \in Configs : node' = Boot(c, node.boot + 1)
    /\ session' = {[s EXCEPT !.alive = FALSE] : s \in session}
    /\ UNCHANGED <<now, page, entry>>

DeployPage ==
    /\ page < Len(BuiltIns)
    /\ page' = page + 1
    /\ UNCHANGED <<now, node, entry, session>>

Tick == now < MaxTime /\ now' = now + 1 /\ UNCHANGED <<node, page, entry, session>>

Next == ListAnnounced \/ ListOwn \/ Attest \/ CheckIdentity \/ CloseEntry \/ Disconnect
            \/ Restart \/ DeployPage \/ Tick

Spec == Init /\ [][Next]_vars

----------------------------------------------------------------------------
(* Properties. *)

\* The browser's check and the codec's are the same check.
BindingsAgree == \A s \in session : s.agrees

\* An entry that was closed against a server whose connection still stands
\* describes that server: its operator and name where it announces them, and
\* for every listed backend its role and access class.  The info document
\* comes over another connection, so a restart in between must not mix two
\* configurations into one answer.
BoundIsLive ==
    \A s \in session : s.bound = {TRUE} /\ s.alive =>
        /\ Live.identity => Live.operator = s.entry.operator /\ Live.server_id = s.entry.server_id
        /\ ~Live.identity => Live.measurement # {}
        /\ \A i \in 1..Len(s.entry.hints) :
              /\ s.entry.hints[i].role = Live.role
              /\ s.entry.hints[i].access = Live.policy[s.entry.hints[i].backend].mode
              /\ s.entry.hints[i].attestation = "sev-snp" => Live.measurement # {}

\* What the publisher's check accepted, the client's accepts, as long as the
\* node runs on: announced nodes that are not among the client's own pins, in
\* their certificate's time, with a clock that is not ahead of the skew.
AnnouncedBinds ==
    \A s \in session :
        (/\ s.bound # {} /\ s.alive /\ s.entry.by = "announced" /\ s.entry.boot = node.boot
         /\ s.choice.trust = "operator-identity" /\ MaxAge = 0
         /\ Live.ahead <= Skew /\ s.identity.state # "unverified") => s.bound = {TRUE}

\* A build switch as the operator does it goes unnoticed: the page accepts
\* both builds before the node moves and drops the old one after.
SwitchUnnoticed ==
    \A s \in session :
        (s.page = 2 /\ s.choice.trust = "pinned-build" /\ Live.measurement = {})
            => s.attestation.pinStatus # {"binary-mismatch"}
=============================================================================
