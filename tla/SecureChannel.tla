---------------------------- MODULE SecureChannel ----------------------------
(***************************************************************************)
(* The encrypted channel inside a connection: pir_channel::Session with    *)
(* its handshake (crates/protocol/channel), the client wrapper and the     *)
(* stand-alone browser bridge, the server's REQ_HANDSHAKE arm and the      *)
(* encrypted-frame branch of its connection loop.                          *)
(*                                                                         *)
(* A session key is the record of what it is derived from.  The wire may   *)
(* lose, repeat, delay and damage frames and mix those of connections; a   *)
(* frame opens only under the key, direction and number it was sealed with.*)
(***************************************************************************)
EXTENDS Naturals, Sequences

CONSTANTS Conns,        \* connections, each with its client
          Bridged,      \* the clients that use WasmStandaloneSecureChannelV1
          MaxSeq,       \* u64::MAX of the sequence counters
          Ephs          \* bound: server ephemeral keys per connection

ChannelAssumption ==
    MaxSeq \in Nat /\ Ephs \in Nat \ {0} /\ Bridged \subseteq Conns

VARIABLES pin,          \* pin[c]: the static key the caller passes
          client,       \* client[c]: "new", "asked", "up" or "failed"
          cKey, sKey,   \* session keys of the two sides
          asks,         \* asks[c]: REQ_HANDSHAKE was sent
          serverEph,    \* serverEph[c]: the ephemeral key of RESP_HANDSHAKE
          ephs,         \* ephs[c]: server ephemeral keys drawn so far
          cSend, cRecv, \* the client's next_send_seq and next_recv_seq
          sSend, sRecv, \* the server's
          frames,       \* sealed frames that were on the wire
          sealed,         \* sealed[s][c]: seal calls of side s, numbers bodies
          got,          \* got[s][c]: frames side s opened, in order
          burnt         \* burnt[s][c]: numbers that side s spent on a failure

channelVars == <<pin, client, cKey, sKey, asks, serverEph, ephs, cSend, cRecv, sSend, sRecv,
          frames, sealed, got, burnt>>

Sides == {"client", "server"}
NoKey == [pin |-> "none", conn |-> "none", eph |-> 0]
NoEph == 0

\* HKDF over both Diffie-Hellman results: the static key the client trusts,
\* the client's ephemeral key and the server's.
derive_from_dh(static, c, eph) == [pin |-> static, conn |-> c, eph |-> eph]

\* ClientHandshake and ServerHandshake: each side knows its own share, the
\* other's as received, and the static key it trusts or owns.
ClientKey(c) == derive_from_dh(pin[c], c, serverEph[c])
ServerKey(c, eph) == derive_from_dh("server", c, eph)

SessionKeys == [pin : {"server", "other", "zero"}, conn : Conns, eph : 1..Ephs]
Frames == [key : SessionKeys \cup {NoKey}, dir : Sides, seq : 0..MaxSeq, body : Nat]

ChannelInit ==
    /\ pin \in [Conns -> {"server", "other", "zero"}]
    /\ client = [c \in Conns |-> "new"]
    /\ cKey = [c \in Conns |-> NoKey] /\ sKey = [c \in Conns |-> NoKey]
    /\ asks = [c \in Conns |-> FALSE] /\ serverEph = [c \in Conns |-> NoEph]
    /\ ephs = [c \in Conns |-> 0]
    /\ cSend = [c \in Conns |-> 0] /\ cRecv = [c \in Conns |-> 0]
    /\ sSend = [c \in Conns |-> 0] /\ sRecv = [c \in Conns |-> 0]
    /\ frames = {}
    /\ sealed = [s \in Sides |-> [c \in Conns |-> 0]]
    /\ got = [s \in Sides |-> [c \in Conns |-> <<>>]]
    /\ burnt = [s \in Sides |-> [c \in Conns |-> {}]]

-----------------------------------------------------------------------------
(* Handshake.                                                              *)

establish(c) ==
    /\ client[c] = "new"
    /\ client' = [client EXCEPT ![c] = "asked"] /\ asks' = [asks EXCEPT ![c] = TRUE]
    /\ UNCHANGED <<pin, cKey, sKey, serverEph, ephs, cSend, cRecv, sSend, sRecv, frames, sealed, got, burnt>>

\* The reply goes out in the clear and only then is the session installed; a
\* second request, whoever sent it, is refused with a sealed error.
ServerHandshake(c) ==
    /\ asks[c] /\ sKey[c] = NoKey /\ ephs[c] < Ephs
    /\ ephs' = [ephs EXCEPT ![c] = @ + 1]
    /\ sKey' = [sKey EXCEPT ![c] = ServerKey(c, ephs[c] + 1)]
    /\ serverEph' = [serverEph EXCEPT ![c] = ephs[c] + 1]
    /\ UNCHANGED <<pin, client, cKey, asks, cSend, cRecv, sSend, sRecv, frames, sealed, got, burnt>>

\* The answer could not be sent: the handshake is forgotten.
HandshakeSendFails(c) ==
    /\ asks[c] /\ sKey[c] = NoKey /\ ephs[c] < Ephs
    /\ ephs' = [ephs EXCEPT ![c] = @ + 1]
    /\ UNCHANGED <<pin, client, cKey, sKey, asks, serverEph, cSend, cRecv, sSend, sRecv, frames, sealed, got, burnt>>

\* The client's end of the handshake; the bridge refuses an all-zero key.
complete_handshake(c) ==
    /\ client[c] = "asked" /\ serverEph[c] # NoEph
    /\ c \in Bridged => pin[c] # "zero"
    /\ client' = [client EXCEPT ![c] = "up"]
    /\ cKey' = [cKey EXCEPT ![c] = ClientKey(c)]
    /\ UNCHANGED <<pin, sKey, asks, serverEph, ephs, cSend, cRecv, sSend, sRecv, frames, sealed, got, burnt>>

\* An error reply, a foreign opcode, a timeout: establish fails for good.
EstablishFails(c) ==
    /\ client[c] = "asked"
    /\ client' = [client EXCEPT ![c] = "failed"]
    /\ UNCHANGED <<pin, cKey, sKey, asks, serverEph, ephs, cSend, cRecv, sSend, sRecv, frames, sealed, got, burnt>>

-----------------------------------------------------------------------------
(* Frames.                                                                 *)

\* checked_add: the last number is never used.
Exhausted(seq) == seq = MaxSeq

Frame(key, dir, seq, body) == [key |-> key, dir |-> dir, seq |-> seq, body |-> body]

\* A counter after its next number.
Succ(seq) == (seq + 1) % (MaxSeq + 1)

SealOutgoing(c) ==
    /\ client[c] = "up"
    /\ sealed' = [sealed EXCEPT !["client"][c] = @ + 1]
    /\ IF Exhausted(cSend[c])
         THEN UNCHANGED <<cSend, frames>>
         ELSE /\ cSend' = [cSend EXCEPT ![c] = Succ(@)]
              /\ frames' = frames \cup {Frame(cKey[c], "client", cSend[c], sealed["client"][c])}
    /\ UNCHANGED <<pin, client, cKey, sKey, asks, serverEph, ephs, cRecv, sSend, sRecv, got, burnt>>

\* send_resp: with a session every reply is sealed, whether the request was
\* encrypted or not.
SealReply(c) ==
    /\ sKey[c] # NoKey
    /\ sealed' = [sealed EXCEPT !["server"][c] = @ + 1]
    /\ IF Exhausted(sSend[c])
         THEN UNCHANGED <<sSend, frames>>
         ELSE /\ sSend' = [sSend EXCEPT ![c] = Succ(@)]
              /\ frames' = frames \cup {Frame(sKey[c], "server", sSend[c], sealed["server"][c])}
    /\ UNCHANGED <<pin, client, cKey, sKey, asks, serverEph, ephs, cSend, cRecv, sRecv, got, burnt>>

\* The number is compared before anything else.
InOrder(seq, next) == seq = next

\* Mutant of Authentic: one key seals both directions.
AuthenticEitherWay(f, key, dir) == f.key = key

\* nonce_for and the AEAD: the tag is right for this key and nonce only.
Authentic(f, key, dir) == f.key = key /\ f.dir = dir

\* A frame on the wire, or a damaged one with any number.
OnWire == frames \cup {Frame(NoKey, "client", seq, 0) : seq \in 0..MaxSeq}

\* The plaintext, or the error the caller sees.
Outcome(s, c, f, ok) ==
    IF ok THEN got' = [got EXCEPT ![s][c] = Append(@, f)] /\ UNCHANGED burnt
          ELSE burnt' = [burnt EXCEPT ![s][c] = @ \cup {f.seq}] /\ UNCHANGED got

\* Session::open at the client.  The number is spent before the tag is
\* checked; a frame out of order changes nothing.
OpenIncoming(c) ==
    \E f \in OnWire :
        /\ client[c] = "up" /\ InOrder(f.seq, cRecv[c]) /\ ~Exhausted(cRecv[c])
        /\ cRecv' = [cRecv EXCEPT ![c] = Succ(@)]
        /\ Outcome("client", c, f, Authentic(f, cKey[c], "server"))
        /\ UNCHANGED <<pin, client, cKey, sKey, asks, serverEph, ephs, cSend, sSend, sRecv, frames, sealed>>

\* The server's loop: a frame that fails to open is answered with an error and
\* the loop goes on.
OpenRequest(c) ==
    \E f \in OnWire :
        /\ sKey[c] # NoKey /\ InOrder(f.seq, sRecv[c]) /\ ~Exhausted(sRecv[c])
        /\ sRecv' = [sRecv EXCEPT ![c] = Succ(@)]
        /\ Outcome("server", c, f, Authentic(f, sKey[c], "client"))
        /\ UNCHANGED <<pin, client, cKey, sKey, asks, serverEph, ephs, cSend, cRecv, sSend, frames, sealed>>

ChannelNext ==
    \E c \in Conns :
        \/ establish(c) \/ ServerHandshake(c) \/ HandshakeSendFails(c)
        \/ complete_handshake(c) \/ EstablishFails(c)
        \/ SealOutgoing(c) /\ sealed["client"][c] <= MaxSeq + 1
        \/ SealReply(c) /\ sealed["server"][c] <= MaxSeq + 1
        \/ OpenIncoming(c) \/ OpenRequest(c)

ChannelSpec == ChannelInit /\ [][ChannelNext]_channelVars

-----------------------------------------------------------------------------
Side(c, s) == IF s = "client" THEN cKey[c] ELSE sKey[c]
RecvSeq(c, s) == IF s = "client" THEN cRecv[c] ELSE sRecv[c]
Peer(s) == IF s = "client" THEN "server" ELSE "client"

ChannelTypeOK ==
    /\ client \in [Conns -> {"new", "asked", "up", "failed"}]
    /\ cKey \in [Conns -> SessionKeys \cup {NoKey}] /\ sKey \in [Conns -> SessionKeys \cup {NoKey}]
    /\ cSend \in [Conns -> 0..MaxSeq] /\ cRecv \in [Conns -> 0..MaxSeq]
    /\ sSend \in [Conns -> 0..MaxSeq] /\ sRecv \in [Conns -> 0..MaxSeq]
    /\ serverEph \in [Conns -> 0..Ephs] /\ ephs \in [Conns -> 0..Ephs]
    /\ frames \subseteq Frames

\* No two frames are sealed under one key and nonce: the counters of
\* Session::seal never repeat, not even when they are exhausted, and two
\* sessions never share a key.
NonceUsedOnce ==
    \A f, g \in frames : f.key = g.key /\ f.dir = g.dir /\ f.seq = g.seq => f.body = g.body

\* Once the client's session is up on the attested key, the server's session
\* on that connection has the same key, however often REQ_HANDSHAKE arrives.
KeysAgree ==
    \A c \in Conns : client[c] = "up" /\ pin[c] = "server" => sKey[c] = cKey[c]

\* What Session::open returns was sealed by the other side of this session,
\* and comes out in the order of sealing and at most once, whatever the wire
\* repeats, reorders or mixes in.
OpenedInOrder ==
    \A s \in Sides, c \in Conns :
        LET g == got[s][c] IN
        /\ \A i \in 1..Len(g) : g[i].key = Side(c, s) /\ g[i].dir = Peer(s) /\ g[i] \in frames
        /\ \A i \in 1..Len(g), j \in 1..Len(g) : i < j => g[i].seq < g[j].seq /\ g[i].body < g[j].body

\* Every number below next_recv_seq was either delivered or ended in an error
\* the caller saw: a message is never skipped silently.
SkipsAreErrors ==
    \A s \in Sides, c \in Conns :
        {n \in 0..MaxSeq : n < RecvSeq(c, s)} =
            burnt[s][c] \cup {got[s][c][i].seq : i \in 1..Len(got[s][c])}

\* The promise of a session over a wire that loses, repeats, reorders, mixes
\* and damages frames: no nonce is used twice, both ends hold one key, what is
\* opened comes from the other end in order and once, and nothing is skipped
\* without an error.
ChannelSafe == ChannelTypeOK /\ NonceUsedOnce /\ KeysAgree /\ OpenedInOrder /\ SkipsAreErrors
=============================================================================
