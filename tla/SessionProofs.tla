---------------------------- MODULE SessionProofs ----------------------------
(***************************************************************************)
(* What a connection's session promises: the frames sealed in it, for any  *)
(* number of connections and handshakes and any range of the counters, and *)
(* the tokens redeemed on it, for any number of connections and tokens and *)
(* however the exchanges with the issuer are lost, repeated or delayed.    *)
(***************************************************************************)
EXTENDS SecureChannel, Redemption, TLAPS

-----------------------------------------------------------------------------
(* The promise of a session, for any number of connections, any range of   *)
(* the sequence counters and any number of handshakes.                     *)

\* The provers, in the order a leaf that names none tries them.
USE SMTT(60), ZenonT(60)

SendSeq(c, s) == IF s = "client" THEN cSend[c] ELSE sSend[c]

Pins == {"server", "other", "zero"}

Types ==
    /\ ChannelTypeOK
    /\ pin \in [Conns -> Pins]
    /\ sealed \in [Sides -> [Conns -> Nat]]
    /\ got \in [Sides -> [Conns -> Seq(Frames)]]
    /\ burnt \in [Sides -> [Conns -> SUBSET (0..MaxSeq)]]

\* Each side's key is what it was derived from, and the server has one as soon
\* as there is an answer for the client to complete.
KeyInv ==
    \A c \in Conns :
        /\ client[c] = "up" <=> cKey[c] # NoKey
        /\ cKey[c] # NoKey => serverEph[c] # NoEph /\ cKey[c] = ClientKey(c)
        /\ sKey[c] # NoKey <=> serverEph[c] # NoEph
        /\ sKey[c] # NoKey => sKey[c] = ServerKey(c, serverEph[c])

\* A frame was sealed by a side under the key it still has, before the
\* counters of that side.
SealedBy(f, c) ==
    /\ f.key # NoKey /\ f.key = Side(c, f.dir)
    /\ f.seq < SendSeq(c, f.dir) /\ f.body < sealed[f.dir][c]

FrameInv == \A f \in frames : \E c \in Conns : SealedBy(f, c)

\* The frames of one side and key are numbered in the order of sealing.
OrderInv ==
    \A f, g \in frames :
        f.key = g.key /\ f.dir = g.dir =>
            /\ f.seq = g.seq => f.body = g.body
            /\ f.seq < g.seq => f.body < g.body

\* What a side opened was sealed by the other, and before its own counter.
GotInv ==
    \A s \in Sides, c \in Conns :
        LET g == got[s][c] IN
        /\ Side(c, s) = NoKey => g = <<>>
        /\ \A i \in 1..Len(g) : /\ g[i].key = Side(c, s) /\ g[i].dir = Peer(s)
                                /\ g[i] \in frames /\ g[i].seq < RecvSeq(c, s)
        /\ \A i, j \in 1..Len(g) : i < j => g[i].seq < g[j].seq

WireInv == FrameInv /\ OrderInv /\ GotInv /\ SkipsAreErrors

ChannelInv == Types /\ KeyInv /\ WireInv

-----------------------------------------------------------------------------
(* Keys.                                                                   *)

LEMMA KeyFacts ==
    /\ \A p \in Pins : \A c, e : derive_from_dh(p, c, e) # NoKey
    /\ \A p, q, c, d, e, f : derive_from_dh(p, c, e) = derive_from_dh(q, d, f) => c = d
    /\ \A p \in Pins, c \in Conns, e \in 1..Ephs : derive_from_dh(p, c, e) \in SessionKeys
BY DEF derive_from_dh, NoKey, Pins, SessionKeys

\* No two connections have the same key on one side.
LEMMA KeyIsOwn ==
    ASSUME Types, KeyInv, NEW s \in Sides, NEW c \in Conns, NEW d \in Conns,
           Side(c, s) = Side(d, s), Side(c, s) # NoKey
    PROVE  c = d
BY KeyFacts DEF KeyInv, Side, ClientKey, ServerKey

\* A key on one side is installed once, while its counters are untouched.
LEMMA InstalledKeeps ==
    ASSUME WireInv, NEW s \in Sides, NEW c \in Conns, Side(c, s) = NoKey,
           \A t \in Sides, d \in Conns : <<t, d>> # <<s, c>> => Side(d, t)' = Side(d, t),
           UNCHANGED <<cSend, cRecv, sSend, sRecv, frames, sealed, got, burnt>>,
           frames \subseteq Frames
    PROVE  WireInv'
<1>1. FrameInv'
  <2> SUFFICES ASSUME NEW f \in frames
               PROVE  \E d \in Conns : SealedBy(f, d)'
    BY DEF FrameInv
  <2>1. PICK d \in Conns : SealedBy(f, d)
    BY DEF WireInv, FrameInv
  <2>2. <<f.dir, d>> # <<s, c>> /\ f.dir \in Sides
    BY <2>1 DEF SealedBy, Frames
  <2>3. Side(d, f.dir)' = Side(d, f.dir) /\ SendSeq(d, f.dir)' = SendSeq(d, f.dir)
    BY <2>2 DEF SendSeq
  <2> QED
    BY <2>1, <2>3 DEF SealedBy
<1>2. OrderInv'
  BY DEF WireInv, OrderInv
<1>3. GotInv'
  <2> SUFFICES ASSUME NEW t \in Sides, NEW d \in Conns
               PROVE  LET g == got[t][d] IN
                      /\ Side(d, t)' = NoKey => g = <<>>
                      /\ \A i \in 1..Len(g) : /\ g[i].key = Side(d, t)' /\ g[i].dir = Peer(t)
                                              /\ g[i] \in frames /\ g[i].seq < RecvSeq(d, t)
                      /\ \A i, j \in 1..Len(g) : i < j => g[i].seq < g[j].seq
    BY DEF GotInv, RecvSeq
  <2>1. CASE <<t, d>> = <<s, c>>
    <3>1. got[t][d] = <<>>
      BY <2>1 DEF WireInv, GotInv
    <3> QED
      BY <3>1
  <2>2. CASE <<t, d>> # <<s, c>>
    BY <2>2 DEF WireInv, GotInv
  <2> QED
    BY <2>1, <2>2
<1>4. SkipsAreErrors'
  BY DEF WireInv, SkipsAreErrors, RecvSeq
<1> QED
  BY <1>1, <1>2, <1>3, <1>4 DEF WireInv

\* Steps that touch neither keys nor frames.
LEMMA WireKept ==
    ASSUME WireInv,
           UNCHANGED <<cKey, sKey, cSend, cRecv, sSend, sRecv, frames, sealed, got, burnt>>
    PROVE  WireInv'
<1>1. FrameInv'
  BY Zenon DEF WireInv, FrameInv, SealedBy, Side, SendSeq
<1>2. OrderInv'
  BY Zenon DEF WireInv, OrderInv
<1>3. GotInv'
  <2>1. \A t \in Sides, d \in Conns : Side(d, t)' = Side(d, t) /\ RecvSeq(d, t)' = RecvSeq(d, t)
    BY DEF Side, RecvSeq
  <2> QED
    BY <2>1 DEF WireInv, GotInv
<1>4. SkipsAreErrors'
  BY DEF WireInv, SkipsAreErrors, RecvSeq
<1> QED
  BY <1>1, <1>2, <1>3, <1>4 DEF WireInv

\* The steps of a handshake that install no key.
LEMMA QuietKeeps ==
    ASSUME ChannelAssumption, ChannelInv, NEW c \in Conns,
           establish(c) \/ HandshakeSendFails(c) \/ EstablishFails(c)
    PROVE  ChannelInv'
<1>1. /\ UNCHANGED <<pin, cKey, sKey, serverEph, cSend, cRecv, sSend, sRecv, frames, sealed, got, burnt>>
      /\ ephs' \in [Conns -> 0..Ephs] /\ client' \in [Conns -> {"new", "asked", "up", "failed"}]
      /\ \A d \in Conns : client'[d] = "up" <=> client[d] = "up"
  <2>0. /\ client \in [Conns -> {"new", "asked", "up", "failed"}]
        /\ ephs \in [Conns -> 0..Ephs] /\ Ephs \in Nat
    BY DEF ChannelInv, Types, ChannelTypeOK, ChannelAssumption
  <2>1. CASE establish(c)
    BY <2>0, <2>1 DEF establish
  <2>2. CASE HandshakeSendFails(c)
    BY <2>0, <2>2 DEF HandshakeSendFails
  <2>3. CASE EstablishFails(c)
    BY <2>0, <2>3 DEF EstablishFails
  <2> QED
    BY <2>1, <2>2, <2>3
<1>2. Types'
  BY <1>1, ZenonT(60) DEF ChannelInv, Types, ChannelTypeOK
<1>3. KeyInv'
  BY <1>1 DEF ChannelInv, KeyInv, ClientKey, ServerKey
<1>4. WireInv'
  BY <1>1, WireKept DEF ChannelInv
<1> QED
  BY <1>2, <1>3, <1>4 DEF ChannelInv

LEMMA ServerHandshakeKeeps ==
    ASSUME ChannelAssumption, ChannelInv, NEW c \in Conns, ServerHandshake(c)
    PROVE  ChannelInv'
<1> DEFINE e == ephs[c] + 1
<1>1. /\ sKey[c] = NoKey /\ e \in 1..Ephs /\ e # NoEph
      /\ ephs' = [ephs EXCEPT ![c] = e] /\ serverEph' = [serverEph EXCEPT ![c] = e]
      /\ sKey' = [sKey EXCEPT ![c] = ServerKey(c, e)]
      /\ UNCHANGED <<pin, client, cKey, asks, cSend, cRecv, sSend, sRecv, frames, sealed, got, burnt>>
  BY DEF ServerHandshake, ChannelInv, Types, ChannelTypeOK, ChannelAssumption, NoEph
<1> HIDE DEF e
<1>2. ServerKey(c, e) \in SessionKeys /\ ServerKey(c, e) # NoKey
  BY <1>1, KeyFacts DEF ServerKey, Pins
<1>3. Types'
  BY <1>1, <1>2 DEF ChannelInv, Types, ChannelTypeOK
<1>4. KeyInv'
  <2> SUFFICES ASSUME NEW d \in Conns
               PROVE  /\ (client[d] = "up" <=> cKey[d] # NoKey)'
                      /\ (cKey[d] # NoKey => serverEph[d] # NoEph /\ cKey[d] = ClientKey(d))'
                      /\ (sKey[d] # NoKey <=> serverEph[d] # NoEph)'
                      /\ (sKey[d] # NoKey => sKey[d] = ServerKey(d, serverEph[d]))'
    BY DEF KeyInv
  <2>1. CASE d = c
    <3>1. cKey[d] = NoKey
      BY <1>1, <2>1 DEF ChannelInv, KeyInv
    <3>2. sKey'[d] = ServerKey(d, e) /\ serverEph'[d] = e /\ client' = client /\ cKey' = cKey
      BY <1>1, <2>1 DEF ChannelInv, Types, ChannelTypeOK
    <3> QED
      BY <1>1, <1>2, <2>1, <3>1, <3>2 DEF ChannelInv, KeyInv, ServerKey
  <2>2. CASE d # c
    <3>1. sKey'[d] = sKey[d] /\ serverEph'[d] = serverEph[d] /\ client' = client /\ cKey' = cKey /\ pin' = pin
      BY <1>1, <2>2 DEF ChannelInv, Types, ChannelTypeOK
    <3> QED
      BY <3>1 DEF ChannelInv, KeyInv, ServerKey, ClientKey
  <2> QED
    BY <2>1, <2>2
<1>5. WireInv'
  <2>1. Side(c, "server") = NoKey
    BY <1>1 DEF Side
  <2>2. \A t \in Sides, d \in Conns : <<t, d>> # <<"server", c>> => Side(d, t)' = Side(d, t)
    BY <1>1 DEF Side, Sides, ChannelInv, Types, ChannelTypeOK
  <2>3. frames \subseteq Frames /\ WireInv /\ "server" \in Sides
    BY DEF ChannelInv, Types, ChannelTypeOK, Sides
  <2> QED
    BY <1>1, <2>1, <2>2, <2>3, InstalledKeeps
<1> QED
  BY <1>3, <1>4, <1>5 DEF ChannelInv

LEMMA CompleteKeeps ==
    ASSUME ChannelAssumption, ChannelInv, NEW c \in Conns, complete_handshake(c)
    PROVE  ChannelInv'
<1>1. /\ cKey[c] = NoKey /\ serverEph[c] # NoEph /\ client' = [client EXCEPT ![c] = "up"]
      /\ cKey' = [cKey EXCEPT ![c] = ClientKey(c)]
      /\ UNCHANGED <<pin, sKey, asks, serverEph, ephs, cSend, cRecv, sSend, sRecv, frames, sealed, got, burnt>>
  BY DEF complete_handshake, ChannelInv, KeyInv
<1>2. ClientKey(c) \in SessionKeys /\ ClientKey(c) # NoKey
  <2>1. pin[c] \in Pins /\ serverEph[c] \in 1..Ephs
    BY <1>1 DEF ChannelInv, Types, ChannelTypeOK, NoEph, ChannelAssumption
  <2> QED
    BY <2>1, KeyFacts DEF ClientKey
<1>3. Types'
  BY <1>1, <1>2, ZenonT(60) DEF ChannelInv, Types, ChannelTypeOK
<1>4. KeyInv'
  <2> SUFFICES ASSUME NEW d \in Conns
               PROVE  /\ (client[d] = "up" <=> cKey[d] # NoKey)'
                      /\ (cKey[d] # NoKey => serverEph[d] # NoEph /\ cKey[d] = ClientKey(d))'
                      /\ (sKey[d] # NoKey <=> serverEph[d] # NoEph)'
                      /\ (sKey[d] # NoKey => sKey[d] = ServerKey(d, serverEph[d]))'
    BY DEF KeyInv
  <2>1. CASE d = c
    <3>1. client'[d] = "up" /\ cKey'[d] = ClientKey(c) /\ ClientKey(d)' = ClientKey(d)
      BY <1>1, <2>1 DEF ChannelInv, Types, ChannelTypeOK, ClientKey
    <3> QED
      BY <1>1, <1>2, <2>1, <3>1 DEF ChannelInv, KeyInv, ServerKey
  <2>2. CASE d # c
    <3>1. client'[d] = client[d] /\ cKey'[d] = cKey[d] /\ ClientKey(d)' = ClientKey(d)
      BY <1>1, <2>2 DEF ChannelInv, Types, ChannelTypeOK, ClientKey
    <3> QED
      BY <1>1, <3>1 DEF ChannelInv, KeyInv, ServerKey
  <2> QED
    BY <2>1, <2>2
<1>5. WireInv'
  <2>1. Side(c, "client") = NoKey
    BY <1>1 DEF Side
  <2>2. \A t \in Sides, d \in Conns : <<t, d>> # <<"client", c>> => Side(d, t)' = Side(d, t)
    BY <1>1 DEF Side, Sides, ChannelInv, Types, ChannelTypeOK
  <2>3. frames \subseteq Frames /\ WireInv /\ "client" \in Sides
    BY DEF ChannelInv, Types, ChannelTypeOK, Sides
  <2> QED
    BY <1>1, <2>1, <2>2, <2>3, InstalledKeeps
<1> QED
  BY <1>3, <1>4, <1>5 DEF ChannelInv

-----------------------------------------------------------------------------
(* Sealing.                                                                *)

\* The counter does not wrap: checked_add refuses the last number.
LEMMA SuccFact ==
    ASSUME ChannelAssumption, NEW n \in Nat, n < MaxSeq
    PROVE  Succ(n) = n + 1
<1>1. MaxSeq \in Nat
  BY DEF ChannelAssumption
<1> QED
  BY <1>1 DEF Succ

\* A number is used once: sealing takes the counter's and moves it on.
LEMMA SealedKeeps ==
    ASSUME ChannelAssumption, Types, KeyInv, WireInv, NEW s \in Sides, NEW c \in Conns,
           NEW f, f = Frame(Side(c, s), s, SendSeq(c, s), sealed[s][c]),
           Side(c, s) # NoKey, SendSeq(c, s) # MaxSeq,
           \A t \in Sides, d \in Conns :
               /\ Side(d, t)' = Side(d, t)
               /\ SendSeq(d, t)' = IF t = s /\ d = c THEN Succ(SendSeq(d, t)) ELSE SendSeq(d, t)
               /\ sealed'[t][d] = IF t = s /\ d = c THEN sealed[t][d] + 1 ELSE sealed[t][d],
           frames' = frames \cup {f},
           UNCHANGED <<cRecv, sRecv, got, burnt>>
    PROVE  f \in Frames /\ WireInv'
<1>0. /\ SendSeq(c, s) \in Nat /\ SendSeq(c, s) < MaxSeq /\ sealed[s][c] \in Nat
      /\ Succ(SendSeq(c, s)) = SendSeq(c, s) + 1
      /\ Side(c, s) \in SessionKeys
  <2>1. /\ SendSeq(c, s) \in 0..MaxSeq /\ MaxSeq \in Nat /\ sealed[s][c] \in Nat
        /\ Side(c, s) \in SessionKeys \cup {NoKey}
    BY DEF Types, ChannelTypeOK, SendSeq, ChannelAssumption, Side
  <2>2. SendSeq(c, s) \in Nat /\ SendSeq(c, s) < MaxSeq
    BY <2>1
  <2> QED
    BY <2>1, <2>2, SuccFact
<1>1. f \in Frames /\ f.key = Side(c, s) /\ f.dir = s /\ f.seq = SendSeq(c, s) /\ f.body = sealed[s][c]
  BY <1>0 DEF Frame, Frames, ChannelAssumption
<1>2. \A g \in frames : g \in Frames /\ g.dir \in Sides /\ g.seq \in Nat /\ g.body \in Nat
  BY DEF Types, ChannelTypeOK, Frames, ChannelAssumption
<1>3. FrameInv'
  <2>1. SealedBy(f, c)'
    BY <1>0, <1>1 DEF SealedBy
  <2>2. ASSUME NEW g \in frames
        PROVE  \E d \in Conns : SealedBy(g, d)'
    <3>1. PICK d \in Conns : SealedBy(g, d)
      BY DEF WireInv, FrameInv
    <3>2. /\ Side(d, g.dir)' = Side(d, g.dir) /\ g.seq < SendSeq(d, g.dir)' /\ g.body < sealed'[g.dir][d]
      BY <1>0, <1>2, <3>1 DEF SealedBy
    <3> QED
      BY <3>1, <3>2 DEF SealedBy
  <2> QED
    BY <2>1, <2>2 DEF FrameInv
<1>4. \A g \in frames : g.key = f.key /\ g.dir = f.dir => g.seq < f.seq /\ g.body < f.body
  <2> SUFFICES ASSUME NEW g \in frames, g.key = f.key, g.dir = f.dir
               PROVE  g.seq < f.seq /\ g.body < f.body
    OBVIOUS
  <2>1. PICK d \in Conns : SealedBy(g, d)
    BY DEF WireInv, FrameInv
  <2>2. d = c
    BY <1>1, <2>1, KeyIsOwn DEF SealedBy
  <2> QED
    BY <1>1, <2>1, <2>2 DEF SealedBy
<1>5. OrderInv'
  <2> SUFFICES ASSUME NEW g \in frames', NEW h \in frames', g.key = h.key, g.dir = h.dir
               PROVE  /\ g.seq = h.seq => g.body = h.body
                      /\ g.seq < h.seq => g.body < h.body
    BY DEF OrderInv
  <2>1. CASE g \in frames /\ h \in frames
    BY <2>1 DEF WireInv, OrderInv
  <2>2. CASE g \in frames /\ h = f
    BY <1>0, <1>1, <1>2, <1>4, <2>2
  <2>3. CASE g = f /\ h \in frames
    BY <1>0, <1>1, <1>2, <1>4, <2>3
  <2>4. CASE g = f /\ h = f
    BY <1>0, <1>1, <2>4
  <2> QED
    BY <2>1, <2>2, <2>3, <2>4
<1>6. GotInv'
  <2>1. \A t \in Sides, d \in Conns : Side(d, t)' = Side(d, t) /\ RecvSeq(d, t)' = RecvSeq(d, t)
    BY DEF RecvSeq
  <2>2. GotInv /\ got' = got /\ \A g \in frames : g \in frames'
    BY DEF WireInv
  <2> QED
    BY <2>1, <2>2 DEF GotInv
<1>7. SkipsAreErrors'
  BY DEF WireInv, SkipsAreErrors, RecvSeq
<1> QED
  BY <1>1, <1>3, <1>5, <1>6, <1>7 DEF WireInv

\* An exhausted counter: the call fails and nothing goes on the wire.
LEMMA RefusedKeeps ==
    ASSUME Types, WireInv, sealed' \in [Sides -> [Conns -> Nat]],
           \A t \in Sides, d \in Conns : sealed'[t][d] >= sealed[t][d],
           UNCHANGED <<cKey, sKey, cSend, cRecv, sSend, sRecv, frames, got, burnt>>
    PROVE  WireInv'
<1>1. FrameInv'
  <2> SUFFICES ASSUME NEW f \in frames
               PROVE  \E d \in Conns : SealedBy(f, d)'
    BY DEF FrameInv
  <2>1. PICK d \in Conns : SealedBy(f, d)
    BY DEF WireInv, FrameInv
  <2>2. f.dir \in Sides /\ f.body \in Nat
    BY ZenonT(60) DEF Types, ChannelTypeOK, Frames
  <2>3. f.body < sealed[f.dir][d] /\ sealed'[f.dir][d] >= sealed[f.dir][d]
    BY <2>1, <2>2 DEF SealedBy
  <2>4. sealed[f.dir][d] \in Nat /\ sealed'[f.dir][d] \in Nat
    BY <2>2 DEF Types
  <2>5. f.body < sealed'[f.dir][d]
    BY <2>2, <2>3, <2>4
  <2>6. Side(d, f.dir)' = Side(d, f.dir) /\ SendSeq(d, f.dir)' = SendSeq(d, f.dir)
    BY DEF Side, SendSeq
  <2> QED
    BY <2>1, <2>5, <2>6 DEF SealedBy
<1>2. OrderInv'
  BY DEF WireInv, OrderInv
<1>3. GotInv'
  <2>1. \A t \in Sides, d \in Conns : Side(d, t)' = Side(d, t) /\ RecvSeq(d, t)' = RecvSeq(d, t)
    BY DEF Side, RecvSeq
  <2> QED
    BY <2>1 DEF WireInv, GotInv
<1>4. SkipsAreErrors'
  BY DEF WireInv, SkipsAreErrors, RecvSeq
<1> QED
  BY <1>1, <1>2, <1>3, <1>4 DEF WireInv

LEMMA SealOutgoingKeeps ==
    ASSUME ChannelAssumption, ChannelInv, NEW c \in Conns, SealOutgoing(c)
    PROVE  ChannelInv'
<1> DEFINE f == Frame(Side(c, "client"), "client", SendSeq(c, "client"), sealed["client"][c])
<1>1. /\ Side(c, "client") # NoKey
      /\ sealed' = [sealed EXCEPT !["client"][c] = @ + 1]
      /\ UNCHANGED <<pin, client, cKey, sKey, asks, serverEph, ephs, cRecv, sSend, sRecv, got, burnt>>
      /\ \/ UNCHANGED <<cSend, frames>>
         \/ /\ SendSeq(c, "client") # MaxSeq /\ frames' = frames \cup {f}
            /\ cSend' = [cSend EXCEPT ![c] = Succ(cSend[c])]
  BY DEF SealOutgoing, ChannelInv, KeyInv, Exhausted, Side, SendSeq
<1> HIDE DEF f
<1>2. Types /\ KeyInv /\ WireInv /\ "client" \in Sides
  BY DEF ChannelInv, Sides
<1>3. /\ sealed' \in [Sides -> [Conns -> Nat]]
      /\ \A t \in Sides, d \in Conns :
             sealed'[t][d] = IF t = "client" /\ d = c THEN sealed[t][d] + 1 ELSE sealed[t][d]
  BY <1>1, <1>2 DEF Types
<1>4. KeyInv'
  BY <1>1, <1>2 DEF KeyInv, ClientKey, ServerKey
<1>5. CASE UNCHANGED <<cSend, frames>>
  <2>1. Types'
    BY <1>1, <1>2, <1>3, <1>5, ZenonT(60) DEF Types, ChannelTypeOK
  <2>2. \A t \in Sides, d \in Conns : sealed'[t][d] >= sealed[t][d]
    <3>1. \A t \in Sides, d \in Conns : sealed[t][d] \in Nat
      BY <1>2 DEF Types
    <3> QED
      BY <1>3, <3>1
  <2>3. WireInv'
    BY <1>1, <1>2, <1>3, <1>5, <2>2, RefusedKeeps
  <2> QED
    BY <1>4, <2>1, <2>3 DEF ChannelInv
<1>6. CASE /\ SendSeq(c, "client") # MaxSeq /\ frames' = frames \cup {f}
           /\ cSend' = [cSend EXCEPT ![c] = Succ(cSend[c])]
  <2>1. \A t \in Sides, d \in Conns :
            /\ Side(d, t)' = Side(d, t)
            /\ SendSeq(d, t)' = IF t = "client" /\ d = c THEN Succ(SendSeq(d, t)) ELSE SendSeq(d, t)
    BY <1>1, <1>2, <1>6, Zenon DEF Side, SendSeq, Types, ChannelTypeOK
  <2>2. f \in Frames /\ WireInv'
    BY <1>1, <1>2, <1>3, <1>6, <2>1, SealedKeeps DEF f
  <2>3. cSend' \in [Conns -> 0..MaxSeq]
    <3>1. cSend[c] \in Nat /\ cSend[c] < MaxSeq /\ MaxSeq \in Nat
      BY <1>2, <1>6 DEF Types, ChannelTypeOK, SendSeq, ChannelAssumption
    <3>2. Succ(cSend[c]) \in 0..MaxSeq
      BY <3>1, SuccFact
    <3> QED
      BY <1>2, <1>6, <3>2 DEF Types, ChannelTypeOK
  <2>4. Types'
    BY <1>1, <1>2, <1>3, <1>6, <2>2, <2>3, ZenonT(60) DEF Types, ChannelTypeOK
  <2> QED
    BY <1>4, <2>2, <2>4 DEF ChannelInv
<1> QED
  BY <1>1, <1>5, <1>6

LEMMA SealReplyKeeps ==
    ASSUME ChannelAssumption, ChannelInv, NEW c \in Conns, SealReply(c)
    PROVE  ChannelInv'
<1> DEFINE f == Frame(Side(c, "server"), "server", SendSeq(c, "server"), sealed["server"][c])
<1>1. /\ Side(c, "server") # NoKey
      /\ sealed' = [sealed EXCEPT !["server"][c] = @ + 1]
      /\ UNCHANGED <<pin, client, cKey, sKey, asks, serverEph, ephs, cSend, cRecv, sRecv, got, burnt>>
      /\ \/ UNCHANGED <<sSend, frames>>
         \/ /\ SendSeq(c, "server") # MaxSeq /\ frames' = frames \cup {f}
            /\ sSend' = [sSend EXCEPT ![c] = Succ(sSend[c])]
  BY DEF SealReply, ChannelInv, KeyInv, Exhausted, Side, SendSeq
<1> HIDE DEF f
<1>2. Types /\ KeyInv /\ WireInv /\ "server" \in Sides
  BY DEF ChannelInv, Sides
<1>3. /\ sealed' \in [Sides -> [Conns -> Nat]]
      /\ \A t \in Sides, d \in Conns :
             sealed'[t][d] = IF t = "server" /\ d = c THEN sealed[t][d] + 1 ELSE sealed[t][d]
  BY <1>1, <1>2 DEF Types
<1>4. KeyInv'
  BY <1>1, <1>2 DEF KeyInv, ClientKey, ServerKey
<1>5. CASE UNCHANGED <<sSend, frames>>
  <2>1. Types'
    BY <1>1, <1>2, <1>3, <1>5, ZenonT(60) DEF Types, ChannelTypeOK
  <2>2. \A t \in Sides, d \in Conns : sealed'[t][d] >= sealed[t][d]
    <3>1. \A t \in Sides, d \in Conns : sealed[t][d] \in Nat
      BY <1>2 DEF Types
    <3> QED
      BY <1>3, <3>1
  <2>3. WireInv'
    BY <1>1, <1>2, <1>3, <1>5, <2>2, RefusedKeeps
  <2> QED
    BY <1>4, <2>1, <2>3 DEF ChannelInv
<1>6. CASE /\ SendSeq(c, "server") # MaxSeq /\ frames' = frames \cup {f}
           /\ sSend' = [sSend EXCEPT ![c] = Succ(sSend[c])]
  <2>1. \A t \in Sides, d \in Conns :
            /\ Side(d, t)' = Side(d, t)
            /\ SendSeq(d, t)' = IF t = "server" /\ d = c THEN Succ(SendSeq(d, t)) ELSE SendSeq(d, t)
    BY <1>1, <1>2, <1>6, Zenon DEF Side, SendSeq, Types, ChannelTypeOK, Sides
  <2>2. f \in Frames /\ WireInv'
    BY <1>1, <1>2, <1>3, <1>6, <2>1, SealedKeeps DEF f
  <2>3. sSend' \in [Conns -> 0..MaxSeq]
    <3>1. sSend[c] \in Nat /\ sSend[c] < MaxSeq /\ MaxSeq \in Nat
      BY <1>2, <1>6 DEF Types, ChannelTypeOK, SendSeq, ChannelAssumption
    <3>2. Succ(sSend[c]) \in 0..MaxSeq
      BY <3>1, SuccFact
    <3> QED
      BY <1>2, <1>6, <3>2 DEF Types, ChannelTypeOK
  <2>4. Types'
    BY <1>1, <1>2, <1>3, <1>6, <2>2, <2>3, ZenonT(60) DEF Types, ChannelTypeOK
  <2> QED
    BY <1>4, <2>2, <2>4 DEF ChannelInv
<1> QED
  BY <1>1, <1>5, <1>6

-----------------------------------------------------------------------------
(* Opening.                                                                *)

LEMMA AppendFacts ==
    ASSUME NEW g \in Seq(Frames), NEW f \in Frames
    PROVE  /\ Append(g, f) \in Seq(Frames) /\ Len(g) \in Nat /\ Len(Append(g, f)) = Len(g) + 1
           /\ \A i \in 1..Len(g) : Append(g, f)[i] = g[i]
           /\ Append(g, f)[Len(g) + 1] = f
OBVIOUS

\* A number above all of them keeps the sequence increasing.
LEMMA AppendOrder ==
    ASSUME NEW g \in Seq(Frames), NEW f \in Frames, f.seq \in Nat,
           \A i \in 1..Len(g) : g[i].seq \in Nat /\ g[i].seq < f.seq,
           \A i, j \in 1..Len(g) : i < j => g[i].seq < g[j].seq
    PROVE  \A i, j \in 1..Len(Append(g, f)) : i < j => Append(g, f)[i].seq < Append(g, f)[j].seq
<1> DEFINE a == Append(g, f)
<1> SUFFICES ASSUME NEW i \in 1..Len(a), NEW j \in 1..Len(a), i < j PROVE a[i].seq < a[j].seq
  OBVIOUS
<1>1. /\ Len(g) \in Nat /\ Len(a) = Len(g) + 1
      /\ \A k \in 1..Len(g) : a[k] = g[k]
      /\ a[Len(g) + 1] = f
  BY AppendFacts
<1> HIDE DEF a
<1>2. i \in 1..Len(g) /\ (j \in 1..Len(g) \/ j = Len(g) + 1)
  BY <1>1
<1>3. CASE j \in 1..Len(g)
  BY <1>1, <1>2, <1>3
<1>4. CASE j = Len(g) + 1
  BY <1>1, <1>2, <1>4
<1> QED
  BY <1>2, <1>3, <1>4

LEMMA FrameNumbers ==
    ASSUME Types
    PROVE  \A h \in frames : h.seq \in Nat
BY DEF Types, ChannelTypeOK, Frames

\* Only the number that side s of c expects next changes.
Spends(s, c) ==
    \A t \in Sides, d \in Conns :
        /\ Side(d, t)' = Side(d, t) /\ SendSeq(d, t)' = SendSeq(d, t)
        /\ RecvSeq(d, t)' = IF t = s /\ d = c THEN Succ(RecvSeq(d, t)) ELSE RecvSeq(d, t)

Delivers(s, c, f) == Outcome(s, c, f, Authentic(f, Side(c, s), Peer(s)))

\* A number is spent once, on a frame of the other side or on an error.
LEMMA OpenedKeeps ==
    ASSUME ChannelAssumption, Types, KeyInv, WireInv, NEW s \in Sides, NEW c \in Conns,
           NEW f \in OnWire, Side(c, s) # NoKey, f.seq = RecvSeq(c, s), RecvSeq(c, s) # MaxSeq,
           Spends(s, c), Delivers(s, c, f), UNCHANGED <<frames, sealed>>
    PROVE  /\ got' \in [Sides -> [Conns -> Seq(Frames)]]
           /\ burnt' \in [Sides -> [Conns -> SUBSET (0..MaxSeq)]]
           /\ WireInv'
<1> DEFINE n == RecvSeq(c, s)
           ok == Authentic(f, Side(c, s), Peer(s))
           g == got[s][c]
<1>0. /\ n \in Nat /\ n < MaxSeq /\ MaxSeq \in Nat /\ RecvSeq(c, s)' = n + 1
      /\ \A t \in Sides, d \in Conns : RecvSeq(d, t) \in Nat
  <2>1. MaxSeq \in Nat /\ \A t \in Sides, d \in Conns : RecvSeq(d, t) \in 0..MaxSeq
    BY DEF Types, ChannelTypeOK, RecvSeq, ChannelAssumption
  <2>2. n \in Nat /\ n < MaxSeq
    BY <2>1
  <2> QED
    BY <2>1, <2>2, SuccFact DEF Spends
<1>1. ok => f \in frames
  BY DEF OnWire, Authentic, Frame
<1>2. /\ got \in [Sides -> [Conns -> Seq(Frames)]]
      /\ burnt \in [Sides -> [Conns -> SUBSET (0..MaxSeq)]] /\ frames \subseteq Frames
  BY DEF Types, ChannelTypeOK
<1>3. FrameInv'
  <2> SUFFICES ASSUME NEW h \in frames
               PROVE  \E d \in Conns : SealedBy(h, d)'
    BY DEF FrameInv
  <2>1. PICK d \in Conns : SealedBy(h, d)
    BY DEF WireInv, FrameInv
  <2>2. h.dir \in Sides
    BY <1>2, ZenonT(60) DEF Frames
  <2> QED
    BY <2>1, <2>2 DEF SealedBy, Spends
<1>4. OrderInv'
  BY DEF WireInv, OrderInv, Spends
<1>5. CASE ok
  <2>1. got' = [got EXCEPT ![s][c] = Append(g, f)] /\ burnt' = burnt /\ f \in frames /\ f \in Frames
    BY <1>1, <1>2, <1>5, ZenonT(60) DEF Outcome, Delivers
  <2>2. /\ g \in Seq(Frames) /\ Append(g, f) \in Seq(Frames) /\ Len(g) \in Nat
        /\ Len(Append(g, f)) = Len(g) + 1
        /\ \A i \in 1..Len(g) : Append(g, f)[i] = g[i]
        /\ Append(g, f)[Len(g) + 1] = f
    BY <1>2, <2>1, AppendFacts, ZenonT(60)
  <2>3. got' \in [Sides -> [Conns -> Seq(Frames)]]
    BY <1>2, <2>1, <2>2
  <2>4. /\ got'[s][c] = Append(g, f)
        /\ \A t \in Sides, d \in Conns : ~(t = s /\ d = c) => got'[t][d] = got[t][d]
    BY <1>2, <2>1
  <2> DEFINE a == Append(g, f)
  <2>a. f.key = Side(c, s) /\ f.dir = Peer(s) /\ f.seq = n
    BY <1>5, Zenon DEF Authentic
  <2>b. /\ \A i \in 1..Len(g) : /\ g[i].key = Side(c, s) /\ g[i].dir = Peer(s)
                                /\ g[i] \in frames /\ g[i].seq < n
        /\ \A i, j \in 1..Len(g) : i < j => g[i].seq < g[j].seq
    BY Zenon DEF WireInv, GotInv
  <2>c. \A i \in 1..Len(g) : g[i].seq \in Nat
    BY <2>b, FrameNumbers, ZenonT(60)
  <2> HIDE DEF a, g, n, ok
  <2>5. GotInv'
    <3> SUFFICES ASSUME NEW t \in Sides, NEW d \in Conns
                 PROVE  LET x == got'[t][d] IN
                        /\ Side(d, t)' = NoKey => x = <<>>
                        /\ \A i \in 1..Len(x) : /\ x[i].key = Side(d, t)' /\ x[i].dir = Peer(t)
                                                /\ x[i] \in frames /\ x[i].seq < RecvSeq(d, t)'
                        /\ \A i, j \in 1..Len(x) : i < j => x[i].seq < x[j].seq
      BY DEF GotInv
    <3>1. CASE t = s /\ d = c
      <4>1. \A i \in 1..Len(a) : i \in 1..Len(g) \/ i = Len(g) + 1
        BY <2>2 DEF a
      <4>2. \A i \in 1..Len(a) : /\ a[i].key = Side(c, s) /\ a[i].dir = Peer(s)
                                 /\ a[i] \in frames /\ a[i].seq < n + 1
        BY <1>0, <2>1, <2>2, <2>a, <2>b, <2>c, <4>1 DEF a, n
      <4>3. \A i, j \in 1..Len(a) : i < j => a[i].seq < a[j].seq
        <5>1. /\ g \in Seq(Frames) /\ f \in Frames /\ f.seq \in Nat
              /\ \A i \in 1..Len(g) : g[i].seq \in Nat /\ g[i].seq < f.seq
          BY <1>0, <2>1, <2>2, <2>a, <2>b, <2>c DEF n
        <5> QED
          BY <2>b, <5>1, AppendOrder, Zenon DEF a
      <4> QED
        BY <1>0, <2>4, <3>1, <4>2, <4>3, ZenonT(60) DEF a, n, Spends
    <3>2. CASE ~(t = s /\ d = c)
      <4>1. got'[t][d] = got[t][d] /\ RecvSeq(d, t)' = RecvSeq(d, t) /\ Side(d, t)' = Side(d, t)
        BY <2>4, <3>2, Zenon DEF Spends
      <4>2. GotInv
        BY DEF WireInv
      <4> QED
        BY <4>1, <4>2, ZenonT(60) DEF GotInv
    <3> QED
      BY <3>1, <3>2, ZenonT(60)
  <2>6. SkipsAreErrors'
    <3> SUFFICES ASSUME NEW t \in Sides, NEW d \in Conns
                 PROVE  {m \in 0..MaxSeq : m < RecvSeq(d, t)'} =
                          burnt[t][d] \cup {got'[t][d][i].seq : i \in 1..Len(got'[t][d])}
      BY <2>1, ZenonT(60) DEF SkipsAreErrors
    <3>0. {m \in 0..MaxSeq : m < RecvSeq(d, t)} =
              burnt[t][d] \cup {got[t][d][i].seq : i \in 1..Len(got[t][d])}
      BY DEF WireInv, SkipsAreErrors
    <3>1. CASE t = s /\ d = c
      <4>1. {m \in 0..MaxSeq : m < n + 1} = {m \in 0..MaxSeq : m < n} \cup {n}
        BY <1>0 DEF n
      <4>2. {a[i].seq : i \in 1..Len(a)} = {g[i].seq : i \in 1..Len(g)} \cup {n}
        <5>1. 1..Len(a) = 1..Len(g) \cup {Len(g) + 1}
          BY <2>2 DEF a
        <5>2. \A i \in 1..Len(g) : a[i].seq = g[i].seq
          BY <2>2 DEF a
        <5>3. a[Len(g) + 1].seq = n
          BY <2>2, <2>a DEF a
        <5> QED
          BY <5>1, <5>2, <5>3, ZenonT(60)
      <4>3. RecvSeq(d, t)' = n + 1 /\ RecvSeq(d, t) = n /\ got'[t][d] = a /\ got[t][d] = g
        BY <1>0, <2>4, <3>1 DEF a, n, g
      <4>4. {m \in 0..MaxSeq : m < n} = burnt[t][d] \cup {g[i].seq : i \in 1..Len(g)}
        BY <3>0, <4>3, Zenon
      <4>5. {m \in 0..MaxSeq : m < n + 1} = burnt[t][d] \cup {a[i].seq : i \in 1..Len(a)}
        BY <4>1, <4>2, <4>4, Zenon
      <4> QED
        BY <4>3, <4>5, Zenon
    <3>2. CASE ~(t = s /\ d = c)
      <4>1. got'[t][d] = got[t][d] /\ RecvSeq(d, t)' = RecvSeq(d, t)
        BY <2>4, <3>2, Zenon DEF Spends
      <4> QED
        BY <3>0, <4>1, Zenon
    <3> QED
      BY <3>1, <3>2
  <2> QED
    BY <1>2, <1>3, <1>4, <2>1, <2>3, <2>5, <2>6 DEF WireInv
<1>6. CASE ~ok
  <2>1. burnt' = [burnt EXCEPT ![s][c] = burnt[s][c] \cup {n}] /\ got' = got
    BY <1>6 DEF Outcome, Delivers
  <2>2. n \in 0..MaxSeq
    BY <1>0
  <2> HIDE DEF n, ok, g
  <2>3. burnt' \in [Sides -> [Conns -> SUBSET (0..MaxSeq)]]
    BY <1>2, <2>1, <2>2
  <2>4. \A t \in Sides, d \in Conns :
            burnt'[t][d] = IF t = s /\ d = c THEN burnt[t][d] \cup {n} ELSE burnt[t][d]
    BY <1>2, <2>1, ZenonT(60)
  <2>5. GotInv'
    <3>1. \A t \in Sides, d \in Conns, m \in Nat : m < RecvSeq(d, t) => m < RecvSeq(d, t)'
      BY <1>0 DEF n, Spends
    <3>2. \A h \in frames : h.seq \in Nat
      BY FrameNumbers
    <3> QED
      BY <2>1, <3>1, <3>2 DEF WireInv, GotInv, Spends
  <2>6. SkipsAreErrors'
    <3> SUFFICES ASSUME NEW t \in Sides, NEW d \in Conns
                 PROVE  {m \in 0..MaxSeq : m < RecvSeq(d, t)'} =
                          burnt'[t][d] \cup {got[t][d][i].seq : i \in 1..Len(got[t][d])}
      BY <2>1 DEF SkipsAreErrors
    <3>0. {m \in 0..MaxSeq : m < RecvSeq(d, t)} =
              burnt[t][d] \cup {got[t][d][i].seq : i \in 1..Len(got[t][d])}
      BY DEF WireInv, SkipsAreErrors
    <3>1. CASE t = s /\ d = c
      <4>1. {m \in 0..MaxSeq : m < n + 1} = {m \in 0..MaxSeq : m < n} \cup {n}
        BY <1>0 DEF n
      <4>2. RecvSeq(d, t)' = n + 1 /\ RecvSeq(d, t) = n /\ burnt'[t][d] = burnt[t][d] \cup {n}
        BY <1>0, <2>4, <3>1, Zenon DEF n
      <4>3. {m \in 0..MaxSeq : m < n} = burnt[t][d] \cup {got[t][d][i].seq : i \in 1..Len(got[t][d])}
        BY <3>0, <4>2, Zenon
      <4>4. {m \in 0..MaxSeq : m < n + 1} =
                burnt'[t][d] \cup {got[t][d][i].seq : i \in 1..Len(got[t][d])}
        BY <4>1, <4>2, <4>3, Zenon
      <4> QED
        BY <4>2, <4>4, Zenon
    <3>2. CASE ~(t = s /\ d = c)
      <4>1. burnt'[t][d] = burnt[t][d] /\ RecvSeq(d, t)' = RecvSeq(d, t)
        BY <2>4, <3>2, Zenon DEF Spends
      <4> QED
        BY <3>0, <4>1, Zenon
    <3> QED
      BY <3>1, <3>2
  <2> QED
    BY <1>2, <1>3, <1>4, <2>1, <2>3, <2>5, <2>6 DEF WireInv
<1> QED
  BY <1>5, <1>6, Zenon

LEMMA OpenIncomingKeeps ==
    ASSUME ChannelAssumption, ChannelInv, NEW c \in Conns, OpenIncoming(c)
    PROVE  ChannelInv'
<1>1. PICK f \in OnWire :
          /\ client[c] = "up" /\ f.seq = cRecv[c] /\ cRecv[c] # MaxSeq
          /\ cRecv' = [cRecv EXCEPT ![c] = Succ(cRecv[c])]
          /\ Outcome("client", c, f, Authentic(f, cKey[c], "server"))
          /\ UNCHANGED <<pin, client, cKey, sKey, asks, serverEph, ephs, cSend, sSend, sRecv, frames, sealed>>
  BY Zenon DEF OpenIncoming, InOrder, Exhausted
<1>2. Types /\ KeyInv /\ WireInv /\ "client" \in Sides
  BY ZenonT(60) DEF ChannelInv, Sides
<1>3. /\ Side(c, "client") = cKey[c] /\ cKey[c] # NoKey /\ Peer("client") = "server"
      /\ RecvSeq(c, "client") = cRecv[c]
  BY <1>1, <1>2 DEF Side, Peer, RecvSeq, KeyInv
<1>a. Delivers("client", c, f)
  <2>1. Outcome("client", c, f, Authentic(f, cKey[c], "server"))
    BY <1>1
  <2> QED
    BY <1>3, <2>1, ZenonT(60) DEF Delivers
<1>4. Spends("client", c)
  BY <1>1, <1>2, ZenonT(60) DEF Spends, Side, SendSeq, RecvSeq, Types, ChannelTypeOK
<1>5. /\ got' \in [Sides -> [Conns -> Seq(Frames)]]
      /\ burnt' \in [Sides -> [Conns -> SUBSET (0..MaxSeq)]]
      /\ WireInv'
  <2>1. /\ Side(c, "client") # NoKey /\ f.seq = RecvSeq(c, "client") /\ RecvSeq(c, "client") # MaxSeq
        /\ f \in OnWire /\ UNCHANGED <<frames, sealed>>
    BY <1>1, <1>3
  <2> QED
    BY <1>2, <1>4, <1>a, <2>1, OpenedKeeps, Zenon
<1>6. cRecv' \in [Conns -> 0..MaxSeq]
  <2>1. cRecv[c] \in Nat /\ cRecv[c] < MaxSeq /\ MaxSeq \in Nat
    BY <1>1, <1>2 DEF Types, ChannelTypeOK, ChannelAssumption
  <2>2. Succ(cRecv[c]) \in 0..MaxSeq
    BY <2>1, SuccFact
  <2> QED
    BY <1>1, <1>2, <2>2 DEF Types, ChannelTypeOK
<1>7. Types'
  BY <1>1, <1>2, <1>5, <1>6, ZenonT(60) DEF Types, ChannelTypeOK
<1>8. KeyInv'
  BY <1>1, <1>2, Zenon DEF KeyInv, ClientKey, ServerKey
<1> QED
  BY <1>5, <1>7, <1>8 DEF ChannelInv

LEMMA OpenRequestKeeps ==
    ASSUME ChannelAssumption, ChannelInv, NEW c \in Conns, OpenRequest(c)
    PROVE  ChannelInv'
<1>1. PICK f \in OnWire :
          /\ sKey[c] # NoKey /\ f.seq = sRecv[c] /\ sRecv[c] # MaxSeq
          /\ sRecv' = [sRecv EXCEPT ![c] = Succ(sRecv[c])]
          /\ Outcome("server", c, f, Authentic(f, sKey[c], "client"))
          /\ UNCHANGED <<pin, client, cKey, sKey, asks, serverEph, ephs, cSend, cRecv, sSend, frames, sealed>>
  BY DEF OpenRequest, InOrder, Exhausted
<1>2. Types /\ KeyInv /\ WireInv /\ "server" \in Sides
  BY DEF ChannelInv, Sides
<1>3. /\ Side(c, "server") = sKey[c] /\ Peer("server") = "client"
      /\ RecvSeq(c, "server") = sRecv[c]
  BY DEF Side, Peer, RecvSeq
<1>a. Delivers("server", c, f)
  <2>1. Outcome("server", c, f, Authentic(f, sKey[c], "client"))
    BY <1>1
  <2> QED
    BY <1>3, <2>1, Zenon DEF Delivers
<1>4. Spends("server", c)
  BY <1>1, <1>2, Zenon DEF Spends, Side, SendSeq, RecvSeq, Types, ChannelTypeOK, Sides
<1>5. /\ got' \in [Sides -> [Conns -> Seq(Frames)]]
      /\ burnt' \in [Sides -> [Conns -> SUBSET (0..MaxSeq)]]
      /\ WireInv'
  <2>1. /\ Side(c, "server") # NoKey /\ f.seq = RecvSeq(c, "server") /\ RecvSeq(c, "server") # MaxSeq
        /\ f \in OnWire /\ UNCHANGED <<frames, sealed>>
    BY <1>1, <1>3
  <2> QED
    BY <1>2, <1>4, <1>a, <2>1, OpenedKeeps, Zenon
<1>6. sRecv' \in [Conns -> 0..MaxSeq]
  <2>1. sRecv[c] \in Nat /\ sRecv[c] < MaxSeq /\ MaxSeq \in Nat
    BY <1>1, <1>2 DEF Types, ChannelTypeOK, ChannelAssumption
  <2>2. Succ(sRecv[c]) \in 0..MaxSeq
    BY <2>1, SuccFact
  <2> QED
    BY <1>1, <1>2, <2>2 DEF Types, ChannelTypeOK
<1>7. Types'
  BY <1>1, <1>2, <1>5, <1>6, ZenonT(60) DEF Types, ChannelTypeOK
<1>8. KeyInv'
  BY <1>1, <1>2 DEF KeyInv, ClientKey, ServerKey
<1> QED
  BY <1>5, <1>7, <1>8 DEF ChannelInv

-----------------------------------------------------------------------------
LEMMA InitChannelInv ==
    ASSUME ChannelAssumption, ChannelInit
    PROVE  ChannelInv
<1>1. Types
  <2>1. ChannelTypeOK
    <3>1. 0 \in 0..MaxSeq /\ 0 \in 0..Ephs
      BY DEF ChannelAssumption
    <3>2. client \in [Conns -> {"new", "asked", "up", "failed"}] /\ frames \subseteq Frames
      BY DEF ChannelInit
    <3>3. /\ cKey \in [Conns -> SessionKeys \cup {NoKey}]
          /\ sKey \in [Conns -> SessionKeys \cup {NoKey}]
      BY DEF ChannelInit
    <3>4. /\ cSend \in [Conns -> 0..MaxSeq] /\ cRecv \in [Conns -> 0..MaxSeq]
          /\ sSend \in [Conns -> 0..MaxSeq] /\ sRecv \in [Conns -> 0..MaxSeq]
      BY <3>1 DEF ChannelInit
    <3>5. serverEph \in [Conns -> 0..Ephs] /\ ephs \in [Conns -> 0..Ephs]
      BY <3>1 DEF ChannelInit, NoEph
    <3> QED
      BY <3>2, <3>3, <3>4, <3>5 DEF ChannelTypeOK
  <2>2. pin \in [Conns -> Pins] /\ sealed \in [Sides -> [Conns -> Nat]]
    BY DEF ChannelInit, Pins
  <2>3. got \in [Sides -> [Conns -> Seq(Frames)]]
    BY DEF ChannelInit
  <2>4. burnt \in [Sides -> [Conns -> SUBSET (0..MaxSeq)]]
    BY DEF ChannelInit
  <2> QED
    BY <2>1, <2>2, <2>3, <2>4 DEF Types
<1>2. KeyInv
  BY DEF ChannelInit, KeyInv, NoEph
<1>3. FrameInv /\ OrderInv
  BY DEF ChannelInit, FrameInv, OrderInv
<1>4. \A s \in Sides, c \in Conns : got[s][c] = <<>> /\ burnt[s][c] = {} /\ RecvSeq(c, s) = 0
  BY DEF ChannelInit, RecvSeq
<1>5. GotInv
  BY <1>4 DEF GotInv
<1>6. SkipsAreErrors
  <2> SUFFICES ASSUME NEW s \in Sides, NEW c \in Conns
               PROVE  {n \in 0..MaxSeq : n < RecvSeq(c, s)} =
                        burnt[s][c] \cup {got[s][c][i].seq : i \in 1..Len(got[s][c])}
    BY DEF SkipsAreErrors
  <2>1. {n \in 0..MaxSeq : n < RecvSeq(c, s)} = {}
    BY <1>4
  <2>2. 1..Len(got[s][c]) = {}
    BY <1>4
  <2>3. {got[s][c][i].seq : i \in 1..Len(got[s][c])} = {}
    BY <2>2, Zenon
  <2> QED
    BY <1>4, <2>1, <2>3, Zenon
<1> QED
  BY <1>1, <1>2, <1>3, <1>5, <1>6 DEF ChannelInv, WireInv

\* The invariant gives the promise: bodies come out in order because numbers
\* do and numbers follow the order of sealing.
LEMMA InvChannelSafe ==
    ASSUME ChannelInv
    PROVE  ChannelSafe
<1>1. ChannelTypeOK /\ SkipsAreErrors
  BY DEF ChannelInv, Types, WireInv
<1>2. NonceUsedOnce
  BY DEF ChannelInv, WireInv, OrderInv, NonceUsedOnce
<1>3. KeysAgree
  BY ZenonT(60) DEF ChannelInv, KeyInv, KeysAgree, ClientKey, ServerKey
<1>4. OpenedInOrder
  <2> SUFFICES ASSUME NEW s \in Sides, NEW c \in Conns
               PROVE  LET g == got[s][c] IN
                      /\ \A i \in 1..Len(g) : g[i].key = Side(c, s) /\ g[i].dir = Peer(s) /\ g[i] \in frames
                      /\ \A i \in 1..Len(g), j \in 1..Len(g) : i < j => g[i].seq < g[j].seq /\ g[i].body < g[j].body
    BY ZenonT(60) DEF OpenedInOrder
  <2> DEFINE g == got[s][c]
  <2>1. /\ \A i \in 1..Len(g) : /\ g[i].key = Side(c, s) /\ g[i].dir = Peer(s) /\ g[i] \in frames
        /\ \A i, j \in 1..Len(g) : i < j => g[i].seq < g[j].seq
    BY ZenonT(60) DEF ChannelInv, WireInv, GotInv
  <2> HIDE DEF g
  <2>2. \A i, j \in 1..Len(g) : i < j => g[i].body < g[j].body
    BY <2>1 DEF ChannelInv, WireInv, OrderInv
  <2> QED
    BY <2>1, <2>2, ZenonT(60) DEF g
<1> QED
  BY <1>1, <1>2, <1>3, <1>4 DEF ChannelSafe

\* For any connections, counters and handshakes, and whatever the wire loses,
\* repeats, reorders, mixes or damages: Session::seal uses no nonce twice under
\* a key, client and server agree on the key, Session::open returns what the
\* other end sealed, in order and at most once, and skips nothing silently.
THEOREM ChannelIsSafe == ChannelAssumption /\ ChannelSpec => []ChannelSafe
<1> SUFFICES ASSUME ChannelAssumption
             PROVE  ChannelSpec => []ChannelSafe
  OBVIOUS
<1>1. ChannelInit => ChannelInv
  BY InitChannelInv, ZenonT(60)
<1>2. ChannelInv /\ [ChannelNext]_channelVars => ChannelInv'
  <2> SUFFICES ASSUME ChannelInv, [ChannelNext]_channelVars
               PROVE  ChannelInv'
    OBVIOUS
  <2>1. CASE UNCHANGED channelVars
    <3>1. Types' /\ KeyInv'
      BY <2>1 DEF channelVars, ChannelInv, Types, ChannelTypeOK, KeyInv, ClientKey, ServerKey
    <3>2. WireInv'
      BY <2>1, WireKept DEF channelVars, ChannelInv
    <3> QED
      BY <3>1, <3>2 DEF ChannelInv
  <2>2. ASSUME NEW c \in Conns,
               \/ establish(c) \/ ServerHandshake(c) \/ HandshakeSendFails(c)
               \/ complete_handshake(c) \/ EstablishFails(c)
               \/ SealOutgoing(c) \/ SealReply(c) \/ OpenIncoming(c) \/ OpenRequest(c)
        PROVE  ChannelInv'
    BY <2>2, QuietKeeps, ServerHandshakeKeeps, CompleteKeeps, SealOutgoingKeeps, SealReplyKeeps,
       OpenIncomingKeeps, OpenRequestKeeps
  <2> QED
    BY <2>1, <2>2 DEF ChannelNext
<1>3. ChannelInv => ChannelSafe
  BY InvChannelSafe
<1> QED
  BY <1>1, <1>2, <1>3, PTL DEF ChannelSpec

-----------------------------------------------------------------------------
(* One redemption per token, for any numbers of tokens, connections and    *)
(* nonces.                                                                 *)

\* What counting the grants needs of finite sets. It is a hypothesis of the
\* lemmas that count, and is discharged where the theorem is proved.
CountFacts ==
    /\ IsFiniteSet({}) /\ Cardinality({}) = 0
    /\ \A x : Cardinality({x}) = 1
    /\ \A S, T : IsFiniteSet(S) /\ T \subseteq S => IsFiniteSet(T)
    /\ \A S, x : IsFiniteSet(S) => IsFiniteSet(S \cup {x})
    /\ \A S, x : IsFiniteSet(S) /\ x \notin S => Cardinality(S \cup {x}) = Cardinality(S) + 1

\* Everything that names a nonce and the token it was drawn for.
Mentions == wire \cup swapped \cup (UNION {job[c] : c \in Presenters})

Agree(R) == \A r, s \in R : r.nonce = s.nonce => r.token = s.token

ConnInv ==
    /\ open \subseteq Presenters /\ label \subseteq Presenters
    /\ credits \in [Presenters -> Nat] /\ rejections \in [Presenters -> 0..3]
    /\ \A c \in open : rejections[c] < 3
    /\ job = [c \in Presenters |-> job[c]]
    /\ \A c \in Presenters : job[c] = {} \/ (c \in open /\ \E r : job[c] = {r})

\* A nonce is drawn for one call on one token, by one connection.
NonceInv ==
    /\ nonces \in 0..MaxNonces
    /\ \A m \in Mentions : m.nonce \in 1..nonces /\ m.call = m.nonce
    /\ Agree(Mentions)
    /\ \A c, d \in Presenters : \A r \in job[c], s \in job[d] : r.nonce = s.nonce => c = d

\* A stored success is a swap, a token is swapped once, and a good answer
\* repeats a stored success.
IssuerInv ==
    /\ DOMAIN store = 1..MaxNonces
    /\ \A n \in 1..MaxNonces : store[n] \in {{}, {TRUE}, {FALSE}}
    /\ \A n \in 1..MaxNonces : store[n] = {TRUE} <=> \E s \in swapped : s.nonce = n
    /\ \A s, t \in swapped : s.token = t.token => s = t
    /\ \A p \in replies : p.nonce \in 1..MaxNonces /\ (p.ok => store[p.nonce] = {TRUE})

\* A nonce is granted once, and then no call holds it any more.
GrantInv ==
    /\ \A g \in granted : \E s \in swapped : s.token = g.token /\ s.nonce = g.nonce
    /\ \A g, h \in granted : g.nonce = h.nonce => g = h
    /\ \A g \in granted, c \in Presenters : \A r \in job[c] : g.nonce # r.nonce
    /\ IsFiniteSet(granted)
    /\ \A c \in Presenters : credits[c] = Cardinality({g \in granted : g.conn = c})

RedeemInv == ConnInv /\ NonceInv /\ IssuerInv /\ GrantInv

\* An action that mentions nothing new keeps the nonces apart.
LEMMA OldMentions ==
    ASSUME NonceInv, nonces' = nonces,
           \A m \in Mentions' : \E r \in Mentions : r.nonce = m.nonce /\ r.token = m.token /\ r.call = m.call,
           \A c \in Presenters : \A r \in job'[c] : \E s \in job[c] : r.nonce = s.nonce
    PROVE  NonceInv'
<1>1. \A m \in Mentions' : m.nonce \in 1..nonces' /\ m.call = m.nonce
  BY DEF NonceInv
<1>2. Agree(Mentions')
  BY DEF NonceInv, Agree
<1>3. \A c, d \in Presenters : \A r \in job'[c], s \in job'[d] : r.nonce = s.nonce => c = d
  BY DEF NonceInv
<1>4. Agree(Mentions)'
  BY <1>2 DEF Agree
<1> QED
  BY <1>1, <1>3, <1>4 DEF NonceInv

\* What may be said to the client and counted without touching a redeem call.
LEMMA FailKeeps ==
    ASSUME ConnInv, NEW c \in open, Fail(c), credits' = credits, label' = label,
           job' = [job EXCEPT ![c] = {}]
    PROVE  ConnInv'
<1>1. rejections[c] \in 0..2 /\ c \in Presenters
  BY DEF ConnInv
<1>2. rejections' \in [Presenters -> 0..3]
  BY <1>1 DEF Fail, ConnInv
<1>3. \A d \in Presenters : d # c => rejections'[d] = rejections[d] /\ job'[d] = job[d] /\ (d \in open' <=> d \in open)
  BY DEF Fail, ConnInv
<1>4. job'[c] = {} /\ job' = [d \in Presenters |-> job'[d]] /\ rejections'[c] = rejections[c] + 1 /\ open' \subseteq open
  BY <1>1, Zenon DEF Fail, ConnInv
<1>5. \A d \in open' : rejections'[d] < 3
  <2> SUFFICES ASSUME NEW d \in open'
               PROVE  rejections'[d] < 3
    OBVIOUS
  <2>1. CASE d = c
    BY <1>1, <1>4, <2>1 DEF Fail
  <2>2. CASE d # c
    BY <1>3, <1>4, <2>2 DEF ConnInv
  <2> QED
    BY <2>1, <2>2
<1>6. \A d \in Presenters : job'[d] = {} \/ (d \in open' /\ \E r : job'[d] = {r})
  BY <1>3, <1>4, Zenon DEF ConnInv
<1> QED
  BY <1>2, <1>4, <1>5, <1>6, ZenonT(60) DEF ConnInv

\* A call that ends frees its nonce.
LEMMA JobEnds ==
    ASSUME ConnInv, NonceInv, NEW c \in Presenters, job' = [job EXCEPT ![c] = {}],
           UNCHANGED <<nonces, wire, swapped>>
    PROVE  NonceInv' /\ \A d \in Presenters : job'[d] \subseteq job[d]
<1>1. \A d \in Presenters : job'[d] \subseteq job[d]
  BY DEF ConnInv
<1>2. Mentions' \subseteq Mentions
  BY <1>1 DEF Mentions
<1> QED
  BY <1>1, <1>2, OldMentions

LEMMA GrantKept ==
    ASSUME GrantInv, UNCHANGED <<granted, credits>>, swapped \subseteq swapped',
           \A c \in Presenters : \A r \in job'[c] : \E s \in job[c] : r.nonce = s.nonce
    PROVE  GrantInv'
BY DEF GrantInv

LEMMA IssuerKept ==
    ASSUME IssuerInv, UNCHANGED issuer, replies' \subseteq replies
    PROVE  IssuerInv'
BY Zenon DEF IssuerInv, issuer

-----------------------------------------------------------------------------
(* One lemma for each action.                                              *)

LEMMA PresentRejectedKeeps ==
    ASSUME RedeemInv, NEW c \in Presenters, NEW p, NEW x, PresentRejected(c, p, x)
    PROVE  RedeemInv'
<1>0. /\ UNCHANGED <<credits, label, job, nonces, wire, replies, store, swapped, granted>>
      /\ c \in open /\ job[c] = {}
  BY DEF PresentRejected, issuer
<1>1. ConnInv'
  <2>1. CASE Fail(c)
    <3>1. job' = [job EXCEPT ![c] = {}]
      BY <1>0 DEF RedeemInv, ConnInv
    <3> QED
      BY <1>0, <2>1, <3>1, FailKeeps, Zenon DEF RedeemInv
  <2>2. CASE UNCHANGED <<open, rejections>>
    BY <1>0, <2>2, ZenonT(60) DEF RedeemInv, ConnInv
  <2> QED
    BY <2>1, <2>2 DEF PresentRejected
<1>2. Mentions' = Mentions
  BY <1>0 DEF Mentions
<1>3. NonceInv' /\ GrantInv'
  BY <1>0, <1>2, OldMentions, GrantKept DEF RedeemInv
<1>4. IssuerInv'
  BY <1>0, IssuerKept DEF RedeemInv, issuer
<1> QED
  BY <1>1, <1>3, <1>4, ZenonT(60) DEF RedeemInv

LEMMA PresentKeyKeeps ==
    ASSUME RedeemInv, NEW c \in Presenters, NEW k, PresentKey(c, k)
    PROVE  RedeemInv'
<1>0. /\ UNCHANGED <<credits, job, nonces, wire, replies, store, swapped, granted>>
      /\ c \in open /\ job[c] = {}
  BY DEF PresentKey, issuer
<1>1. ConnInv'
  <2>1. CASE Fail(c) /\ label' = label
    <3>1. job' = [job EXCEPT ![c] = {}]
      BY <1>0 DEF RedeemInv, ConnInv
    <3> QED
      BY <1>0, <2>1, <3>1, FailKeeps, Zenon DEF RedeemInv
  <2>2. CASE UNCHANGED <<open, rejections>> /\ label' = label \cup {c}
    BY <1>0, <2>2 DEF RedeemInv, ConnInv
  <2> QED
    BY <2>1, <2>2 DEF PresentKey
<1>2. Mentions' = Mentions
  BY <1>0 DEF Mentions
<1>3. NonceInv' /\ GrantInv'
  BY <1>0, <1>2, OldMentions, GrantKept DEF RedeemInv
<1>4. IssuerInv'
  BY <1>0, IssuerKept DEF RedeemInv, issuer
<1> QED
  BY <1>1, <1>3, <1>4, ZenonT(60) DEF RedeemInv

\* The call that starts holds a nonce nothing has mentioned.
LEMMA PresentTokenKeeps ==
    ASSUME BoundAssumption, RedeemInv, NEW c \in Presenters, NEW t, PresentToken(c, t)
    PROVE  RedeemInv'
<1> DEFINE q == Exchange(nonces + 1, t, 1, nonces + 1)
<1>0. /\ UNCHANGED <<open, credits, rejections, label, replies, store, swapped, granted>>
      /\ c \in open /\ job[c] = {} /\ nonces' = nonces + 1 /\ nonces < MaxNonces
      /\ job' = [job EXCEPT ![c] = {q}] /\ wire' = wire \cup {q}
  BY DEF PresentToken, issuer
<1>1. q.nonce = nonces + 1 /\ q.call = q.nonce /\ q.token = t
  BY DEF Exchange
<1> HIDE DEF q
<1>2. job' = [d \in Presenters |-> job'[d]] /\ job'[c] = {q} /\ \A d \in Presenters : d # c => job'[d] = job[d]
  BY <1>0, Zenon DEF RedeemInv, ConnInv
<1>3. ConnInv'
  BY <1>0, <1>2, Zenon DEF RedeemInv, ConnInv
<1>4. \A m \in Mentions' : m \in Mentions \/ m = q
  BY <1>0, <1>2 DEF Mentions
<1>5. nonces \in 0..MaxNonces /\ \A m \in Mentions : m.nonce \in 1..nonces /\ m.nonce # q.nonce
  BY <1>1 DEF RedeemInv, NonceInv
<1>6. \A d \in Presenters : job[d] \subseteq Mentions
  BY DEF Mentions
<1>7. NonceInv'
  <2>1. nonces' \in 0..MaxNonces
    BY <1>0, <1>5 DEF BoundAssumption
  <2>2. \A m \in Mentions' : m.nonce \in 1..nonces' /\ m.call = m.nonce
    BY <1>0, <1>1, <1>4, <1>5 DEF RedeemInv, NonceInv
  <2>3. Agree(Mentions)'
    BY <1>4, <1>5 DEF Agree, RedeemInv, NonceInv
  <2>4. \A d, e \in Presenters : \A r \in job'[d], s \in job'[e] : r.nonce = s.nonce => d = e
    BY <1>2, <1>5, <1>6 DEF RedeemInv, NonceInv
  <2> QED
    BY <2>1, <2>2, <2>3, <2>4 DEF NonceInv
<1>8. GrantInv'
  <2>1. \A g \in granted : \E s \in swapped : s.token = g.token /\ s.nonce = g.nonce
    BY DEF RedeemInv, GrantInv
  <2>2. \A g \in granted : g.nonce # q.nonce
    BY <1>5, <2>1 DEF Mentions
  <2>3. \A g \in granted, d \in Presenters : \A r \in job'[d] : g.nonce # r.nonce
    BY <1>2, <2>2 DEF RedeemInv, GrantInv
  <2> QED
    BY <1>0, <2>3 DEF RedeemInv, GrantInv
<1>9. IssuerInv'
  BY <1>0, IssuerKept DEF RedeemInv, issuer
<1> QED
  BY <1>3, <1>7, <1>8, <1>9 DEF RedeemInv

\* A call with a job is on an open connection, and has one request.
LEMMA JobFacts ==
    ASSUME ConnInv, NEW c \in Presenters, NEW r \in job[c]
    PROVE  c \in open /\ job[c] = {r}
BY DEF ConnInv

LEMMA ExchangeFailsKeeps ==
    ASSUME RedeemInv, NEW c \in Presenters, ExchangeFails(c)
    PROVE  RedeemInv'
<1>0. PICK r \in job[c] : Retry(c, r) /\ UNCHANGED <<credits, label, replies, store, swapped, granted>>
  BY DEF ExchangeFails, issuer
<1>1. c \in open /\ job[c] = {r}
  BY JobFacts DEF RedeemInv
<1>2. CASE r.try = 1
  <2> DEFINE q == Exchange(r.nonce, r.token, 2, r.call)
  <2>0. /\ job' = [job EXCEPT ![c] = {q}] /\ wire' = wire \cup {q}
        /\ UNCHANGED <<open, rejections, nonces>>
        /\ q.nonce = r.nonce /\ q.token = r.token /\ q.call = r.call
    BY <1>0, <1>2 DEF Retry, Exchange
  <2> HIDE DEF q
  <2>1. job' = [d \in Presenters |-> job'[d]] /\ job'[c] = {q} /\ \A d \in Presenters : d # c => job'[d] = job[d]
    BY <2>0, ZenonT(60) DEF RedeemInv, ConnInv
  <2>2. ConnInv'
    BY <1>0, <1>1, <2>0, <2>1, ZenonT(60) DEF RedeemInv, ConnInv
  <2>3. r \in Mentions /\ \A m \in Mentions' : m \in Mentions \/ m = q
    BY <1>0, <2>0, <2>1 DEF Mentions
  <2>4. \A d \in Presenters : \A s \in job'[d] : \E u \in job[d] : s.nonce = u.nonce
    BY <1>1, <2>0, <2>1
  <2>5. NonceInv'
    BY <2>0, <2>3, <2>4, OldMentions DEF RedeemInv
  <2>6. GrantInv'
    BY <1>0, <2>4, GrantKept DEF RedeemInv
  <2>7. IssuerInv'
    BY <1>0, IssuerKept DEF RedeemInv, issuer
  <2> QED
    BY <2>2, <2>5, <2>6, <2>7 DEF RedeemInv
<1>3. CASE r.try # 1
  <2>0. job' = [job EXCEPT ![c] = {}] /\ Fail(c) /\ UNCHANGED <<nonces, wire>>
    BY <1>0, <1>3 DEF Retry
  <2>1. ConnInv'
    BY <1>0, <1>1, <2>0, FailKeeps, Zenon DEF RedeemInv
  <2>2. NonceInv' /\ \A d \in Presenters : job'[d] \subseteq job[d]
    BY <1>0, <2>0, JobEnds, ZenonT(60) DEF RedeemInv
  <2>3. GrantInv'
    BY <1>0, <2>2, GrantKept DEF RedeemInv
  <2>4. IssuerInv'
    BY <1>0, IssuerKept DEF RedeemInv, issuer
  <2> QED
    BY <2>1, <2>2, <2>3, <2>4 DEF RedeemInv
<1> QED
  BY <1>2, <1>3

\* The top-up of a connection counts one grant more.
LEMMA GrantCounted ==
    ASSUME CountFacts, IsFiniteSet(granted), NEW g, g \notin granted, NEW d
    PROVE  Cardinality({h \in granted \cup {g} : h.conn = d}) =
             IF g.conn = d THEN Cardinality({h \in granted : h.conn = d}) + 1
                           ELSE Cardinality({h \in granted : h.conn = d})
<1> DEFINE S == {h \in granted : h.conn = d}
<1>1. IsFiniteSet(S) /\ g \notin S
  <2>1. S \subseteq granted
    OBVIOUS
  <2> HIDE DEF S
  <2>2. IsFiniteSet(S)
    BY <2>1, Zenon DEF CountFacts
  <2> QED
    BY <2>1, <2>2, Zenon
<1>2. CASE g.conn = d
  <2>1. {h \in granted \cup {g} : h.conn = d} = S \cup {g}
    BY <1>2
  <2> QED
    BY <1>1, <1>2, <2>1, Zenon DEF CountFacts
<1>3. CASE g.conn # d
  <2>1. {h \in granted \cup {g} : h.conn = d} = S
    BY <1>3
  <2> QED
    BY <1>3, <2>1, ZenonT(60)
<1> QED
  BY <1>2, <1>3

LEMMA TopUpKeeps ==
    ASSUME BoundAssumption, CountFacts, RedeemInv, NEW c \in Presenters, NEW r \in job[c], NEW reply \in replies,
           reply.nonce = r.nonce, replies' = replies \ {reply}, Verified(r, reply), TopUp(c, r),
           UNCHANGED <<open, rejections, label, nonces, store, swapped>>
    PROVE  RedeemInv'
<1> DEFINE g == [conn |-> c, token |-> r.token, nonce |-> r.nonce, try |-> r.try]
<1>0. /\ credits' = [credits EXCEPT ![c] = @ + 1] /\ granted' = granted \cup {g}
      /\ job' = [job EXCEPT ![c] = {}] /\ UNCHANGED wire
  BY DEF TopUp
<1>1. g.conn = c /\ g.token = r.token /\ g.nonce = r.nonce
  OBVIOUS
<1> HIDE DEF g
<1>2. job' = [d \in Presenters |-> job'[d]] /\ job'[c] = {} /\ \A d \in Presenters : d # c => job'[d] = job[d]
  BY <1>0, Zenon DEF RedeemInv, ConnInv
<1>3. ConnInv'
  <2>1. credits' \in [Presenters -> Nat]
    BY <1>0 DEF RedeemInv, ConnInv
  <2> QED
    BY <1>2, <2>1, Zenon DEF RedeemInv, ConnInv
<1>4. NonceInv'
  BY <1>0, JobEnds, ZenonT(60) DEF RedeemInv
<1>5. IssuerInv'
  BY <1>0, IssuerKept DEF RedeemInv, issuer
<1>6. \E s \in swapped : s.token = g.token /\ s.nonce = g.nonce
  <2>1. store[r.nonce] = {TRUE} /\ r.nonce \in 1..MaxNonces
    BY ZenonT(60) DEF RedeemInv, IssuerInv, Verified
  <2>2. PICK s \in swapped : s.nonce = r.nonce
    BY <2>1, Zenon DEF RedeemInv, IssuerInv
  <2>3. s \in Mentions /\ r \in Mentions
    BY DEF Mentions
  <2>4. s.token = r.token
    BY <2>2, <2>3, ZenonT(60) DEF RedeemInv, NonceInv, Agree
  <2> QED
    BY <1>1, <2>2, <2>4
<1>7. \A h \in granted : h.nonce # g.nonce
  BY <1>1, ZenonT(60) DEF RedeemInv, GrantInv
<1>8. g \notin granted
  BY <1>7
<1>9. \A h \in granted', d \in Presenters : \A s \in job'[d] : h.nonce # s.nonce
  BY <1>0, <1>1, <1>2 DEF RedeemInv, GrantInv, NonceInv
<1>10. IsFiniteSet(granted')
  BY <1>0, ZenonT(60) DEF CountFacts, RedeemInv, GrantInv
<1>11. \A d \in Presenters : credits'[d] = Cardinality({h \in granted' : h.conn = d})
  <2> SUFFICES ASSUME NEW d \in Presenters
               PROVE  credits'[d] = Cardinality({h \in granted' : h.conn = d})
    OBVIOUS
  <2>1. credits[d] = Cardinality({h \in granted : h.conn = d})
    BY DEF RedeemInv, GrantInv
  <2>2. Cardinality({h \in granted \cup {g} : h.conn = d}) = IF g.conn = d THEN credits[d] + 1 ELSE credits[d]
    <3>1. IsFiniteSet(granted)
      BY DEF RedeemInv, GrantInv
    <3>2. Cardinality({h \in granted \cup {g} : h.conn = d}) =
            IF g.conn = d THEN Cardinality({h \in granted : h.conn = d}) + 1
                          ELSE Cardinality({h \in granted : h.conn = d})
      BY <1>8, <3>1, GrantCounted, Zenon
    <3> QED
      BY <2>1, <3>2, Zenon
  <2>3. credits'[d] = IF g.conn = d THEN credits[d] + 1 ELSE credits[d]
    BY <1>0, <1>1 DEF RedeemInv, ConnInv
  <2> QED
    BY <1>0, <2>2, <2>3
<1>12. GrantInv'
  <2>1. \A h \in granted' : \E s \in swapped' : s.token = h.token /\ s.nonce = h.nonce
    BY <1>0, <1>6, ZenonT(60) DEF RedeemInv, GrantInv
  <2>2. \A h, k \in granted' : h.nonce = k.nonce => h = k
    BY <1>0, <1>7 DEF RedeemInv, GrantInv
  <2> QED
    BY <1>9, <1>10, <1>11, <2>1, <2>2, ZenonT(60) DEF GrantInv
<1> QED
  BY <1>3, <1>4, <1>5, <1>12 DEF RedeemInv

LEMMA ExchangeAnsweredKeeps ==
    ASSUME BoundAssumption, CountFacts, RedeemInv, NEW c \in Presenters, ExchangeAnswered(c)
    PROVE  RedeemInv'
<1>0. PICK r \in job[c], reply \in replies :
        /\ reply.nonce = r.nonce /\ replies' = replies \ {reply}
        /\ IF Verified(r, reply)
             THEN TopUp(c, r) /\ UNCHANGED <<open, rejections>>
             ELSE Fail(c) /\ job' = [job EXCEPT ![c] = {}] /\ UNCHANGED <<credits, granted, wire>>
        /\ UNCHANGED <<label, nonces, store, swapped>>
  BY ZenonT(60) DEF ExchangeAnswered, issuer
<1>1. CASE Verified(r, reply)
  BY <1>0, <1>1, TopUpKeeps
<1>2. CASE ~Verified(r, reply)
  <2>0. c \in open
    BY JobFacts, ZenonT(60) DEF RedeemInv
  <2>1. ConnInv'
    BY <1>0, <1>2, <2>0, FailKeeps DEF RedeemInv
  <2>2. NonceInv' /\ \A d \in Presenters : job'[d] \subseteq job[d]
    BY <1>0, <1>2, JobEnds, ZenonT(60) DEF RedeemInv
  <2>3. GrantInv'
    BY <1>0, <1>2, <2>2, GrantKept DEF RedeemInv
  <2>4. IssuerInv'
    BY <1>0, IssuerKept DEF RedeemInv, issuer
  <2> QED
    BY <2>1, <2>2, <2>3, <2>4 DEF RedeemInv
<1> QED
  BY <1>1, <1>2, ZenonT(60)

\* The issuer answers a nonce it knows from its store, and swaps a token that
\* it has not swapped.
LEMMA IssuerActsKeeps ==
    ASSUME BoundAssumption, RedeemInv, NEW r \in wire, IssuerActs(r)
    PROVE  RedeemInv'
<1> DEFINE spent == \E s \in swapped : s.token = r.token
           ok == IF store[r.nonce] = {} THEN ~spent ELSE store[r.nonce] = {TRUE}
           w == [token |-> r.token, nonce |-> r.nonce, call |-> r.call]
<1>0. /\ UNCHANGED <<open, credits, rejections, label, job, nonces, granted>>
      /\ wire' = wire \ {r} /\ store' = [store EXCEPT ![r.nonce] = {ok}]
      /\ swapped' = IF ok /\ store[r.nonce] = {} THEN swapped \cup {w} ELSE swapped
  BY DEF IssuerActs
<1>a. PICK key \in Signers : replies' = replies \cup {[nonce |-> r.nonce, try |-> r.try, ok |-> ok, key |-> key]}
  BY Zenon DEF IssuerActs
<1>1. w.nonce = r.nonce /\ w.token = r.token /\ w.call = r.call
  OBVIOUS
<1>2. r \in Mentions /\ r.nonce \in 1..MaxNonces
  BY DEF RedeemInv, NonceInv, Mentions, BoundAssumption
<1>3. ok \in BOOLEAN /\ (store[r.nonce] = {} => (ok <=> ~spent)) /\ (store[r.nonce] # {} => (ok <=> store[r.nonce] = {TRUE}))
  BY Zenon
<1> HIDE DEF w, ok
<1>4. NonceInv'
  <2>1. \A m \in Mentions' : m \in Mentions \/ m = w
    BY <1>0, ZenonT(60) DEF Mentions
  <2> QED
    BY <1>0, <1>1, <1>2, <2>1, OldMentions, ZenonT(60) DEF RedeemInv
<1>5. GrantInv'
  BY <1>0, GrantKept, ZenonT(60) DEF RedeemInv
<1>6. store'[r.nonce] = {ok} /\ DOMAIN store' = 1..MaxNonces /\ \A n \in 1..MaxNonces : n # r.nonce => store'[n] = store[n]
  BY <1>0, <1>2 DEF RedeemInv, IssuerInv
<1>b. store'[r.nonce] = IF ok THEN {TRUE} ELSE {FALSE}
  BY <1>3, <1>6, Zenon
<1>c. \A p \in replies' : p \in replies \/ (p.nonce = r.nonce /\ p.ok = ok)
  <2> DEFINE x == [nonce |-> r.nonce, try |-> r.try, ok |-> ok, key |-> key]
  <2>1. x.nonce = r.nonce /\ x.ok = ok
    OBVIOUS
  <2>2. \A p \in replies' : p \in replies \/ p = x
    BY <1>a
  <2> HIDE DEF x
  <2> QED
    BY <2>1, <2>2, Zenon
<1>7. ASSUME store[r.nonce] # {}
      PROVE  IssuerInv'
  <2>1. store[r.nonce] \in {{TRUE}, {FALSE}}
    BY <1>2, <1>7, Zenon DEF RedeemInv, IssuerInv
  <2>2. store'[r.nonce] = store[r.nonce] /\ (ok => store[r.nonce] = {TRUE})
    BY <1>3, <1>b, <1>7, <2>1, ZenonT(60)
  <2>3. \A n \in 1..MaxNonces : store'[n] = store[n]
    BY <1>6, <2>2
  <2>4. swapped' = swapped
    BY <1>0, <1>7
  <2>5. \A p \in replies' : p.nonce \in 1..MaxNonces /\ (p.ok => store'[p.nonce] = {TRUE})
    BY <1>2, <1>c, <2>2, <2>3, Zenon DEF RedeemInv, IssuerInv
  <2>6. \A s, u \in swapped' : s.token = u.token => s = u
    BY <2>4, Zenon DEF RedeemInv, IssuerInv
  <2>7. \A n \in 1..MaxNonces : /\ store'[n] \in {{}, {TRUE}, {FALSE}}
                                /\ store'[n] = {TRUE} <=> \E s \in swapped' : s.nonce = n
    BY <2>3, <2>4, Zenon DEF RedeemInv, IssuerInv
  <2> QED
    BY <1>6, <2>5, <2>6, <2>7, Zenon DEF IssuerInv
<1>8. ASSUME store[r.nonce] = {}
      PROVE  IssuerInv'
  <2>1. \A s \in swapped : s.nonce # r.nonce
    BY <1>2, <1>8, Zenon DEF RedeemInv, IssuerInv
  <2>2. \A p \in replies : p.nonce \in 1..MaxNonces /\ (p.ok => p.nonce # r.nonce /\ store[p.nonce] = {TRUE})
    BY <1>8, ZenonT(60) DEF RedeemInv, IssuerInv
  <2>3. \A p \in replies' : p.nonce \in 1..MaxNonces /\ (p.ok => store'[p.nonce] = {TRUE})
    BY <1>2, <1>6, <1>b, <1>c, <2>2, Zenon
  <2>4. \A n \in 1..MaxNonces : store'[n] \in {{}, {TRUE}, {FALSE}}
    BY <1>6, <1>b, Zenon DEF RedeemInv, IssuerInv
  <2>5. CASE ok
    <3>1. swapped' = swapped \cup {w} /\ \A s \in swapped : s.token # w.token
      BY <1>0, <1>1, <1>3, <1>8, <2>5
    <3>2. ASSUME NEW n \in 1..MaxNonces
          PROVE  store'[n] = {TRUE} <=> \E s \in swapped' : s.nonce = n
      <4>1. CASE n = r.nonce
        BY <1>1, <1>b, <2>5, <3>1, <4>1, Zenon
      <4>2. CASE n # r.nonce
        BY <1>1, <1>6, <3>1, <4>2, ZenonT(60) DEF RedeemInv, IssuerInv
      <4> QED
        BY <4>1, <4>2, Zenon
    <3>3. \A s, u \in swapped' : s.token = u.token => s = u
      BY <3>1, Zenon DEF RedeemInv, IssuerInv
    <3> QED
      BY <1>6, <2>3, <2>4, <3>2, <3>3, ZenonT(60) DEF IssuerInv
  <2>6. CASE ~ok
    <3>1. swapped' = swapped
      BY <1>0, <2>6
    <3>2. ASSUME NEW n \in 1..MaxNonces
          PROVE  store'[n] = {TRUE} <=> \E s \in swapped' : s.nonce = n
      <4>1. CASE n = r.nonce
        <5>1. {FALSE} # {TRUE}
          BY Zenon
        <5> QED
          BY <1>b, <2>1, <2>6, <3>1, <4>1, <5>1, Zenon
      <4>2. CASE n # r.nonce
        BY <1>6, <3>1, <4>2, Zenon DEF RedeemInv, IssuerInv
      <4> QED
        BY <4>1, <4>2, Zenon
    <3>3. \A s, u \in swapped' : s.token = u.token => s = u
      BY <3>1, Zenon DEF RedeemInv, IssuerInv
    <3> QED
      BY <1>6, <2>3, <2>4, <3>2, <3>3, Zenon DEF IssuerInv
  <2> QED
    BY <2>5, <2>6
<1>9. ConnInv'
  BY <1>0, Zenon DEF RedeemInv, ConnInv
<1>10. IssuerInv'
  BY <1>7, <1>8
<1> QED
  BY <1>4, <1>5, <1>9, <1>10, ZenonT(60) DEF RedeemInv

LEMMA LostKeeps ==
    ASSUME RedeemInv, NEW r, Lost(r)
    PROVE  RedeemInv'
<1>0. /\ UNCHANGED <<open, credits, rejections, label, job, nonces, store, swapped, granted>>
      /\ wire' \subseteq wire /\ replies' \subseteq replies
  BY DEF Lost, issuer
<1>1. ConnInv'
  BY <1>0 DEF RedeemInv, ConnInv
<1>2. Mentions' \subseteq Mentions
  BY <1>0 DEF Mentions
<1>3. NonceInv' /\ GrantInv'
  BY <1>0, <1>2, OldMentions, GrantKept DEF RedeemInv
<1>4. IssuerInv'
  BY <1>0, IssuerKept DEF RedeemInv, issuer
<1> QED
  BY <1>1, <1>3, <1>4 DEF RedeemInv

LEMMA InitRedeemInv ==
    ASSUME BoundAssumption, CountFacts, RedeemInit
    PROVE  RedeemInv
<1>1. ConnInv
  BY DEF RedeemInit, ConnInv
<1>2. Mentions = {}
  BY DEF RedeemInit, Mentions
<1>3. NonceInv
  BY <1>2 DEF RedeemInit, NonceInv, Agree, BoundAssumption
<1>4. IssuerInv
  <2>1. {} # {TRUE}
    BY Zenon
  <2> QED
    BY <2>1, Zenon DEF RedeemInit, IssuerInv
<1>5. GrantInv
  <2>1. \A c \in Presenters : {g \in granted : g.conn = c} = {} /\ credits[c] = 0
    BY DEF RedeemInit
  <2> QED
    BY <2>1, Zenon DEF CountFacts, RedeemInit, GrantInv
<1> QED
  BY <1>1, <1>3, <1>4, <1>5 DEF RedeemInv

LEMMA InvRedeemedOnce ==
    ASSUME BoundAssumption, CountFacts, RedeemInv
    PROVE  RedeemedOnce
<1>1. RedeemTypeOK
  <2>1. ASSUME NEW c \in Presenters
        PROVE  Cardinality(job[c]) <= 1
    <3>1. CASE job[c] = {}
      BY <3>1 DEF CountFacts
    <3>2. ASSUME NEW r, job[c] = {r}
          PROVE  Cardinality(job[c]) <= 1
      <4>1. Cardinality(job[c]) = 1
        BY <3>2, Zenon DEF CountFacts
      <4> QED
        BY <4>1
    <3> QED
      BY <3>1, <3>2, Zenon DEF RedeemInv, ConnInv
  <2> QED
    BY <2>1 DEF RedeemTypeOK, RedeemInv, ConnInv
<1>2. GrantedOnce
  <2> SUFFICES ASSUME NEW g \in granted, NEW h \in granted, g.token = h.token
               PROVE  g = h
    BY DEF GrantedOnce
  <2>1. PICK s \in swapped : s.token = g.token /\ s.nonce = g.nonce
    BY DEF RedeemInv, GrantInv
  <2>2. PICK u \in swapped : u.token = h.token /\ u.nonce = h.nonce
    BY DEF RedeemInv, GrantInv
  <2>3. s = u
    BY <2>1, <2>2 DEF RedeemInv, IssuerInv
  <2> QED
    BY <2>1, <2>2, <2>3 DEF RedeemInv, GrantInv
<1>3. GrantedWasSwapped
  BY Zenon DEF RedeemInv, GrantInv, GrantedWasSwapped
<1>4. RetryRecovers
  <2> SUFFICES ASSUME NEW c \in Presenters, NEW r \in job[c], store[r.nonce] = {FALSE}, NEW s \in swapped,
                      s.call = r.call
               PROVE  FALSE
    BY Zenon DEF RetryRecovers
  <2>1. r \in Mentions /\ s \in Mentions
    BY DEF Mentions
  <2>2. s.nonce = r.nonce /\ r.nonce \in 1..MaxNonces
    BY <2>1 DEF RedeemInv, NonceInv, BoundAssumption
  <2>3. store[r.nonce] = {TRUE}
    BY <2>2, Zenon DEF RedeemInv, IssuerInv
  <2> QED
    BY <2>3, Zenon
<1> QED
  BY <1>1, <1>2, <1>3, <1>4 DEF RedeemedOnce

INSTANCE FiniteSetTheorems

LEMMA CountFactsHold == CountFacts
<1>1. IsFiniteSet({}) /\ Cardinality({}) = 0
  BY FS_EmptySet, Zenon
<1>2. \A x : Cardinality({x}) = 1
  BY FS_Singleton, Zenon
<1>3. \A S, T : IsFiniteSet(S) /\ T \subseteq S => IsFiniteSet(T)
  BY FS_Subset, Zenon
<1>4. \A S, x : IsFiniteSet(S) => IsFiniteSet(S \cup {x})
  BY FS_AddElement, Zenon
<1>5. \A S, x : IsFiniteSet(S) /\ x \notin S => Cardinality(S \cup {x}) = Cardinality(S) + 1
  BY FS_AddElement, Zenon
<1> QED
  BY <1>1, <1>2, <1>3, <1>4, <1>5, Zenon DEF CountFacts

\* For any number of connections, tokens and calls, and however exchanges are
\* lost, repeated or answered late: redeem grants a token to one connection
\* once, only after the mint swapped it for that call, and the second attempt
\* is never refused because the first one succeeded.
THEOREM TokensRedeemedOnce == BoundAssumption /\ RedeemSpec => []RedeemedOnce
<1> SUFFICES ASSUME BoundAssumption
             PROVE  RedeemSpec => []RedeemedOnce
  OBVIOUS
<1>1. RedeemInit => RedeemInv
  BY CountFactsHold, InitRedeemInv
<1>2. RedeemInv /\ [RedeemNext]_redeemVars => RedeemInv'
  <2> SUFFICES ASSUME RedeemInv, [RedeemNext]_redeemVars
               PROVE  RedeemInv'
    OBVIOUS
  <2>1. CASE RedeemNext
    <3>1. ASSUME NEW c \in Presenters, NEW p, NEW x, PresentRejected(c, p, x)
          PROVE  RedeemInv'
      BY <3>1, PresentRejectedKeeps
    <3>2. ASSUME NEW c \in Presenters, NEW t, PresentToken(c, t)
          PROVE  RedeemInv'
      BY <3>2, PresentTokenKeeps
    <3>3. ASSUME NEW c \in Presenters, ExchangeFails(c)
          PROVE  RedeemInv'
      BY <3>3, ExchangeFailsKeeps
    <3>4. ASSUME NEW c \in Presenters, ExchangeAnswered(c)
          PROVE  RedeemInv'
      BY <3>4, CountFactsHold, ExchangeAnsweredKeeps
    <3>5. ASSUME NEW c \in Presenters, NEW k, PresentKey(c, k)
          PROVE  RedeemInv'
      BY <3>5, PresentKeyKeeps
    <3>6. ASSUME NEW r \in wire, IssuerActs(r)
          PROVE  RedeemInv'
      BY <3>6, IssuerActsKeeps
    <3>7. ASSUME NEW r, Lost(r)
          PROVE  RedeemInv'
      BY <3>7, LostKeeps
    <3> QED
      BY <2>1, <3>1, <3>2, <3>3, <3>4, <3>5, <3>6, <3>7, Zenon DEF RedeemNext
  <2>2. CASE UNCHANGED redeemVars
    <3>1. Mentions' = Mentions
      BY <2>2 DEF redeemVars, Mentions
    <3>2. ConnInv' /\ IssuerInv'
      BY <2>2, Zenon DEF redeemVars, RedeemInv, ConnInv, IssuerInv
    <3>3. NonceInv' /\ GrantInv'
      BY <2>2, <3>1, OldMentions, GrantKept DEF redeemVars, RedeemInv
    <3> QED
      BY <3>2, <3>3 DEF RedeemInv
  <2> QED
    BY <2>1, <2>2
<1>3. RedeemInv => RedeemedOnce
  BY CountFactsHold, InvRedeemedOnce
<1> QED
  BY <1>1, <1>2, <1>3, PTL DEF RedeemSpec
=============================================================================
