-------------------------- MODULE CfdGatewayProofs --------------------------
(***************************************************************************)
(* Proofs about CfdGateway, for any number of displays, branches, frames   *)
(* and faults, and for frames of any length: every header that the server  *)
(* writes or a display masks is read back as it was meant; the maps of the *)
(* gateway agree; the loop over a chunk finds the frames where they begin, *)
(* wherever TCP cuts them; and so every display is answered, shown the     *)
(* latest snapshot and let go as it should be.                             *)
(***************************************************************************)
EXTENDS CfdGateway, FoldTheorems, SequenceTheorems, TLAPS

(***************************************************************************)
(* Headers.                                                                *)
(***************************************************************************)

\* The four bytes of a long length make it up again.
LEMMA LengthInBytes ==
    ASSUME NEW len \in Nat
    PROVE  (((len \div (256 * SixteenBitLimit)) * 256 + ((len \div SixteenBitLimit) % 256)) * 256
                + ((len \div 256) % 256)) * 256 + (len % 256) = len
<1>1. len \div (256 * SixteenBitLimit) = ((len \div 256) \div 256) \div 256
  BY DEF SixteenBitLimit
<1>2. len \div SixteenBitLimit = (len \div 256) \div 256
  BY DEF SixteenBitLimit
<1>3. \A n \in Nat : n \div 256 \in Nat
  OBVIOUS
<1>4. \A n \in Nat : (n \div 256) * 256 + (n % 256) = n
  OBVIOUS
<1>5. (len \div (256 * SixteenBitLimit)) * 256 + ((len \div SixteenBitLimit) % 256)
          = (len \div 256) \div 256
  BY <1>1, <1>2, <1>3, <1>4
<1>6. ((len \div 256) \div 256) * 256 + ((len \div 256) % 256) = len \div 256
  BY <1>3, <1>4
<1>7. (len \div 256) * 256 + (len % 256) = len
  BY <1>4
<1> QED BY <1>5, <1>6, <1>7

\* What encodeWebSocketFrame writes, decodeWebSocketFrame reads: the opcode, the length
\* and the end of the frame, for every length, in each of its encodings (below 2^31, where
\* WebSocketFrame describes the eight bytes of the longest).
THEOREM HeaderRoundTrip ==
    ASSUME NEW opcode \in 0 .. 15, NEW len \in Nat
    PROVE  LET header == Header(opcode, len)
               start == Len(header)
           IN  Decode(start + len, FirstBytes(header))
                   = [opcode |-> opcode, from |-> start, len |-> len,
                      bytesRead |-> start + len]
<1> DEFINE header == Header(opcode, len)
           byte == FirstBytes(header)
<1>1. CASE len < 126
  <2>1. /\ Len(header) = 2
        /\ byte[0] = 128 + opcode
        /\ byte[1] = len
    BY <1>1 DEF Header, FirstBytes, SevenBitLimit
  <2>2. ExtendedBy(byte[1]) = 0 /\ MaskLength(byte[1]) = 0 /\ PayloadLength(byte) = len
    BY <1>1, <2>1 DEF ExtendedBy, MaskLength, PayloadLength
  <2>3. byte[0] % 16 = opcode
    BY <2>1
  <2> HIDE DEF header, byte
  <2>4. Decode(Len(header) + len, byte)
            = [opcode |-> opcode, from |-> Len(header), len |-> len,
               bytesRead |-> Len(header) + len]
    BY <2>1, <2>2, <2>3 DEF Decode, TooShort
  <2> QED BY <2>4 DEF header, byte
<1>2. CASE 126 <= len /\ len < SixteenBitLimit
  <2>1. /\ Len(header) = 4
        /\ byte[0] = 128 + opcode
        /\ byte[1] = 126
        /\ byte[2] = len \div 256
        /\ byte[3] = len % 256
    BY <1>2 DEF Header, FirstBytes, SevenBitLimit
  <2>2. ExtendedBy(byte[1]) = 2 /\ MaskLength(byte[1]) = 0
    BY <2>1 DEF ExtendedBy, MaskLength
  <2>3. PayloadLength(byte) = len
    BY <2>1, <2>2 DEF PayloadLength
  <2>4. byte[0] % 16 = opcode
    BY <2>1
  <2> HIDE DEF header, byte
  <2>5. Decode(Len(header) + len, byte)
            = [opcode |-> opcode, from |-> Len(header), len |-> len,
               bytesRead |-> Len(header) + len]
    BY <2>1, <2>2, <2>3, <2>4 DEF Decode, TooShort
  <2> QED BY <2>5 DEF header, byte
<1>3. CASE SixteenBitLimit <= len
  <2>1. /\ Len(header) = 10
        /\ byte[0] = 128 + opcode
        /\ byte[1] = 127
        /\ byte[6] = len \div (256 * SixteenBitLimit)
        /\ byte[7] = (len \div SixteenBitLimit) % 256
        /\ byte[8] = (len \div 256) % 256
        /\ byte[9] = len % 256
    <3>1. ~(len < 126) /\ ~(len < SixteenBitLimit)
      BY <1>3 DEF SixteenBitLimit
    <3> QED BY <3>1 DEF Header, FirstBytes, SevenBitLimit
  <2>2. ExtendedBy(byte[1]) = 8 /\ MaskLength(byte[1]) = 0
    BY <2>1 DEF ExtendedBy, MaskLength
  <2>3. ((byte[6] * 256 + byte[7]) * 256 + byte[8]) * 256 + byte[9] = len
    BY <2>1, LengthInBytes
  <2>4. PayloadLength(byte) = len
    BY <2>2, <2>3 DEF PayloadLength
  <2>5. byte[0] % 16 = opcode
    BY <2>1
  <2> HIDE DEF header, byte
  <2>6. Decode(Len(header) + len, byte)
            = [opcode |-> opcode, from |-> Len(header), len |-> len,
               bytesRead |-> Len(header) + len]
    BY <2>1, <2>2, <2>4, <2>5 DEF Decode, TooShort
  <2> QED BY <2>6 DEF header, byte
<1> QED BY <1>1, <1>2, <1>3 DEF SixteenBitLimit

(***************************************************************************)
(* The maps.                                                               *)
(***************************************************************************)

\* What the steps need to know of the types.
MapTypes ==
    /\ phase \in [Sockets -> Phase]
    /\ request \in [Sockets -> [branch : Branches \cup {NoBranch}, valid : BOOLEAN]]
    /\ clients \in [Branches -> SUBSET Sockets]

CfdInv == MapTypes /\ RegistriesAgree

\* Initially no socket is in any map.
LEMMA InitCfdInv == Init => CfdInv
BY DEF Init, CfdInv, MapTypes, RegistriesAgree, Phase, NoRequest

\* A socket that is unregistered when its connection stops being open leaves all maps.
LEMMA UnregisterAgrees ==
    ASSUME CfdInv, NEW S \in SUBSET Sockets, Unregister(S),
           phase' \in [Sockets -> Phase],
           request' \in [Sockets -> [branch : Branches \cup {NoBranch}, valid : BOOLEAN]],
           \A s \in Sockets \ S : request'[s] = request[s],
           \A s \in Sockets : phase'[s] = "open" <=> (phase[s] = "open" /\ s \notin S)
    PROVE  CfdInv'
<1> DEFINE known == S \cap DOMAIN socketBranches
<1>1. /\ DOMAIN socketBranches' = DOMAIN socketBranches \ S
      /\ \A s \in DOMAIN socketBranches \ S : socketBranches'[s] = socketBranches[s]
      /\ DOMAIN socketBuffers' = DOMAIN socketBuffers \ known
      /\ listening' = listening \ known
  BY DEF Unregister, Drop
<1>2. clients' = [b \in Branches |-> clients[b] \ {s \in known : socketBranches[s] = b}]
  BY DEF Unregister
<1>3. DOMAIN socketBranches' = {s \in Sockets : phase'[s] = "open"}
  BY <1>1 DEF CfdInv, RegistriesAgree
<1>4. DOMAIN socketBuffers' = DOMAIN socketBranches' /\ listening' = DOMAIN socketBranches'
  BY <1>1 DEF CfdInv, RegistriesAgree
<1>5. ASSUME NEW s \in Sockets, NEW b \in Branches
      PROVE  s \in clients'[b] <=> s \in DOMAIN socketBranches' /\ socketBranches'[s] = b
  <2>1. s \in clients'[b] <=> s \in clients[b] /\ ~(s \in known /\ socketBranches[s] = b)
    BY <1>2, <1>5
  <2>2. s \in clients[b] <=> s \in DOMAIN socketBranches /\ socketBranches[s] = b
    BY <1>5 DEF CfdInv, RegistriesAgree
  <2> QED BY <1>1, <2>1, <2>2
<1>6. \A s \in DOMAIN socketBranches' : socketBranches'[s] = request'[s].branch
  BY <1>1 DEF CfdInv, RegistriesAgree
<1>7. MapTypes'
  BY <1>2 DEF CfdInv, MapTypes
<1> QED BY <1>3, <1>4, <1>5, <1>6, <1>7 DEF CfdInv, RegistriesAgree

\* The requests and phases that a step may set.
LEMMA CloseTypes ==
    ASSUME CfdInv, NEW S \in SUBSET Sockets, Close(S)
    PROVE  /\ phase' \in [Sockets -> Phase]
           /\ request' \in [Sockets -> [branch : Branches \cup {NoBranch}, valid : BOOLEAN]]
           /\ \A s \in Sockets : phase'[s] = "open" <=> (phase[s] = "open" /\ s \notin S)
           /\ \A s \in Sockets \ S : request'[s] = request[s]
BY DEF CfdInv, MapTypes, Close, Phase, NoRequest

\* A step that opens and closes nothing, and leaves the maps alone, leaves them agreeing.
LEMMA QuietAgrees ==
    ASSUME CfdInv, UNCHANGED registry,
           phase' \in [Sockets -> Phase],
           request' \in [Sockets -> [branch : Branches \cup {NoBranch}, valid : BOOLEAN]],
           \A s \in Sockets : phase'[s] = "open" <=> phase[s] = "open",
           \A s \in Sockets : phase[s] = "open" => request'[s] = request[s]
    PROVE  CfdInv'
BY DEF CfdInv, MapTypes, RegistriesAgree, registry

\* A socket that is registered when its connection opens enters all maps.
LEMMA RegisterAgrees ==
    ASSUME CfdInv, NEW s \in Sockets, NEW held,
           phase[s] = "asked", request[s].branch # NoBranch,
           Register(s, request[s].branch, held),
           phase' = [phase EXCEPT ![s] = "open"], UNCHANGED request
    PROVE  CfdInv'
<1> DEFINE b == request[s].branch
<1>1. b \in Branches
  BY DEF CfdInv, MapTypes
<1>2. s \notin DOMAIN socketBranches
  BY DEF CfdInv, RegistriesAgree
<1>3. /\ DOMAIN socketBranches' = DOMAIN socketBranches \cup {s}
      /\ \A t \in DOMAIN socketBranches : socketBranches'[t] = socketBranches[t]
      /\ socketBranches'[s] = b
      /\ DOMAIN socketBuffers' = DOMAIN socketBuffers \cup {s}
      /\ listening' = listening \cup {s}
  BY <1>2 DEF Register, Put
<1>4. clients' = [clients EXCEPT ![b] = @ \cup {s}]
  BY DEF Register
<1>5. MapTypes'
  BY <1>1, <1>4 DEF CfdInv, MapTypes, Phase
<1>6. DOMAIN socketBranches' = {t \in Sockets : phase'[t] = "open"}
  BY <1>3 DEF CfdInv, MapTypes, RegistriesAgree
<1>7. DOMAIN socketBuffers' = DOMAIN socketBranches' /\ listening' = DOMAIN socketBranches'
  BY <1>3 DEF CfdInv, RegistriesAgree
<1>8. \A t \in DOMAIN socketBranches' : socketBranches'[t] = request'[t].branch
  BY <1>3 DEF CfdInv, RegistriesAgree
<1>9. ASSUME NEW t \in Sockets, NEW c \in Branches
      PROVE  t \in clients'[c] <=> t \in DOMAIN socketBranches' /\ socketBranches'[t] = c
  <2>1. t \in clients[c] <=> t \in DOMAIN socketBranches /\ socketBranches[t] = c
    BY <1>9 DEF CfdInv, RegistriesAgree
  <2>2. t \in clients'[c] <=> t \in clients[c] \/ (t = s /\ c = b)
    BY <1>1, <1>4, <1>9 DEF CfdInv, MapTypes
  <2> QED BY <1>2, <1>3, <2>1, <2>2
<1> QED BY <1>5, <1>6, <1>7, <1>8, <1>9 DEF CfdInv, RegistriesAgree

\* A process that starts again has no connections.
LEMMA RestartAgrees ==
    ASSUME CfdInv, Restart
    PROVE  CfdInv'
<1>1. /\ phase' = [s \in Sockets |-> "closed"]
      /\ request' = [s \in Sockets |-> NoRequest]
  BY DEF Restart, Close
<1> QED BY <1>1 DEF Restart, CfdInv, MapTypes, RegistriesAgree, Phase, NoRequest

\* An upgrade enters the socket in all maps, or in none if its first bytes close it.
LEMMA UpgradeAgrees ==
    ASSUME CfdInv, NEW s \in Sockets, Upgrade(s)
    PROVE  CfdInv'
<1>1. PICK to \in Cuts(s) \cup {0} :
          LET head == Drain(sent[s], 0, to)
          IN  \/ Register(s, request[s].branch, head.held)
                 /\ phase' = [phase EXCEPT ![s] = "open"]
              \/ UNCHANGED registry /\ phase' = [phase EXCEPT ![s] = "ending"]
  BY DEF Upgrade
<1>2. phase[s] = "asked" /\ request[s].branch # NoBranch /\ UNCHANGED request
  BY DEF Upgrade, displays
<1> DEFINE held == Drain(sent[s], 0, to).held
<1>3. CASE Register(s, request[s].branch, held) /\ phase' = [phase EXCEPT ![s] = "open"]
  <2> HIDE DEF held
  <2> QED BY <1>2, <1>3, RegisterAgrees
<1>4. CASE UNCHANGED registry /\ phase' = [phase EXCEPT ![s] = "ending"]
  <2>1. phase' \in [Sockets -> Phase]
    BY <1>4 DEF CfdInv, MapTypes, Phase
  <2>2. \A t \in Sockets : phase'[t] = "open" <=> phase[t] = "open"
    BY <1>2, <1>4 DEF CfdInv, MapTypes
  <2>3. request' \in [Sockets -> [branch : Branches \cup {NoBranch}, valid : BOOLEAN]]
    BY <1>2 DEF CfdInv, MapTypes
  <2> QED BY <1>2, <1>4, <2>1, <2>2, <2>3, QuietAgrees
<1> QED BY <1>1, <1>3, <1>4

\* A chunk changes the buffer of a registered socket, or takes the socket out of all maps.
LEMMA DataAgrees ==
    ASSUME CfdInv, NEW s \in Sockets, Data(s)
    PROVE  CfdInv'
<1>1. PICK to \in Cuts(s) :
          LET chunk == Drain(sent[s], received[s] - socketBuffers[s], to)
          IN  \/ /\ socketBuffers' = Put(socketBuffers, s, chunk.held)
                 /\ UNCHANGED <<phase, clients, socketBranches, listening>>
              \/ /\ phase' = [phase EXCEPT ![s] = "ending"]
                 /\ Unregister({s})
  BY DEF Data
<1>2. s \in listening /\ UNCHANGED request
  BY DEF Data, displays
<1> DEFINE held == Drain(sent[s], received[s] - socketBuffers[s], to).held
<1>3. CASE /\ socketBuffers' = Put(socketBuffers, s, held)
           /\ UNCHANGED <<phase, clients, socketBranches, listening>>
  <2> HIDE DEF held
  <2>1. DOMAIN socketBuffers' = DOMAIN socketBuffers
    BY <1>2, <1>3 DEF CfdInv, RegistriesAgree, Put
  <2> QED BY <1>2, <1>3, <2>1 DEF CfdInv, MapTypes, RegistriesAgree
<1>4. CASE phase' = [phase EXCEPT ![s] = "ending"] /\ Unregister({s})
  <2>1. phase' \in [Sockets -> Phase]
    BY <1>4 DEF CfdInv, MapTypes, Phase
  <2>2. \A t \in Sockets : phase'[t] = "open" <=> (phase[t] = "open" /\ t \notin {s})
    BY <1>4 DEF CfdInv, MapTypes
  <2>3. request' \in [Sockets -> [branch : Branches \cup {NoBranch}, valid : BOOLEAN]]
    BY <1>2 DEF CfdInv, MapTypes
  <2>4. {s} \in SUBSET Sockets /\ \A t \in Sockets \ {s} : request'[t] = request[t]
    BY <1>2
  <2> QED BY <1>4, <2>1, <2>2, <2>3, <2>4, UnregisterAgrees
<1> QED BY <1>1, <1>3, <1>4

\* The end of a connection takes its socket out of all maps.
LEMMA EndAgrees ==
    ASSUME CfdInv, NEW s \in Sockets, End(s)
    PROVE  CfdInv'
<1>1. Unregister({s}) /\ {s} \in SUBSET Sockets
  BY DEF End
<1>2. CASE Close({s})
  BY <1>1, <1>2, CloseTypes, UnregisterAgrees
<1>3. CASE phase' = [phase EXCEPT ![s] = "halfOpen"] /\ UNCHANGED displays
  <2>1. phase' \in [Sockets -> Phase]
    BY <1>3 DEF CfdInv, MapTypes, Phase
  <2>2. \A t \in Sockets : phase'[t] = "open" <=> (phase[t] = "open" /\ t \notin {s})
    BY <1>3 DEF CfdInv, MapTypes
  <2>3. request' \in [Sockets -> [branch : Branches \cup {NoBranch}, valid : BOOLEAN]]
    BY <1>3 DEF CfdInv, MapTypes, displays
  <2>4. \A t \in Sockets \ {s} : request'[t] = request[t]
    BY <1>3 DEF displays
  <2> QED BY <1>1, <2>1, <2>2, <2>3, <2>4, UnregisterAgrees
<1> QED BY <1>2, <1>3 DEF End

\* So does an error, unless it empties all maps with the process.
LEMMA ResetAgrees ==
    ASSUME CfdInv, NEW s \in Sockets, Reset(s)
    PROVE  CfdInv'
<1>1. CASE Close({s}) /\ Unregister({s})
  <2>1. {s} \in SUBSET Sockets
    OBVIOUS
  <2> QED BY <1>1, <2>1, CloseTypes, UnregisterAgrees
<1>2. CASE Restart
  BY <1>2, RestartAgrees
<1> QED BY <1>1, <1>2 DEF Reset

\* A publication drops only sockets that are not open.
LEMMA PublishAgrees ==
    ASSUME CfdInv, NEW b \in Branches, PublishCartState(b)
    PROVE  CfdInv'
<1> DEFINE S == clients[b] \ Broadcast(b)
<1>1. Unregister(S) /\ UNCHANGED <<phase, request>>
  BY DEF PublishCartState, displays
<1>2. S \in SUBSET Sockets
  BY DEF CfdInv, MapTypes
<1>3. S = {}
  BY <1>2 DEF CfdInv, RegistriesAgree, Broadcast
<1>4. /\ phase' \in [Sockets -> Phase]
      /\ request' \in [Sockets -> [branch : Branches \cup {NoBranch}, valid : BOOLEAN]]
      /\ \A s \in Sockets \ S : request'[s] = request[s]
  BY <1>1 DEF CfdInv, MapTypes
<1>5. \A s \in Sockets : phase'[s] = "open" <=> (phase[s] = "open" /\ s \notin S)
  BY <1>1, <1>3
<1> HIDE DEF S
<1> QED BY <1>1, <1>2, <1>4, <1>5, UnregisterAgrees

\* Every step keeps the maps agreeing, whoever takes it.
LEMMA NextCfdInv ==
    ASSUME CfdInv, [Next]_cfdVars
    PROVE  CfdInv'
<1>1. ASSUME NEW s \in Sockets, Connect(s)
      PROVE  CfdInv'
  <2>1. /\ phase[s] = "closed"
        /\ phase' = [phase EXCEPT ![s] = "asked"]
        /\ \E asked \in {NoRequest} \cup [branch : Branches, valid : BOOLEAN] :
              request' = [request EXCEPT ![s] = asked]
        /\ UNCHANGED registry
    BY <1>1 DEF Connect
  <2>2. PICK asked \in [branch : Branches \cup {NoBranch}, valid : BOOLEAN] :
            request' = [request EXCEPT ![s] = asked]
    BY <2>1 DEF NoRequest
  <2>3. phase' \in [Sockets -> Phase]
    BY <2>1 DEF CfdInv, MapTypes, Phase
  <2>4. request' \in [Sockets -> [branch : Branches \cup {NoBranch}, valid : BOOLEAN]]
    BY <2>2 DEF CfdInv, MapTypes
  <2>5. \A t \in Sockets : phase'[t] = "open" <=> phase[t] = "open"
    BY <2>1 DEF CfdInv, MapTypes
  <2>6. \A t \in Sockets : phase[t] = "open" => request'[t] = request[t]
    BY <2>1, <2>2 DEF CfdInv, MapTypes
  <2> QED BY <2>1, <2>3, <2>4, <2>5, <2>6, QuietAgrees
<1>2. ASSUME UNCHANGED <<phase, request, registry>>
      PROVE  CfdInv'
  BY <1>2, QuietAgrees DEF CfdInv, MapTypes
<1>3. ASSUME NEW s \in Sockets, Send(s) \/ HangUp(s)
      PROVE  CfdInv'
  BY <1>2, <1>3 DEF Send, HangUp
<1>4. ASSUME NEW s \in Sockets, UpgradeOther(s)
      PROVE  CfdInv'
  <2>1. /\ phase[s] = "asked" /\ phase' = [phase EXCEPT ![s] = "unanswered"]
        /\ UNCHANGED <<request, registry>>
    BY <1>4 DEF UpgradeOther, displays
  <2>2. phase' \in [Sockets -> Phase]
    BY <2>1 DEF CfdInv, MapTypes, Phase
  <2>3. \A t \in Sockets : phase'[t] = "open" <=> phase[t] = "open"
    BY <2>1 DEF CfdInv, MapTypes
  <2> QED BY <2>1, <2>2, <2>3, QuietAgrees DEF CfdInv, MapTypes
<1>5. ASSUME NEW s \in Sockets, UpgradeRefused(s)
      PROVE  CfdInv'
  <2>1. phase[s] = "asked" /\ Close({s}) /\ UNCHANGED registry
    BY <1>5 DEF UpgradeRefused
  <2> QED BY <2>1, CloseTypes, QuietAgrees
<1>6. CASE Stop
  BY <1>6, RestartAgrees DEF Stop
<1>7. CASE UNCHANGED cfdVars
  BY <1>2, <1>7 DEF cfdVars, displays
<1> QED BY <1>1, <1>3, <1>4, <1>5, <1>6, <1>7, UpgradeAgrees, DataAgrees, EndAgrees,
           ResetAgrees, PublishAgrees DEF Next, Serve

\* The maps of the gateway agree in every state, for any number of displays that come,
\* go and break in any order, and any frames and chunks.
THEOREM CfdRegistriesAgree == Spec => []RegistriesAgree
<1>1. CfdInv => RegistriesAgree
  BY DEF CfdInv
<1> QED BY <1>1, InitCfdInv, NextCfdInv, PTL DEF Spec

(***************************************************************************)
(* The bytes that a display sends.                                         *)
(***************************************************************************)

\* A display's header is that of the server but for the mask bit.
LEMMA HeaderShape ==
    ASSUME NEW frame \in DisplayFrame
    PROVE  LET plain == Header(frame.opcode, frame.len)
               header == DisplayHeader(frame)
           IN  /\ plain \in Seq(Nat) /\ header \in Seq(Nat)
               /\ Len(plain) \in {2, 4, 10} /\ Len(header) = Len(plain)
               /\ header[2] = plain[2] + 128
               /\ \A k \in 1 .. Len(plain) : k # 2 => header[k] = plain[k]
<1> DEFINE opcode == frame.opcode
           len == frame.len
           plain == Header(opcode, len)
<1>1. opcode \in 0 .. 15 /\ len \in Nat
  BY DEF DisplayFrame
<1>2. plain \in Seq(Nat) /\ Len(plain) \in {2, 4, 10}
  <2> HIDE DEF opcode, len
  <2>1. CASE len < SevenBitLimit
    BY <1>1, <2>1 DEF Header
  <2>2. CASE ~(len < SevenBitLimit) /\ len < SixteenBitLimit
    <3>1. len \div 256 \in Nat /\ len % 256 \in Nat /\ 128 + opcode \in Nat
      BY <1>1
    <3> QED BY <2>2, <3>1 DEF Header
  <2>3. CASE ~(len < SevenBitLimit) /\ ~(len < SixteenBitLimit)
    <3>1. /\ len \div (256 * SixteenBitLimit) \in Nat
          /\ (len \div SixteenBitLimit) % 256 \in Nat
          /\ (len \div 256) % 256 \in Nat /\ len % 256 \in Nat /\ 128 + opcode \in Nat
      BY <1>1 DEF SixteenBitLimit
    <3> QED BY <2>3, <3>1 DEF Header
  <2> QED BY <2>1, <2>2, <2>3
<1> HIDE DEF plain
<1>3. 2 \in 1 .. Len(plain) /\ plain[2] + 128 \in Nat
  BY <1>2
<1>4. DisplayHeader(frame) = [plain EXCEPT ![2] = plain[2] + 128]
  BY DEF DisplayHeader, plain
<1>5. /\ DisplayHeader(frame) \in Seq(Nat)
      /\ Len(DisplayHeader(frame)) = Len(plain)
      /\ DisplayHeader(frame)[2] = plain[2] + 128
      /\ \A k \in 1 .. Len(plain) : k # 2 => DisplayHeader(frame)[k] = plain[k]
  BY <1>2, <1>3, <1>4, ExceptSeq
<1> QED BY <1>2, <1>5 DEF plain

\* A frame has a size, in which its payload follows on the header and the mask.
LEMMA SizeShape ==
    ASSUME NEW frame \in DisplayFrame
    PROVE  /\ frame.opcode \in 0 .. 15 /\ frame.len \in Nat
           /\ PayloadFrom(frame) \in Nat /\ FrameSize(frame) \in Nat
           /\ Len(DisplayHeader(frame)) \in {2, 4, 10}
           /\ PayloadFrom(frame) = Len(DisplayHeader(frame)) + 4
           /\ FrameSize(frame) = PayloadFrom(frame) + frame.len
           /\ FrameSize(frame) >= 6 /\ Len(DisplayHeader(frame)) <= FrameSize(frame)
<1>1. Len(DisplayHeader(frame)) \in {2, 4, 10}
  BY HeaderShape
<1>2. frame.opcode \in 0 .. 15 /\ frame.len \in Nat
  BY DEF DisplayFrame
<1>3. PICK l \in {2, 4, 10} : l = Len(DisplayHeader(frame))
  BY <1>1
<1>4. PayloadFrom(frame) = l + 4 /\ FrameSize(frame) = (l + 4) + frame.len
  BY <1>3 DEF PayloadFrom, FrameSize
<1>5. l + 4 \in Nat /\ (l + 4) + frame.len \in Nat /\ (l + 4) + frame.len >= 6
      /\ l <= (l + 4) + frame.len
  BY <1>2
<1> QED BY <1>2, <1>3, <1>4, <1>5

\* The bytes that begin with a display's header.
Begins(byte, frame) ==
    \A k \in 0 .. Len(DisplayHeader(frame)) - 1 : byte[k] = DisplayHeader(frame)[k + 1]

\* decodeWebSocketFrame reads a display's frame as it was meant once it is there in
\* full, and nothing before that.
LEMMA MaskedRoundTrip ==
    ASSUME NEW frame \in DisplayFrame, NEW byte, Begins(byte, frame), NEW size \in Nat
    PROVE  Decode(size, byte) =
               IF size < FrameSize(frame) THEN NoFrame
               ELSE [opcode |-> frame.opcode, from |-> PayloadFrom(frame),
                     len |-> frame.len, bytesRead |-> FrameSize(frame)]
<1> DEFINE opcode == frame.opcode
           len == frame.len
           plain == Header(opcode, len)
           header == DisplayHeader(frame)
<1>1. opcode \in 0 .. 15 /\ len \in Nat
  BY DEF DisplayFrame
<1>2. /\ Len(header) \in {2, 4, 10} /\ Len(header) = Len(plain)
      /\ header[2] = plain[2] + 128
      /\ \A k \in 1 .. Len(plain) : k # 2 => header[k] = plain[k]
  BY HeaderShape
<1>3. /\ byte[0] = plain[1] /\ byte[1] = plain[2] + 128
      /\ \A k \in 2 .. Len(plain) - 1 : byte[k] = plain[k + 1]
  <2>1. \A k \in 0 .. Len(header) - 1 : byte[k] = header[k + 1]
    BY DEF Begins
  <2> HIDE DEF header, plain
  <2>2. byte[0] = header[1] /\ byte[1] = header[2]
    <3>1. 0 \in 0 .. Len(header) - 1 /\ 1 \in 0 .. Len(header) - 1
      BY <1>2
    <3> QED BY <2>1, <3>1
  <2>3. 1 \in 1 .. Len(plain) /\ 1 # 2
    BY <1>2
  <2>4. ASSUME NEW k \in 2 .. Len(plain) - 1 PROVE byte[k] = plain[k + 1]
    <3>1. k \in 0 .. Len(header) - 1 /\ k + 1 \in 1 .. Len(plain) /\ k + 1 # 2
      BY <1>2
    <3> QED BY <1>2, <2>1, <3>1
  <2> QED BY <1>2, <2>2, <2>3, <2>4
<1>4. /\ byte[0] % 16 = opcode
      /\ ExtendedBy(byte[1]) = Len(plain) - 2
      /\ MaskLength(byte[1]) = 4
      /\ PayloadLength(byte) = len
  <2> HIDE DEF header, opcode, len
  <2>1. CASE len < SevenBitLimit
    <3>1. Len(plain) = 2 /\ plain[1] = 128 + opcode /\ plain[2] = len
      BY <2>1 DEF Header
    <3>2. byte[0] = 128 + opcode /\ byte[1] = len + 128
      BY <1>3, <3>1
    <3>3. byte[1] % 128 = len /\ byte[1] >= 128 /\ byte[0] % 16 = opcode
      BY <1>1, <2>1, <3>2 DEF SevenBitLimit
    <3>4. ExtendedBy(byte[1]) = 0 /\ MaskLength(byte[1]) = 4
      BY <1>1, <2>1, <3>3 DEF ExtendedBy, MaskLength, SevenBitLimit
    <3> HIDE DEF plain
    <3> QED BY <3>1, <3>3, <3>4 DEF PayloadLength
  <2>2. CASE ~(len < SevenBitLimit) /\ len < SixteenBitLimit
    <3>1. /\ Len(plain) = 4 /\ plain[1] = 128 + opcode /\ plain[2] = 126
          /\ plain[3] = len \div 256 /\ plain[4] = len % 256
      BY <2>2 DEF Header
    <3> HIDE DEF plain
    <3>2. byte[2] = plain[3] /\ byte[3] = plain[4]
      <4>1. 2 \in 2 .. Len(plain) - 1 /\ 3 \in 2 .. Len(plain) - 1
        BY <3>1
      <4> QED BY <1>3, <4>1
    <3>3. byte[0] = 128 + opcode /\ byte[1] = 254
      BY <1>3, <3>1
    <3>4. byte[0] % 16 = opcode
      BY <1>1, <3>3
    <3>5. ExtendedBy(byte[1]) = 2 /\ MaskLength(byte[1]) = 4
      BY <3>3 DEF ExtendedBy, MaskLength
    <3>6. (len \div 256) * 256 + (len % 256) = len
      BY <1>1
    <3>7. PayloadLength(byte) = len
      BY <3>1, <3>2, <3>5, <3>6 DEF PayloadLength
    <3> QED BY <3>1, <3>4, <3>5, <3>7
  <2>3. CASE ~(len < SevenBitLimit) /\ ~(len < SixteenBitLimit)
    <3>1. /\ Len(plain) = 10 /\ plain[1] = 128 + opcode /\ plain[2] = 127
          /\ plain[7] = len \div (256 * SixteenBitLimit)
          /\ plain[8] = (len \div SixteenBitLimit) % 256
          /\ plain[9] = (len \div 256) % 256 /\ plain[10] = len % 256
      BY <2>3 DEF Header
    <3> HIDE DEF plain
    <3>2. byte[6] = plain[7] /\ byte[7] = plain[8] /\ byte[8] = plain[9] /\ byte[9] = plain[10]
      <4>1. \A k \in {6, 7, 8, 9} : k \in 2 .. Len(plain) - 1
        BY <3>1
      <4> QED BY <1>3, <4>1
    <3>3. byte[0] = 128 + opcode /\ byte[1] = 255
      BY <1>3, <3>1
    <3>4. byte[0] % 16 = opcode
      BY <1>1, <3>3
    <3>5. ExtendedBy(byte[1]) = 8 /\ MaskLength(byte[1]) = 4
      BY <3>3 DEF ExtendedBy, MaskLength
    <3>6. ((byte[6] * 256 + byte[7]) * 256 + byte[8]) * 256 + byte[9] = len
      BY <1>1, <3>1, <3>2, LengthInBytes
    <3>7. PayloadLength(byte) = len
      BY <3>5, <3>6 DEF PayloadLength
    <3> QED BY <3>1, <3>4, <3>5, <3>7
  <2> QED BY <2>1, <2>2, <2>3
<1>5. PayloadFrom(frame) = Len(plain) + 4 /\ FrameSize(frame) = Len(plain) + 4 + len
  BY <1>2 DEF PayloadFrom, FrameSize
<1> HIDE DEF plain, header, len, opcode
<1>6. Decode(size, byte) =
          IF size < 2 \/ size < Len(plain) \/ size < Len(plain) + 4 + len THEN NoFrame
          ELSE [opcode |-> opcode, from |-> Len(plain) + 4, len |-> len,
                bytesRead |-> Len(plain) + 4 + len]
  <2>1. 2 + (Len(plain) - 2) = Len(plain) /\ Len(plain) \in Nat
    BY <1>2
  <2> QED BY <1>4, <2>1 DEF Decode, TooShort
<1> QED BY <1>1, <1>2, <1>5, <1>6 DEF opcode, len

\* A sequence of frames, and one frame of it.
LEMMA FrameOf ==
    ASSUME NEW frames \in Seq(DisplayFrame), NEW n \in 1 .. Len(frames)
    PROVE  frames[n] \in DisplayFrame /\ FrameSize(frames[n]) \in Nat /\ FrameSize(frames[n]) >= 6
<1>1. frames[n] \in DisplayFrame
  OBVIOUS
<1> QED BY <1>1, SizeShape

\* The sizes of the frames, by their number.
Sizes(frames) == [n \in DOMAIN frames |-> FrameSize(frames[n])]

\* So FoldTheorems applies to them.
LEMMA SizesAreSummable ==
    ASSUME NEW frames \in Seq(DisplayFrame)
    PROVE  /\ Summable(Sizes(frames)) /\ DOMAIN Sizes(frames) = 1 .. Len(frames)
           /\ \A n \in 1 .. Len(frames) : Sizes(frames)[n] = FrameSize(frames[n])
<1>1. DOMAIN frames = 1 .. Len(frames) /\ Len(frames) \in Nat
  OBVIOUS
<1>2. Sizes(frames) \in [1 .. Len(frames) -> Int]
  BY <1>1, FrameOf DEF Sizes
<1>3. IsFiniteSet(1 .. Len(frames))
  BY <1>1, FS_Interval
<1> QED BY <1>1, <1>2, <1>3 DEF Summable, Sizes

\* A finite set of numbers that is not empty has its maximum.
LEMMA MaxOf ==
    ASSUME NEW S, S \subseteq Int, IsFiniteSet(S), S # {}
    PROVE  Max(S) \in S /\ \A n \in S : Max(S) >= n
<1>1. \E m \in S : \A n \in S : m >= n
  BY GreatestExists
<1> QED BY <1>1, Zenon DEF Max

\* The order in which FoldLeft undoes its sequence.
LastOf(D) == [S \in SUBSET D |-> Max(S)]

\* A frame starts after all those before it.
LEMMA StartIsSum ==
    ASSUME NEW frames \in Seq(DisplayFrame), NEW n \in 1 .. Len(frames) + 1
    PROVE  Start(frames, n) = SumOver(Sizes(frames), 1 .. n - 1)
<1> DEFINE before == SubSeq(frames, 1, n - 1)
           D == DOMAIN before
           pick == LastOf(D)
           val == Sizes(before)
<1>1. /\ n \in Nat /\ n >= 1 /\ Len(frames) \in Nat /\ n - 1 <= Len(frames)
      /\ \A m \in 1 .. Len(frames) : frames[m] \in DisplayFrame
  OBVIOUS
<1>2. /\ before \in Seq(DisplayFrame) /\ Len(before) = n - 1
      /\ \A m \in 1 .. n - 1 : before[m] = frames[m]
  <2>1. \A m \in 1 .. n - 1 : frames[m] \in DisplayFrame
    BY <1>1
  <2>2. /\ before \in Seq(DisplayFrame) /\ Len(before) = IF 1 <= n - 1 THEN n - 1 - 1 + 1 ELSE 0
        /\ \A m \in 1 .. n - 1 - 1 + 1 : before[m] = frames[1 + m - 1]
    BY <1>1, <2>1, SubSeqProperties
  <2> HIDE DEF before
  <2> QED BY <1>1, <2>2
<1>3. D = 1 .. n - 1
  BY <1>2 DEF before
<1>4. IsFiniteSet(D) /\ D \subseteq Int
  BY <1>1, <1>3, FS_Interval
<1> HIDE DEF before
<1>5. Picks(pick, D)
  <2>1. ASSUME NEW S \in SUBSET D, S # {} PROVE pick[S] \in S
    <3>1. IsFiniteSet(S) /\ S \subseteq Int
      BY <1>4, FS_Subset
    <3> QED BY <2>1, <3>1, MaxOf DEF LastOf
  <2> QED BY <2>1 DEF Picks
<1>6. /\ Summable(val) /\ DOMAIN val = D /\ val \in [D -> Int]
      /\ \A m \in D : val[m] = FrameSize(before[m])
  BY <1>2, <1>3, SizesAreSummable DEF Summable
<1> HIDE DEF val, D
<1> DEFINE Body(g) == [S \in SUBSET D |->
              IF S = {} THEN 0 ELSE g[S \ {Max(S)}] + FrameSize(before[Max(S)])]
<1>7. ASSUME NEW g PROVE g = Body(g) <=> SumsTail(g, D, pick, val)
  <2> DEFINE Step(S) == IF S = {} THEN 0 ELSE g[S \ {Max(S)}] + FrameSize(before[Max(S)])
             Less(S) == IF S = {} THEN 0 ELSE g[S \ {pick[S]}] + val[pick[S]]
  <2>1. ASSUME NEW S \in SUBSET D PROVE Step(S) = Less(S)
    <3>1. CASE S = {}
      BY <3>1
    <3>2. CASE S # {}
      <4>1. pick[S] = Max(S) /\ pick[S] \in D
        BY <1>5, <3>2 DEF LastOf, Picks
      <4>2. val[pick[S]] = FrameSize(before[Max(S)])
        BY <1>6, <4>1
      <4> QED BY <3>2, <4>1, <4>2
    <3> QED BY <3>1, <3>2
  <2> HIDE DEF Step, Less
  <2>2. [S \in SUBSET D |-> Step(S)] = [S \in SUBSET D |-> Less(S)]
    BY <2>1
  <2> QED BY <2>2 DEF SumsTail, Step, Less
<1>8. \E g : g = Body(g)
  <2>1. PICK g : IsSum(g, D, pick, val)
    BY <1>4, <1>5, <1>6, SumsExist
  <2>2. SumsTail(g, D, pick, val)
    BY <2>1, SumsTailExist
  <2> QED BY <1>7, <2>2
<1> DEFINE it == CHOOSE g : g = Body(g)
<1>9. it = Body(it)
  <2> HIDE DEF Body
  <2> QED BY <1>8, Zenon
<1>10. Start(frames, n) = it[D]
  BY DEF Start, FoldLeft, MapThenFoldSet, before, D
<1> HIDE DEF it
<1>11. IsSum(it, D, pick, val)
  <2>1. SumsTail(it, D, pick, val)
    BY <1>7, <1>9
  <2> QED BY <1>4, <1>5, <1>6, <2>1, SumsTailAreSums
<1> DEFINE all == Sizes(frames)
<1>12. /\ Summable(all) /\ DOMAIN all = 1 .. Len(frames)
       /\ \A m \in 1 .. Len(frames) : all[m] = FrameSize(frames[m])
  BY SizesAreSummable
<1> HIDE DEF all
<1>13. D \in SUBSET DOMAIN all /\ \A m \in D : all[m] = val[m]
  BY <1>1, <1>2, <1>3, <1>6, <1>12
<1>14. SumOver(all, D) = it[D]
  BY <1>11, <1>12, <1>13, SumOverEquals
<1> QED BY <1>3, <1>10, <1>14 DEF all

\* Where frames start, without sums.
LEMMA StartFirst ==
    ASSUME NEW frames \in Seq(DisplayFrame)
    PROVE  Start(frames, 1) = 0
<1>1. 1 \in 1 .. Len(frames) + 1 /\ 1 .. 1 - 1 = {}
  OBVIOUS
<1> QED BY <1>1, StartIsSum, SizesAreSummable, SumOverTyped

\* A frame starts where the one before it ends.
LEMMA StartNext ==
    ASSUME NEW frames \in Seq(DisplayFrame), NEW n \in 1 .. Len(frames)
    PROVE  /\ Start(frames, n + 1) = Start(frames, n) + FrameSize(frames[n])
           /\ Start(frames, n) \in Int
<1> DEFINE all == Sizes(frames)
<1>1. /\ Summable(all) /\ DOMAIN all = 1 .. Len(frames) /\ all[n] = FrameSize(frames[n])
  BY SizesAreSummable
<1>2. /\ n \in 1 .. Len(frames) + 1 /\ n + 1 \in 1 .. Len(frames) + 1 /\ (n + 1) - 1 = n
      /\ n \in 1 .. n /\ (1 .. n) \ {n} = 1 .. n - 1
      /\ 1 .. n \in SUBSET (1 .. Len(frames)) /\ 1 .. n - 1 \in SUBSET (1 .. Len(frames))
  OBVIOUS
<1>3. Start(frames, n + 1) = SumOver(all, 1 .. n) /\ Start(frames, n) = SumOver(all, 1 .. n - 1)
  BY <1>2, StartIsSum
<1> HIDE DEF all
<1>4. SumOver(all, 1 .. n) = all[n] + SumOver(all, 1 .. n - 1)
  BY <1>1, <1>2, SumOverMember
<1>5. SumOver(all, 1 .. n - 1) \in Int
  BY <1>1, <1>2, SumOverTyped
<1> QED BY <1>1, <1>3, <1>4, <1>5, FrameOf

\* Where frames start does not depend on what is sent after them.
LEMMA StartAppend ==
    ASSUME NEW frames \in Seq(DisplayFrame), NEW frame \in DisplayFrame,
           NEW n \in 1 .. Len(frames) + 1
    PROVE  Start(Append(frames, frame), n) = Start(frames, n)
<1> DEFINE more == Append(frames, frame)
<1>1. /\ more \in Seq(DisplayFrame) /\ Len(more) = Len(frames) + 1
      /\ \A m \in 1 .. Len(frames) : more[m] = frames[m]
  BY AppendProperties
<1>2. /\ n \in 1 .. Len(more) + 1 /\ 1 .. n - 1 \in SUBSET (1 .. Len(frames))
      /\ 1 .. n - 1 \in SUBSET (1 .. Len(more))
  BY <1>1
<1> HIDE DEF more
<1>3. /\ Summable(Sizes(frames)) /\ DOMAIN Sizes(frames) = 1 .. Len(frames)
      /\ Summable(Sizes(more)) /\ DOMAIN Sizes(more) = 1 .. Len(more)
      /\ \A m \in 1 .. n - 1 : Sizes(more)[m] = Sizes(frames)[m]
  BY <1>1, <1>2, SizesAreSummable
<1>4. SumOver(Sizes(more), 1 .. n - 1) = SumOver(Sizes(frames), 1 .. n - 1)
  BY <1>2, <1>3, SumOverSame
<1> QED BY <1>1, <1>2, <1>4, StartIsSum DEF more

\* Frames do not overlap.
LEMMA StartsInOrder ==
    ASSUME NEW frames \in Seq(DisplayFrame)
    PROVE  /\ \A n \in 1 .. Len(frames) + 1 : Start(frames, n) \in Nat
           /\ \A n \in 1 .. Len(frames) + 1 : \A m \in 1 .. n - 1 :
                 Start(frames, m) + FrameSize(frames[m]) <= Start(frames, n)
<1> DEFINE Good(n) == /\ Start(frames, n) \in Nat
                      /\ \A m \in 1 .. n - 1 :
                            Start(frames, m) + FrameSize(frames[m]) <= Start(frames, n)
           N == {k \in Nat : k <= Len(frames) => Good(k + 1)}
<1>1. 0 \in N
  BY StartFirst
<1>2. ASSUME NEW k \in Nat, k \in N PROVE k + 1 \in N
  <2> SUFFICES ASSUME k + 1 <= Len(frames) PROVE Good((k + 1) + 1)
    OBVIOUS
  <2> DEFINE n == k + 1
  <2>1. n \in 1 .. Len(frames) /\ Good(n)
    BY <1>2
  <2>2. /\ Start(frames, n + 1) = Start(frames, n) + FrameSize(frames[n])
        /\ FrameSize(frames[n]) \in Nat
    BY <2>1, StartNext, FrameOf
  <2>3. Start(frames, n + 1) \in Nat
    BY <2>1, <2>2
  <2>4. ASSUME NEW m \in 1 .. (n + 1) - 1
        PROVE  Start(frames, m) + FrameSize(frames[m]) <= Start(frames, n + 1)
    <3>1. CASE m = n
      BY <2>2, <2>3, <3>1
    <3>2. CASE m # n
      <4>1. m \in 1 .. n - 1 /\ m \in 1 .. Len(frames)
        BY <2>1, <2>4, <3>2
      <4>2. Start(frames, m) + FrameSize(frames[m]) <= Start(frames, n)
        BY <2>1, <4>1
      <4>3. Start(frames, m) \in Int /\ FrameSize(frames[m]) \in Nat
        BY <4>1, StartNext, FrameOf
      <4> QED BY <2>1, <2>2, <4>2, <4>3
    <3> QED BY <3>1, <3>2
  <2> QED BY <2>3, <2>4
<1> HIDE DEF N
<1>3. Nat \subseteq N
  BY <1>1, <1>2, InductionOnNaturals
<1>4. ASSUME NEW n \in 1 .. Len(frames) + 1 PROVE Good(n)
  <2>1. n - 1 \in Nat /\ n - 1 <= Len(frames) /\ (n - 1) + 1 = n
    OBVIOUS
  <2>2. Good((n - 1) + 1)
    BY <1>3, <2>1 DEF N
  <2> QED BY <2>1, <2>2
<1> QED BY <1>4

\* The header of a frame is found where the frame starts.
LEMMA HeaderIsThere ==
    ASSUME NEW frames \in Seq(DisplayFrame), NEW n \in 1 .. Len(frames),
           NEW k \in 0 .. Len(DisplayHeader(frames[n])) - 1
    PROVE  ByteAt(frames, Start(frames, n) + k) = DisplayHeader(frames[n])[k + 1]
<1> DEFINE at == Start(frames, n) + k
           inHeader == {m \in 1 .. Len(frames) :
                            at - Start(frames, m) \in 0 .. Len(DisplayHeader(frames[m])) - 1}
<1>1. \A m \in 1 .. Len(frames) :
         /\ Len(DisplayHeader(frames[m])) \in Nat
         /\ Len(DisplayHeader(frames[m])) <= FrameSize(frames[m])
         /\ Start(frames, m) \in Nat /\ FrameSize(frames[m]) \in Nat
  <2> SUFFICES ASSUME NEW m \in 1 .. Len(frames)
               PROVE  /\ Len(DisplayHeader(frames[m])) \in Nat
                      /\ Len(DisplayHeader(frames[m])) <= FrameSize(frames[m])
                      /\ Start(frames, m) \in Nat /\ FrameSize(frames[m]) \in Nat
    OBVIOUS
  <2>1. frames[m] \in DisplayFrame /\ m \in 1 .. Len(frames) + 1
    BY FrameOf
  <2>2. Start(frames, m) \in Nat
    BY <2>1, StartsInOrder
  <2>3. PICK frame : frame = frames[m]
    OBVIOUS
  <2>4. /\ Len(DisplayHeader(frame)) \in {2, 4, 10} /\ FrameSize(frame) \in Nat
        /\ Len(DisplayHeader(frame)) <= FrameSize(frame)
    BY <2>1, <2>3, SizeShape
  <2> QED BY <2>2, <2>3, <2>4
<1>2. at - Start(frames, n) = k
  BY <1>1
<1>3. n \in inHeader
  BY <1>2
<1>4. ASSUME NEW m \in inHeader PROVE m = n
  <2>0. /\ m \in 1 .. Len(frames) /\ at - Start(frames, m) >= 0
        /\ at - Start(frames, m) < Len(DisplayHeader(frames[m]))
    BY <1>1, <1>4
  <2>1. CASE m < n
    <3>1. m \in 1 .. n - 1 /\ n \in 1 .. Len(frames) + 1
      BY <2>0, <2>1
    <3>2. Start(frames, m) + FrameSize(frames[m]) <= Start(frames, n)
      BY <3>1, StartsInOrder
    <3> QED BY <1>1, <2>0, <3>2
  <2>2. CASE n < m
    <3>1. n \in 1 .. m - 1 /\ m \in 1 .. Len(frames) + 1
      BY <2>0, <2>2
    <3>2. Start(frames, n) + FrameSize(frames[n]) <= Start(frames, m)
      BY <3>1, StartsInOrder
    <3> QED BY <1>1, <2>0, <3>2
  <2> QED BY <2>0, <2>1, <2>2
<1>5. inHeader = {n}
  BY <1>3, <1>4
<1>6. (CHOOSE m \in inHeader : TRUE) = n
  BY <1>5
<1> QED BY <1>2, <1>3, <1>6 DEF ByteAt

(***************************************************************************)
(* What the loop of handleSocketData() does to the bytes it has.           *)
(***************************************************************************)

BytesAt(frames, at) == [k \in 0 .. 9 |-> ByteAt(frames, at + k)]

\* Whatever is at a position is a byte.
LEMMA ByteIsNatural ==
    ASSUME NEW frames \in Seq(DisplayFrame), NEW at \in Int
    PROVE  ByteAt(frames, at) \in Nat
<1> DEFINE inHeader == {n \in 1 .. Len(frames) :
                            at - Start(frames, n) \in 0 .. Len(DisplayHeader(frames[n])) - 1}
<1>1. CASE inHeader = {}
  BY <1>1 DEF ByteAt
<1>2. CASE inHeader # {}
  <2>1. PICK n : n = CHOOSE m \in inHeader : TRUE
    OBVIOUS
  <2>2. n \in inHeader
    BY <1>2, <2>1
  <2>3. PICK header : header = DisplayHeader(frames[n])
    OBVIOUS
  <2>4. header \in Seq(Nat)
    BY <2>2, <2>3, FrameOf, HeaderShape
  <2>5. Start(frames, n) \in Int
    BY <2>2, StartNext
  <2>6. (at - Start(frames, n)) + 1 \in 1 .. Len(header)
    BY <2>2, <2>3, <2>4, <2>5
  <2>7. ByteAt(frames, at) = header[(at - Start(frames, n)) + 1]
    BY <1>2, <2>1, <2>3 DEF ByteAt
  <2> QED BY <2>4, <2>6, <2>7
<1> QED BY <1>1, <1>2

\* decodeWebSocketFrame finds nothing, or a frame within the buffer.
LEMMA DecodeMoves ==
    ASSUME NEW byte, \A k \in 0 .. 9 : byte[k] \in Nat, NEW size \in Nat
    PROVE  LET frame == Decode(size, byte)
           IN  frame = NoFrame \/ frame.bytesRead \in 1 .. size
<1>1. byte[0] \in Nat /\ byte[1] \in Nat /\ byte[2] \in Nat /\ byte[3] \in Nat
      /\ byte[6] \in Nat /\ byte[7] \in Nat /\ byte[8] \in Nat /\ byte[9] \in Nat
  OBVIOUS
<1>2. ExtendedBy(byte[1]) \in {0, 2, 8} /\ MaskLength(byte[1]) \in {0, 4}
  BY DEF ExtendedBy, MaskLength
<1>3. PayloadLength(byte) \in Nat
  BY <1>1 DEF PayloadLength
<1>4. PICK from \in Nat : from = 2 + ExtendedBy(byte[1]) + MaskLength(byte[1]) /\ from >= 2
  BY <1>2
<1>5. Decode(size, byte) = NoFrame
      \/ /\ ~(size < from + PayloadLength(byte))
         /\ Decode(size, byte).bytesRead = from + PayloadLength(byte)
  BY <1>4 DEF Decode, TooShort
<1> QED BY <1>3, <1>4, <1>5

\* One turn of the loop, the later ones being given.
Turn(frames, to, f, at) ==
    LET frame == Decode(to - at, BytesAt(frames, at))
        rest == f[at + frame.bytesRead]
    IN  CASE frame = NoFrame -> [writes |-> <<>>, closed |-> FALSE, held |-> to - at]
          [] frame.opcode = CloseOpcode -> Closing(rest)
          [] frame.opcode = PingOpcode ->
                [rest EXCEPT !.writes = <<PongFrame(at + frame.from, frame.len)>> \o @]
          [] OTHER -> rest

\* A turn that finds no frame is the last.
LEMMA TurnOfNone ==
    ASSUME NEW frames, NEW to, NEW f, NEW at,
           Decode(to - at, BytesAt(frames, at)) = NoFrame
    PROVE  Turn(frames, to, f, at) = [writes |-> <<>>, closed |-> FALSE, held |-> to - at]
BY DEF Turn, NoFrame, CloseOpcode, PingOpcode

\* The loop ends, as every turn reads on.
LEMMA LoopExists ==
    ASSUME NEW frames \in Seq(DisplayFrame), NEW from \in Nat, NEW to \in Nat
    PROVE  \E f : f = [at \in from .. to |-> Turn(frames, to, f, at)]
<1> DEFINE Left(n) == {at \in from .. to : to - at <= n}
           N == {n \in Nat : \E f : f = [at \in Left(n) |-> Turn(frames, to, f, at)]}
<1>1. ASSUME NEW at \in from .. to, NEW f, NEW g,
             \A later \in from .. to : at < later => f[later] = g[later]
      PROVE  Turn(frames, to, f, at) = Turn(frames, to, g, at)
  <2>1. PICK frame : frame = Decode(to - at, BytesAt(frames, at))
    OBVIOUS
  <2>2. frame = NoFrame \/ frame.bytesRead \in 1 .. to - at
    <3>1. to - at \in Nat
      OBVIOUS
    <3>2. \A k \in 0 .. 9 : BytesAt(frames, at)[k] \in Nat
      <4>1. ASSUME NEW k \in 0 .. 9 PROVE BytesAt(frames, at)[k] \in Nat
        <5>1. at + k \in Int
          OBVIOUS
        <5> QED BY <5>1, ByteIsNatural DEF BytesAt
      <4> QED BY <4>1
    <3> QED BY <2>1, <3>1, <3>2, DecodeMoves
  <2>3. CASE frame = NoFrame
    BY <2>1, <2>3, TurnOfNone
  <2>4. CASE frame # NoFrame
    <3>1. at + frame.bytesRead \in from .. to /\ at < at + frame.bytesRead
      BY <2>2, <2>4
    <3>2. f[at + frame.bytesRead] = g[at + frame.bytesRead]
      BY <1>1, <3>1
    <3> QED BY <2>1, <3>2 DEF Turn
  <2> QED BY <2>3, <2>4
<1>2. 0 \in N
  <2> DEFINE g == [at \in Left(0) |-> Turn(frames, to, <<>>, at)]
  <2>1. ASSUME NEW at \in Left(0) PROVE Turn(frames, to, <<>>, at) = Turn(frames, to, g, at)
    <3> HIDE DEF g
    <3>1. at \in from .. to /\ \A later \in from .. to : ~(at < later)
      OBVIOUS
    <3> QED BY <1>1, <3>1
  <2>2. g = [at \in Left(0) |-> Turn(frames, to, g, at)]
    <3> HIDE DEF Left
    <3>1. [at \in Left(0) |-> Turn(frames, to, <<>>, at)]
              = [at \in Left(0) |-> Turn(frames, to, g, at)]
      BY <2>1
    <3> QED BY <3>1
  <2> HIDE DEF g, Left
  <2>3. \E f : f = [at \in Left(0) |-> Turn(frames, to, f, at)]
    BY <2>2
  <2> QED BY <2>3
<1>3. ASSUME NEW n \in Nat, n \in N PROVE n + 1 \in N
  <2>1. PICK f : f = [at \in Left(n) |-> Turn(frames, to, f, at)]
    BY <1>3
  <2> DEFINE g == [at \in Left(n + 1) |-> Turn(frames, to, f, at)]
  <2>2. ASSUME NEW at \in Left(n + 1) PROVE Turn(frames, to, f, at) = Turn(frames, to, g, at)
    <3>1. at \in from .. to
      OBVIOUS
    <3>2. ASSUME NEW later \in from .. to, at < later PROVE f[later] = g[later]
      <4>1. later \in Left(n) /\ later \in Left(n + 1)
        BY <3>2
      <4> HIDE DEF Left
      <4>2. f[later] = Turn(frames, to, f, later)
        BY <2>1, <4>1
      <4>3. g[later] = Turn(frames, to, f, later)
        BY <4>1
      <4> QED BY <4>2, <4>3
    <3> HIDE DEF g
    <3> QED BY <1>1, <3>1, <3>2
  <2>3. g = [at \in Left(n + 1) |-> Turn(frames, to, g, at)]
    <3> HIDE DEF Left
    <3>1. [at \in Left(n + 1) |-> Turn(frames, to, f, at)]
              = [at \in Left(n + 1) |-> Turn(frames, to, g, at)]
      BY <2>2
    <3> QED BY <3>1
  <2> HIDE DEF g, Left
  <2>4. \E h : h = [at \in Left(n + 1) |-> Turn(frames, to, h, at)]
    BY <2>3
  <2> QED BY <2>4
<1>4. Nat \subseteq N
  <2> HIDE DEF N
  <2> QED BY <1>2, <1>3, InductionOnNaturals
<1>5. to \in N /\ Left(to) = from .. to
  <2>1. \A at \in from .. to : to - at <= to
    OBVIOUS
  <2> QED BY <1>4, <2>1
<1> HIDE DEF Left
<1>6. \E f : f = [at \in Left(to) |-> Turn(frames, to, f, at)]
  BY <1>5
<1> QED BY <1>5, <1>6

\* The loop is its turns.
LEMMA DrainTurns ==
    ASSUME NEW frames \in Seq(DisplayFrame), NEW from \in Nat, NEW to \in Nat
    PROVE  \E f : /\ Drain(frames, from, to) = f[from]
                  /\ \A at \in from .. to : f[at] = Turn(frames, to, f, at)
<1> DEFINE Body(f) == [at \in from .. to |-> Turn(frames, to, f, at)]
           it == CHOOSE f : f = Body(f)
<1>1. \E f : f = Body(f)
  BY LoopExists
<1>2. it = Body(it)
  <2> HIDE DEF Body
  <2> QED BY <1>1, Zenon
<1>3. Drain(frames, from, to) = it[from]
  BY DEF Drain, Turn, BytesAt
<1> HIDE DEF it
<1>4. \A at \in from .. to : it[at] = Turn(frames, to, it, at)
  BY <1>2
<1> QED BY <1>3, <1>4

(***************************************************************************)
(* What a buffer of whole frames, and perhaps the beginning of one, says.  *)
(***************************************************************************)

PayloadAt(frames, n) ==
    [from |-> Start(frames, n) + PayloadFrom(frames[n]), len |-> frames[n].len]

\* The frames from n on that are there in full, and those of them that call for a pong.
Whole(frames, n, to) == {m \in n .. Len(frames) : Start(frames, m + 1) <= to}

Answerable(frames, n, to) ==
    {m \in Whole(frames, n, to) :
        /\ frames[m].opcode = PingOpcode
        /\ \A i \in n .. m : frames[i].opcode # CloseOpcode}

\* The pongs among some frames of the server, and what they carry.
PongsOf(writes) == {n \in DOMAIN writes : writes[n].opcode = PongOpcode}

Echoes(writes) == {[from |-> writes[n].body, len |-> writes[n].len] : n \in PongsOf(writes)}

Rising(writes) ==
    \A m \in PongsOf(writes) : \A n \in PongsOf(writes) :
        m < n => writes[m].body < writes[n].body

\* Nothing follows a close frame.
CloseIsLast(writes) ==
    \A n \in 1 .. Len(writes) : writes[n].opcode = CloseOpcode => n = Len(writes)

Saying(writes, opcode) == \E n \in 1 .. Len(writes) : writes[n].opcode = opcode

\* Up to `to`, only the beginning of frame k is left.
Boundary(frames, k, at, to) ==
    /\ k \in 1 .. Len(frames) + 1 /\ at = Start(frames, k)
    /\ k <= Len(frames) => to < Start(frames, k + 1)

Drained == [writes : Seq(ServerFrame), closed : BOOLEAN, held : Nat]

\* What the loop makes of the bytes from frame n on.
DrainedFrom(frames, n, to, result) ==
    /\ result \in Drained
    /\ ~Saying(result.writes, TextOpcode)
    /\ CloseIsLast(result.writes)
    /\ Saying(result.writes, CloseOpcode) <=> result.closed
    /\ result.closed <=> \E m \in Whole(frames, n, to) : frames[m].opcode = CloseOpcode
    /\ ~result.closed => \E k \in n .. Len(frames) + 1 : Boundary(frames, k, to - result.held, to)
    /\ Echoes(result.writes) = {PayloadAt(frames, m) : m \in Answerable(frames, n, to)}
    /\ Rising(result.writes)
    /\ \A i \in PongsOf(result.writes) : Start(frames, n) < result.writes[i].body

\* Pongs and others behind one another.
LEMMA JoinedAt ==
    ASSUME NEW a \in Seq(ServerFrame), NEW b \in Seq(ServerFrame), NEW n \in 1 .. Len(a \o b)
    PROVE  \/ n \in 1 .. Len(a) /\ (a \o b)[n] = a[n]
           \/ /\ n - Len(a) \in 1 .. Len(b) /\ n > Len(a)
              /\ (a \o b)[n] = b[n - Len(a)]
<1>1. n \in 1 .. Len(a) + Len(b) /\ (a \o b)[n] = IF n <= Len(a) THEN a[n] ELSE b[n - Len(a)]
  BY ConcatProperties
<1>2. Len(a) \in Nat /\ Len(b) \in Nat
  OBVIOUS
<1> QED BY <1>1, <1>2

\* Either part is found in the whole.
LEMMA JoinedFrom ==
    ASSUME NEW a \in Seq(ServerFrame), NEW b \in Seq(ServerFrame)
    PROVE  /\ a \o b \in Seq(ServerFrame) /\ Len(a \o b) = Len(a) + Len(b)
           /\ \A n \in 1 .. Len(a) : n \in 1 .. Len(a \o b) /\ (a \o b)[n] = a[n]
           /\ \A n \in 1 .. Len(b) : Len(a) + n \in 1 .. Len(a \o b) /\ (a \o b)[Len(a) + n] = b[n]
<1>1. /\ a \o b \in Seq(ServerFrame) /\ Len(a \o b) = Len(a) + Len(b)
      /\ \A i \in 1 .. Len(a) + Len(b) : (a \o b)[i] = IF i <= Len(a) THEN a[i] ELSE b[i - Len(a)]
  BY ConcatProperties
<1>2. Len(a) \in Nat /\ Len(b) \in Nat
  OBVIOUS
<1>3. ASSUME NEW n \in 1 .. Len(a) PROVE n \in 1 .. Len(a \o b) /\ (a \o b)[n] = a[n]
  <2>1. n \in 1 .. Len(a) + Len(b) /\ n <= Len(a)
    BY <1>2
  <2> QED BY <1>1, <2>1
<1>4. ASSUME NEW n \in 1 .. Len(b)
      PROVE  Len(a) + n \in 1 .. Len(a \o b) /\ (a \o b)[Len(a) + n] = b[n]
  <2>1. Len(a) + n \in 1 .. Len(a) + Len(b) /\ ~(Len(a) + n <= Len(a)) /\ (Len(a) + n) - Len(a) = n
    BY <1>2
  <2> QED BY <1>1, <2>1
<1> QED BY <1>1, <1>3, <1>4

\* What the whole says, one of the parts says.
LEMMA JoinedSay ==
    ASSUME NEW a \in Seq(ServerFrame), NEW b \in Seq(ServerFrame), NEW opcode
    PROVE  Saying(a \o b, opcode) <=> Saying(a, opcode) \/ Saying(b, opcode)
<1>1. ASSUME Saying(a \o b, opcode) PROVE Saying(a, opcode) \/ Saying(b, opcode)
  BY <1>1, JoinedAt DEF Saying
<1>2. ASSUME Saying(a, opcode) PROVE Saying(a \o b, opcode)
  BY <1>2, JoinedFrom DEF Saying
<1>3. ASSUME Saying(b, opcode) PROVE Saying(a \o b, opcode)
  <2>1. PICK n \in 1 .. Len(b) : b[n].opcode = opcode
    BY <1>3 DEF Saying
  <2>2. Len(a) + n \in 1 .. Len(a \o b) /\ (a \o b)[Len(a) + n].opcode = opcode
    BY <2>1, JoinedFrom
  <2> QED BY <2>2 DEF Saying
<1> QED BY <1>1, <1>2, <1>3

\* A close frame at the end of the second part is at the end of the whole.
LEMMA JoinedClose ==
    ASSUME NEW a \in Seq(ServerFrame), NEW b \in Seq(ServerFrame),
           ~Saying(a, CloseOpcode), CloseIsLast(b)
    PROVE  CloseIsLast(a \o b)
<1> SUFFICES ASSUME NEW n \in 1 .. Len(a \o b), (a \o b)[n].opcode = CloseOpcode
             PROVE  n = Len(a \o b)
  BY DEF CloseIsLast
<1>1. n - Len(a) \in 1 .. Len(b) /\ (a \o b)[n] = b[n - Len(a)]
  BY JoinedAt DEF Saying
<1>2. n - Len(a) = Len(b)
  BY <1>1 DEF CloseIsLast
<1> QED BY <1>2, JoinedFrom

\* The whole echoes what the parts echo.
LEMMA JoinedEchoes ==
    ASSUME NEW a \in Seq(ServerFrame), NEW b \in Seq(ServerFrame)
    PROVE  Echoes(a \o b) = Echoes(a) \cup Echoes(b)
<1> DEFINE c == a \o b
           Echo(frame) == [from |-> frame.body, len |-> frame.len]
<1>1. DOMAIN a = 1 .. Len(a) /\ DOMAIN b = 1 .. Len(b) /\ DOMAIN c = 1 .. Len(c)
  BY JoinedFrom
<1>2. ASSUME NEW n \in PongsOf(c) PROVE Echo(c[n]) \in Echoes(a) \cup Echoes(b)
  <2>1. n \in 1 .. Len(c) /\ c[n].opcode = PongOpcode
    BY <1>1 DEF PongsOf
  <2>2. CASE n \in 1 .. Len(a) /\ c[n] = a[n]
    <3>1. n \in PongsOf(a)
      BY <1>1, <2>1, <2>2 DEF PongsOf
    <3> QED BY <2>2, <3>1 DEF Echoes
  <2>3. CASE n - Len(a) \in 1 .. Len(b) /\ c[n] = b[n - Len(a)]
    <3>1. n - Len(a) \in PongsOf(b)
      BY <1>1, <2>1, <2>3 DEF PongsOf
    <3> QED BY <2>3, <3>1 DEF Echoes
  <2> QED BY <2>1, <2>2, <2>3, JoinedAt
<1>3. ASSUME NEW n \in PongsOf(a) PROVE Echo(a[n]) \in Echoes(c)
  <2>1. n \in PongsOf(c) /\ c[n] = a[n]
    BY <1>1, <1>3, JoinedFrom DEF PongsOf
  <2> QED BY <2>1 DEF Echoes
<1>4. ASSUME NEW n \in PongsOf(b) PROVE Echo(b[n]) \in Echoes(c)
  <2>1. Len(a) + n \in PongsOf(c) /\ c[Len(a) + n] = b[n]
    BY <1>1, <1>4, JoinedFrom DEF PongsOf
  <2> QED BY <2>1 DEF Echoes
<1> QED BY <1>2, <1>3, <1>4 DEF Echoes

\* The pongs rise through the whole if those of the first part stay below those of the
\* second.
LEMMA JoinedRise ==
    ASSUME NEW a \in Seq(ServerFrame), NEW b \in Seq(ServerFrame), NEW limit \in Int,
           Rising(a), Rising(b),
           \A n \in PongsOf(a) : a[n].body <= limit, \A n \in PongsOf(b) : limit < b[n].body
    PROVE  Rising(a \o b)
<1> DEFINE c == a \o b
<1> SUFFICES ASSUME NEW m \in PongsOf(c), NEW n \in PongsOf(c), m < n
             PROVE  c[m].body < c[n].body
  BY DEF Rising
<1>1. DOMAIN a = 1 .. Len(a) /\ DOMAIN b = 1 .. Len(b) /\ DOMAIN c = 1 .. Len(c)
  BY JoinedFrom
<1>2. ASSUME NEW i \in PongsOf(c)
      PROVE  \/ i \in PongsOf(a) /\ i <= Len(a) /\ c[i] = a[i]
             \/ i - Len(a) \in PongsOf(b) /\ i > Len(a) /\ c[i] = b[i - Len(a)]
  <2>1. i \in 1 .. Len(c) /\ c[i].opcode = PongOpcode
    BY <1>1, <1>2 DEF PongsOf
  <2>2. CASE i \in 1 .. Len(a) /\ c[i] = a[i]
    BY <1>1, <2>1, <2>2 DEF PongsOf
  <2>3. CASE i - Len(a) \in 1 .. Len(b) /\ i > Len(a) /\ c[i] = b[i - Len(a)]
    BY <1>1, <2>1, <2>3 DEF PongsOf
  <2> QED BY <2>1, <2>2, <2>3, JoinedAt
<1>3. /\ m \in Int /\ n \in Int /\ Len(a) \in Int
      /\ \A i \in PongsOf(a) : a[i].body \in Int
      /\ \A i \in PongsOf(b) : b[i].body \in Int
  <2>1. \A frame \in ServerFrame : frame.body \in Int
    BY DEF ServerFrame
  <2>2. /\ \A i \in PongsOf(a) : a[i] \in ServerFrame
        /\ \A i \in PongsOf(b) : b[i] \in ServerFrame
    BY DEF PongsOf
  <2>3. m \in 1 .. Len(c) /\ n \in 1 .. Len(c)
    BY <1>1 DEF PongsOf
  <2>4. m \in Int /\ n \in Int
    BY <2>3
  <2>5. Len(a) \in Int
    OBVIOUS
  <2> HIDE DEF c
  <2>6. \A i \in PongsOf(a) : a[i].body \in Int
    BY <2>1, <2>2
  <2>7. \A i \in PongsOf(b) : b[i].body \in Int
    BY <2>1, <2>2
  <2> QED BY <2>4, <2>5, <2>6, <2>7
<1>4. CASE m \in PongsOf(a) /\ c[m] = a[m] /\ n \in PongsOf(a) /\ c[n] = a[n]
  BY <1>4 DEF Rising
<1>5. CASE m \in PongsOf(a) /\ c[m] = a[m] /\ n - Len(a) \in PongsOf(b) /\ c[n] = b[n - Len(a)]
  BY <1>3, <1>5
<1>6. CASE /\ m - Len(a) \in PongsOf(b) /\ c[m] = b[m - Len(a)]
           /\ n - Len(a) \in PongsOf(b) /\ c[n] = b[n - Len(a)]
  <2>1. m - Len(a) < n - Len(a)
    BY <1>3
  <2> QED BY <1>6, <2>1 DEF Rising
<1>7. CASE m > Len(a) /\ n <= Len(a)
  BY <1>3, <1>7
<1> HIDE DEF c
<1>8. \/ m \in PongsOf(a) /\ c[m] = a[m]
      \/ m - Len(a) \in PongsOf(b) /\ m > Len(a) /\ c[m] = b[m - Len(a)]
  BY <1>2
<1>9. \/ n \in PongsOf(a) /\ n <= Len(a) /\ c[n] = a[n]
      \/ n - Len(a) \in PongsOf(b) /\ c[n] = b[n - Len(a)]
  BY <1>2
<1> QED BY <1>4, <1>5, <1>6, <1>7, <1>8, <1>9

\* The frames that are there in full are the first one and others behind it.
LEMMA WholeIs ==
    ASSUME NEW frames \in Seq(DisplayFrame), NEW to \in Nat, NEW n \in 1 .. Len(frames)
    PROVE  /\ to < Start(frames, n + 1) => Whole(frames, n, to) = {}
           /\ Start(frames, n + 1) <= to =>
                 Whole(frames, n, to) = {n} \cup Whole(frames, n + 1, to)
<1>1. \A m \in 1 .. Len(frames) : Start(frames, m + 1) \in Nat /\ m + 1 \in 1 .. Len(frames) + 1
  BY StartsInOrder
<1>2. ASSUME NEW m \in n .. Len(frames) PROVE Start(frames, n + 1) <= Start(frames, m + 1)
  <2>1. CASE m = n
    BY <1>1, <2>1
  <2>2. CASE m # n
    <3>1. n + 1 \in 1 .. (m + 1) - 1 /\ m + 1 \in 1 .. Len(frames) + 1 /\ n + 1 \in 1 .. Len(frames)
      BY <1>2, <2>2
    <3>2. Start(frames, n + 1) + FrameSize(frames[n + 1]) <= Start(frames, m + 1)
      BY <3>1, StartsInOrder
    <3>3. /\ FrameSize(frames[n + 1]) \in Nat /\ Start(frames, n + 1) \in Nat
          /\ Start(frames, m + 1) \in Nat
      BY <1>1, <3>1, FrameOf
    <3> QED BY <3>2, <3>3
  <2> QED BY <2>1, <2>2
<1>3. ASSUME to < Start(frames, n + 1), NEW m \in Whole(frames, n, to) PROVE FALSE
  <2>1. m \in n .. Len(frames) /\ Start(frames, m + 1) <= to /\ m \in 1 .. Len(frames)
    BY <1>3 DEF Whole
  <2> QED BY <1>1, <1>2, <1>3, <2>1
<1>4. n .. Len(frames) = {n} \cup ((n + 1) .. Len(frames))
  OBVIOUS
<1> QED BY <1>3, <1>4 DEF Whole

\* Unless it is a close frame, those that call for a pong are it and others behind it.
LEMMA AnswerableIs ==
    ASSUME NEW frames \in Seq(DisplayFrame), NEW to \in Nat, NEW n \in 1 .. Len(frames),
           Start(frames, n + 1) <= to
    PROVE  /\ frames[n].opcode = CloseOpcode => Answerable(frames, n, to) = {}
           /\ frames[n].opcode # CloseOpcode =>
                 Answerable(frames, n, to) =
                     {m \in {n} : frames[m].opcode = PingOpcode} \cup Answerable(frames, n + 1, to)
<1>1. Whole(frames, n, to) = {n} \cup Whole(frames, n + 1, to)
  BY WholeIs
<1>2. \A m \in Whole(frames, n, to) : m \in n .. Len(frames) /\ n \in n .. m
  BY DEF Whole
<1>3. \A m \in n .. Len(frames) : n .. m = {n} \cup ((n + 1) .. m)
  OBVIOUS
<1>4. frames[n].opcode = CloseOpcode => Answerable(frames, n, to) = {}
  BY <1>2 DEF Answerable
<1>5. ASSUME frames[n].opcode # CloseOpcode, NEW m
      PROVE  m \in Answerable(frames, n, to) <=>
                 \/ m = n /\ frames[n].opcode = PingOpcode
                 \/ m \in Answerable(frames, n + 1, to)
  <2>1. CASE m = n
    <3>1. n \in Whole(frames, n, to) /\ n .. n = {n} /\ n \notin Whole(frames, n + 1, to)
      BY <1>1 DEF Whole
    <3> QED BY <1>5, <2>1, <3>1 DEF Answerable
  <2>2. CASE m # n
    <3>1. m \in Whole(frames, n, to) <=> m \in Whole(frames, n + 1, to)
      BY <1>1, <2>2
    <3>2. m \in Whole(frames, n, to) => n .. m = {n} \cup ((n + 1) .. m)
      BY <1>2, <1>3
    <3> QED BY <1>5, <2>2, <3>1, <3>2 DEF Answerable
  <2> QED BY <2>1, <2>2
<1>6. ASSUME frames[n].opcode # CloseOpcode
      PROVE  Answerable(frames, n, to) =
                 {m \in {n} : frames[m].opcode = PingOpcode} \cup Answerable(frames, n + 1, to)
  BY <1>5, <1>6
<1> QED BY <1>4, <1>6

\* Where a frame starts, it is read once it is there in full.
LEMMA ReadAtStart ==
    ASSUME NEW frames \in Seq(DisplayFrame), NEW n \in 1 .. Len(frames), NEW to \in Nat,
           Start(frames, n) <= to
    PROVE  LET at == Start(frames, n)
           IN  Decode(to - at, BytesAt(frames, at)) =
                   IF to < Start(frames, n + 1) THEN NoFrame
                   ELSE [opcode |-> frames[n].opcode, from |-> PayloadFrom(frames[n]),
                         len |-> frames[n].len, bytesRead |-> FrameSize(frames[n])]
<1> DEFINE at == Start(frames, n)
<1>1. /\ at \in Nat /\ Start(frames, n + 1) = at + FrameSize(frames[n])
      /\ FrameSize(frames[n]) \in Nat /\ frames[n] \in DisplayFrame
  <2>1. n \in 1 .. Len(frames) + 1
    OBVIOUS
  <2> QED BY <2>1, StartsInOrder, StartNext, FrameOf
<1>2. Begins(BytesAt(frames, at), frames[n])
  <2> SUFFICES ASSUME NEW k \in 0 .. Len(DisplayHeader(frames[n])) - 1
               PROVE  BytesAt(frames, at)[k] = DisplayHeader(frames[n])[k + 1]
    BY DEF Begins
  <2>1. PICK l \in {2, 4, 10} : l = Len(DisplayHeader(frames[n]))
    BY <1>1, SizeShape
  <2>2. k \in 0 .. 9
    <3>1. k \in 0 .. l - 1
      BY <2>1
    <3> QED BY <3>1
  <2>3. BytesAt(frames, at)[k] = ByteAt(frames, at + k)
    BY <2>2 DEF BytesAt
  <2> QED BY <2>3, HeaderIsThere
<1>3. to - at \in Nat /\ (to - at < FrameSize(frames[n]) <=> to < Start(frames, n + 1))
  BY <1>1
<1> HIDE DEF at
<1>4. Decode(to - at, BytesAt(frames, at)) =
          IF to - at < FrameSize(frames[n]) THEN NoFrame
          ELSE [opcode |-> frames[n].opcode, from |-> PayloadFrom(frames[n]),
                len |-> frames[n].len, bytesRead |-> FrameSize(frames[n])]
  BY <1>1, <1>2, <1>3, MaskedRoundTrip
<1> QED BY <1>3, <1>4 DEF at

\* Nothing is read of less than a frame.
LEMMA LoopStops ==
    ASSUME NEW frames \in Seq(DisplayFrame), NEW to \in Nat, NEW n \in 1 .. Len(frames) + 1,
           Start(frames, n) <= to, n <= Len(frames) => to < Start(frames, n + 1)
    PROVE  DrainedFrom(frames, n, to,
                       [writes |-> <<>>, closed |-> FALSE, held |-> to - Start(frames, n)])
<1> DEFINE result == [writes |-> <<>>, closed |-> FALSE, held |-> to - Start(frames, n)]
<1>1. Start(frames, n) \in Nat
  BY StartsInOrder
<1>2. Whole(frames, n, to) = {}
  <2>1. CASE n <= Len(frames)
    BY <2>1, WholeIs
  <2>2. CASE n = Len(frames) + 1
    BY <2>2 DEF Whole
  <2> QED BY <2>1, <2>2
<1>3. result \in Drained
  <2>1. to - Start(frames, n) \in Nat /\ <<>> \in Seq(ServerFrame)
    BY <1>1
  <2> QED BY <2>1 DEF Drained
<1>4. /\ result.writes = <<>> /\ result.closed = FALSE /\ to - result.held = Start(frames, n)
      /\ DOMAIN result.writes = {} /\ 1 .. Len(result.writes) = {}
  BY <1>1
<1> HIDE DEF result
<1>5. PongsOf(result.writes) = {}
  BY <1>4 DEF PongsOf
<1>6. Boundary(frames, n, to - result.held, to) /\ n \in n .. Len(frames) + 1
  BY <1>4 DEF Boundary
<1>7. Answerable(frames, n, to) = {}
  BY <1>2 DEF Answerable
<1>8. Echoes(result.writes) = {PayloadAt(frames, m) : m \in Answerable(frames, n, to)}
  BY <1>5, <1>7 DEF Echoes
<1>9. ~Saying(result.writes, TextOpcode) /\ ~Saying(result.writes, CloseOpcode)
      /\ CloseIsLast(result.writes)
  BY <1>4 DEF Saying, CloseIsLast
<1>10. DrainedFrom(frames, n, to, result)
  BY <1>2, <1>3, <1>4, <1>5, <1>6, <1>8, <1>9 DEF DrainedFrom, Rising
<1> QED BY <1>10 DEF result

\* A close frame is answered, and that is that.
LEMMA LoopCloses ==
    ASSUME NEW frames \in Seq(DisplayFrame), NEW to \in Nat, NEW n \in 1 .. Len(frames),
           Start(frames, n + 1) <= to, frames[n].opcode = CloseOpcode, NEW rest
    PROVE  DrainedFrom(frames, n, to, Closing(rest))
<1> DEFINE result == Closing(rest)
<1>1. CloseFrame \in ServerFrame /\ CloseFrame.opcode = CloseOpcode
  BY DEF CloseFrame, Frame, ServerFrame, CloseOpcode
<1>2. /\ result \in Drained /\ result.closed = TRUE /\ result.writes = <<CloseFrame>>
      /\ Len(result.writes) = 1 /\ DOMAIN result.writes = {1} /\ result.writes[1] = CloseFrame
  <2>1. <<CloseFrame>> \in Seq(ServerFrame)
    BY <1>1
  <2> QED BY <2>1 DEF Closing, Drained
<1> HIDE DEF result
<1>3. CloseOpcode # TextOpcode /\ CloseOpcode # PongOpcode
  BY DEF CloseOpcode, TextOpcode, PongOpcode
<1>4. PongsOf(result.writes) = {}
  BY <1>1, <1>2, <1>3 DEF PongsOf
<1>5. 1 .. Len(result.writes) = {1}
  BY <1>2
<1>6. /\ ~Saying(result.writes, TextOpcode) /\ Saying(result.writes, CloseOpcode)
      /\ CloseIsLast(result.writes)
  BY <1>1, <1>2, <1>3, <1>5 DEF Saying, CloseIsLast
<1>7. Whole(frames, n, to) = {n} \cup Whole(frames, n + 1, to)
  BY WholeIs
<1>8. Answerable(frames, n, to) = {}
  BY AnswerableIs
<1>9. Echoes(result.writes) = {PayloadAt(frames, m) : m \in Answerable(frames, n, to)}
  BY <1>4, <1>8 DEF Echoes
<1>10. DrainedFrom(frames, n, to, result)
  BY <1>2, <1>4, <1>6, <1>7, <1>9 DEF DrainedFrom, Rising
<1> QED BY <1>10 DEF result

\* A ping is answered ahead of the rest; other frames are passed over.
LEMMA LoopGoesOn ==
    ASSUME NEW frames \in Seq(DisplayFrame), NEW to \in Nat, NEW n \in 1 .. Len(frames),
           Start(frames, n + 1) <= to, frames[n].opcode # CloseOpcode,
           NEW rest, DrainedFrom(frames, n + 1, to, rest), NEW result, result \in Drained,
           result.closed = rest.closed, result.held = rest.held,
           NEW pongs \in Seq(ServerFrame), result.writes = pongs \o rest.writes,
           \A i \in 1 .. Len(pongs) : pongs[i].opcode = PongOpcode,
           Rising(pongs),
           Echoes(pongs)
               = {PayloadAt(frames, m) : m \in {m \in {n} : frames[m].opcode = PingOpcode}}
    PROVE  DrainedFrom(frames, n, to, result)
<1> DEFINE later == rest.writes
<1>1. later \in Seq(ServerFrame) /\ pongs \in Seq(ServerFrame)
  BY DEF DrainedFrom, Drained
<1>2. CloseOpcode # PongOpcode /\ TextOpcode # PongOpcode
  BY DEF CloseOpcode, TextOpcode, PongOpcode
<1>3. ~Saying(pongs, CloseOpcode) /\ ~Saying(pongs, TextOpcode)
  BY <1>2 DEF Saying
<1>4. /\ ~Saying(result.writes, TextOpcode)
      /\ Saying(result.writes, CloseOpcode) <=> result.closed
  BY <1>1, <1>3, JoinedSay DEF DrainedFrom
<1>5. CloseIsLast(result.writes)
  BY <1>1, <1>3, JoinedClose DEF DrainedFrom
<1>6. Whole(frames, n, to) = {n} \cup Whole(frames, n + 1, to)
  BY WholeIs
<1>7. result.closed <=> \E m \in Whole(frames, n, to) : frames[m].opcode = CloseOpcode
  BY <1>6 DEF DrainedFrom
<1>8. ~result.closed => \E k \in n .. Len(frames) + 1 : Boundary(frames, k, to - result.held, to)
  <2>1. \A k \in (n + 1) .. Len(frames) + 1 : k \in n .. Len(frames) + 1
    OBVIOUS
  <2> QED BY <2>1 DEF DrainedFrom
<1>9. Echoes(result.writes) = {PayloadAt(frames, m) : m \in Answerable(frames, n, to)}
  <2>1. Echoes(result.writes) = Echoes(pongs) \cup Echoes(later)
    BY <1>1, JoinedEchoes
  <2>2. Echoes(later) = {PayloadAt(frames, m) : m \in Answerable(frames, n + 1, to)}
    BY DEF DrainedFrom
  <2>3. Answerable(frames, n, to) =
            {m \in {n} : frames[m].opcode = PingOpcode} \cup Answerable(frames, n + 1, to)
    BY AnswerableIs
  <2> QED BY <2>1, <2>2, <2>3
<1>10. /\ Start(frames, n) \in Nat /\ Start(frames, n + 1) \in Nat
       /\ Start(frames, n) < Start(frames, n + 1)
       /\ Start(frames, n) < PayloadAt(frames, n).from
       /\ PayloadAt(frames, n).from <= Start(frames, n + 1)
  <2>1. n \in 1 .. Len(frames) + 1 /\ n + 1 \in 1 .. Len(frames) + 1
    OBVIOUS
  <2>2. PICK frame \in DisplayFrame : frame = frames[n]
    BY FrameOf
  <2>3. Start(frames, n + 1) = Start(frames, n) + FrameSize(frame)
    BY <2>2, StartNext
  <2>4. Start(frames, n) \in Nat /\ Start(frames, n + 1) \in Nat
    BY <2>1, StartsInOrder
  <2>5. PayloadAt(frames, n).from = Start(frames, n) + PayloadFrom(frame)
    BY <2>2 DEF PayloadAt
  <2>6. /\ FrameSize(frame) \in Nat /\ PayloadFrom(frame) \in Nat
        /\ PayloadFrom(frame) > 0 /\ PayloadFrom(frame) <= FrameSize(frame)
    <3>1. PICK l \in {2, 4, 10} : l = Len(DisplayHeader(frame))
      BY SizeShape
    <3>2. PayloadFrom(frame) = l + 4 /\ FrameSize(frame) = (l + 4) + frame.len /\ frame.len \in Nat
      BY <3>1, SizeShape
    <3> QED BY <3>2
  <2> QED BY <2>3, <2>4, <2>5, <2>6
<1>11. \A i \in PongsOf(pongs) : pongs[i].body = PayloadAt(frames, n).from
  <2>1. ASSUME NEW i \in PongsOf(pongs) PROVE pongs[i].body = PayloadAt(frames, n).from
    <3>1. [from |-> pongs[i].body, len |-> pongs[i].len] \in Echoes(pongs)
      BY <2>1 DEF Echoes
    <3>2. [from |-> pongs[i].body, len |-> pongs[i].len] = PayloadAt(frames, n)
      BY <3>1
    <3> QED BY <3>2
  <2> QED BY <2>1
<1>12. \A i \in PongsOf(later) : Start(frames, n + 1) < later[i].body
  BY DEF DrainedFrom
<1>13. Rising(result.writes)
  <2>1. \A i \in PongsOf(pongs) : pongs[i].body <= Start(frames, n + 1)
    BY <1>10, <1>11
  <2>2. Rising(later) /\ Start(frames, n + 1) \in Int
    BY <1>10 DEF DrainedFrom
  <2> QED BY <1>1, <1>12, <2>1, <2>2, JoinedRise
<1>14. ASSUME NEW i \in PongsOf(result.writes) PROVE Start(frames, n) < result.writes[i].body
  <2>1. [from |-> result.writes[i].body, len |-> result.writes[i].len]
            \in Echoes(pongs) \cup Echoes(later)
    <3>1. [from |-> result.writes[i].body, len |-> result.writes[i].len] \in Echoes(result.writes)
      BY <1>14 DEF Echoes
    <3> QED BY <1>1, <3>1, JoinedEchoes
  <2>2. PICK j : \/ j \in PongsOf(pongs) /\ result.writes[i].body = pongs[j].body
                 \/ j \in PongsOf(later) /\ result.writes[i].body = later[j].body
    BY <2>1 DEF Echoes
  <2>3. CASE j \in PongsOf(pongs) /\ result.writes[i].body = pongs[j].body
    BY <1>10, <1>11, <2>3
  <2>4. CASE j \in PongsOf(later) /\ result.writes[i].body = later[j].body
    <3>1. later[j] \in ServerFrame
      BY <1>1, <2>4 DEF PongsOf
    <3>2. later[j].body \in Int
      BY <3>1 DEF ServerFrame
    <3> QED BY <1>10, <1>12, <2>4, <3>2
  <2> QED BY <2>2, <2>3, <2>4
<1> QED BY <1>4, <1>5, <1>7, <1>8, <1>9, <1>13, <1>14 DEF DrainedFrom

\* The loop of handleSocketData, begun where a frame begins and wherever the chunk ends,
\* answers the pings up to the first close frame, in order, says goodbye if there is one,
\* and otherwise keeps what has arrived of the last frame.
THEOREM DrainSound ==
    ASSUME NEW frames \in Seq(DisplayFrame), NEW to \in Nat, to <= Total(frames),
           NEW first \in 1 .. Len(frames) + 1, Start(frames, first) <= to
    PROVE  DrainedFrom(frames, first, to, Drain(frames, Start(frames, first), to))
<1> DEFINE from == Start(frames, first)
<1>1. from \in Nat
  BY StartsInOrder
<1>2. PICK f : /\ Drain(frames, from, to) = f[from]
               /\ \A at \in from .. to : f[at] = Turn(frames, to, f, at)
  BY <1>1, DrainTurns
<1> HIDE DEF from
<1> DEFINE Good(n) == (from <= Start(frames, n) /\ Start(frames, n) <= to)
                          => DrainedFrom(frames, n, to, f[Start(frames, n)])
           N == {k \in Nat : k <= Len(frames) => Good(Len(frames) + 1 - k)}
<1>3. ASSUME NEW n \in 1 .. Len(frames) + 1, n <= Len(frames) => Good(n + 1)
      PROVE  Good(n)
  <2> SUFFICES ASSUME from <= Start(frames, n), Start(frames, n) <= to
               PROVE  DrainedFrom(frames, n, to, f[Start(frames, n)])
    OBVIOUS
  <2> DEFINE at == Start(frames, n)
  <2>1. at \in Nat /\ at \in from .. to
    BY <1>1, StartsInOrder
  <2>2. f[at] = Turn(frames, to, f, at)
    BY <1>2, <2>1
  <2>3. PICK frame : frame = Decode(to - at, BytesAt(frames, at))
    OBVIOUS
  <2>4. CASE n <= Len(frames) => to < Start(frames, n + 1)
    <3>1. frame = NoFrame
      <4>1. CASE n <= Len(frames)
        <5>1. n \in 1 .. Len(frames)
          BY <4>1
        <5> QED BY <2>3, <2>4, <4>1, <5>1, ReadAtStart
      <4>2. CASE n = Len(frames) + 1
        <5>1. to - at < 2
          BY <2>1, <4>2 DEF Total
        <5> QED BY <2>3, <5>1 DEF Decode
      <4> QED BY <4>1, <4>2
    <3>2. f[at] = [writes |-> <<>>, closed |-> FALSE, held |-> to - at]
      BY <2>2, <2>3, <3>1, TurnOfNone
    <3> QED BY <2>4, <3>2, LoopStops
  <2>5. CASE n <= Len(frames) /\ ~(to < Start(frames, n + 1))
    <3>1. n \in 1 .. Len(frames) /\ n + 1 \in 1 .. Len(frames) + 1
      BY <2>5
    <3>2. /\ Start(frames, n + 1) \in Nat /\ Start(frames, n + 1) <= to
          /\ Start(frames, n + 1) = at + FrameSize(frames[n]) /\ FrameSize(frames[n]) \in Nat
          /\ from <= Start(frames, n + 1)
      <4>1. Start(frames, n + 1) \in Nat
        BY <3>1, StartsInOrder
      <4>2. Start(frames, n + 1) = at + FrameSize(frames[n]) /\ FrameSize(frames[n]) \in Nat
        BY <3>1, StartNext, FrameOf
      <4> QED BY <1>1, <2>1, <2>5, <4>1, <4>2
    <3>3. frame = [opcode |-> frames[n].opcode, from |-> PayloadFrom(frames[n]),
                   len |-> frames[n].len, bytesRead |-> FrameSize(frames[n])]
      BY <2>3, <2>5, <3>1, ReadAtStart
    <3>4. PICK rest : rest = f[Start(frames, n + 1)]
      OBVIOUS
    <3>5. DrainedFrom(frames, n + 1, to, rest)
      BY <1>3, <3>1, <3>2, <3>4
    <3>6. frames[n].opcode \in 0 .. 15 /\ frame # NoFrame /\ frame.opcode = frames[n].opcode
      <4>1. frames[n].opcode \in 0 .. 15
        BY <3>1, FrameOf, SizeShape
      <4>2. frame.opcode = frames[n].opcode
        BY <3>3
      <4>3. NoFrame.opcode \notin 0 .. 15
        BY DEF NoFrame
      <4> QED BY <4>1, <4>2, <4>3
    <3>7. rest = f[at + frame.bytesRead]
      BY <3>2, <3>3, <3>4
    <3> HIDE DEF at
    <3>8. /\ (frame.opcode = CloseOpcode => Turn(frames, to, f, at) = Closing(rest))
          /\ (frame.opcode = PingOpcode =>
                 Turn(frames, to, f, at) =
                     [rest EXCEPT !.writes = <<PongFrame(at + frame.from, frame.len)>> \o @])
          /\ (frame.opcode \notin {CloseOpcode, PingOpcode} => Turn(frames, to, f, at) = rest)
      <4>1. CloseOpcode # PingOpcode
        BY DEF CloseOpcode, PingOpcode
      <4> QED BY <2>3, <3>6, <3>7, <4>1 DEF Turn
    <3> USE DEF at
    <3>9. CASE frames[n].opcode = CloseOpcode
      <4>1. f[at] = Closing(rest)
        BY <2>2, <3>6, <3>9, <3>8
      <4> QED BY <3>1, <3>2, <3>9, <4>1, LoopCloses
    <3>10. CASE frames[n].opcode = PingOpcode
      <4> DEFINE pong == PongFrame(at + PayloadFrom(frames[n]), frames[n].len)
      <4>1. f[at] = [rest EXCEPT !.writes = <<pong>> \o @]
        <5>1. frame.from = PayloadFrom(frames[n]) /\ frame.len = frames[n].len
          BY <3>3
        <5> QED BY <2>2, <3>6, <3>10, <3>8, <5>1
      <4>2. /\ pong \in ServerFrame /\ pong.opcode = PongOpcode
            /\ [from |-> pong.body, len |-> pong.len] = PayloadAt(frames, n)
        <5>1. PayloadFrom(frames[n]) \in Nat /\ frames[n].len \in Nat
          BY <3>1, FrameOf, SizeShape
        <5>2. at + PayloadFrom(frames[n]) \in Nat
          BY <2>1, <5>1
        <5>3. pong \in ServerFrame
          BY <5>1, <5>2 DEF PongFrame, Frame, ServerFrame
        <5>4. pong.opcode = PongOpcode
          BY DEF PongFrame, Frame
        <5>5. [from |-> pong.body, len |-> pong.len] = PayloadAt(frames, n)
          BY DEF PongFrame, Frame, PayloadAt
        <5> QED BY <5>3, <5>4, <5>5
      <4> HIDE DEF pong
      <4> DEFINE pongs == <<pong>>
      <4>3. /\ pongs \in Seq(ServerFrame) /\ Len(pongs) = 1 /\ pongs[1] = pong
            /\ DOMAIN pongs = {1}
        BY <4>2
      <4> HIDE DEF pongs
      <4>4. rest \in Drained
        BY <3>5 DEF DrainedFrom
      <4>5. /\ f[at] \in Drained /\ f[at].closed = rest.closed /\ f[at].held = rest.held
            /\ f[at].writes = pongs \o rest.writes
        <5>1. rest.writes \in Seq(ServerFrame)
          BY <4>4 DEF Drained
        <5>2. pongs \o rest.writes \in Seq(ServerFrame)
          BY <4>3, <5>1, ConcatProperties
        <5>3. f[at] = [rest EXCEPT !.writes = pongs \o @]
          BY <4>1 DEF pongs
        <5> QED BY <4>4, <5>2, <5>3 DEF Drained
      <4>6. PongsOf(pongs) = {1} /\ 1 .. Len(pongs) = {1}
        BY <4>2, <4>3 DEF PongsOf
      <4>7. Echoes(pongs)
                = {PayloadAt(frames, m) : m \in {m \in {n} : frames[m].opcode = PingOpcode}}
        BY <3>10, <4>2, <4>3, <4>6 DEF Echoes
      <4>8. Rising(pongs) /\ \A i \in 1 .. Len(pongs) : pongs[i].opcode = PongOpcode
        BY <4>2, <4>3, <4>6 DEF Rising
      <4>9. frames[n].opcode # CloseOpcode
        BY <3>10 DEF PingOpcode, CloseOpcode
      <4> QED BY <3>1, <3>2, <3>5, <4>3, <4>5, <4>7, <4>8, <4>9, LoopGoesOn
    <3>11. CASE frames[n].opcode \notin {CloseOpcode, PingOpcode}
      <4>1. f[at] = rest
        BY <2>2, <3>6, <3>11, <3>8
      <4>2. rest \in Drained /\ rest.writes \in Seq(ServerFrame)
        BY <3>5 DEF DrainedFrom, Drained
      <4> DEFINE pongs == <<>>
      <4>3. /\ pongs \in Seq(ServerFrame) /\ 1 .. Len(pongs) = {} /\ DOMAIN pongs = {}
            /\ rest.writes = pongs \o rest.writes
        BY <4>2, ConcatEmptySeq
      <4> HIDE DEF pongs
      <4>4. PongsOf(pongs) = {}
        BY <4>3 DEF PongsOf
      <4>5. Echoes(pongs)
                = {PayloadAt(frames, m) : m \in {m \in {n} : frames[m].opcode = PingOpcode}}
        BY <3>11, <4>4 DEF Echoes
      <4>6. Rising(pongs) /\ \A i \in 1 .. Len(pongs) : pongs[i].opcode = PongOpcode
        BY <4>3, <4>4 DEF Rising
      <4>7. frames[n].opcode # CloseOpcode
        BY <3>11
      <4>8. DrainedFrom(frames, n, to, rest)
        BY <3>1, <3>2, <3>5, <4>2, <4>3, <4>5, <4>6, <4>7, LoopGoesOn
      <4> QED BY <4>1, <4>8
    <3> QED BY <3>9, <3>10, <3>11
  <2> QED BY <2>4, <2>5
<1>4. 0 \in N
  <2>1. Len(frames) + 1 \in 1 .. Len(frames) + 1 /\ Len(frames) + 1 - 0 = Len(frames) + 1
        /\ ~(Len(frames) + 1 <= Len(frames))
    OBVIOUS
  <2> HIDE DEF Good
  <2> QED BY <1>3, <2>1
<1>5. ASSUME NEW k \in Nat, k \in N PROVE k + 1 \in N
  <2> SUFFICES ASSUME k + 1 <= Len(frames) PROVE Good(Len(frames) + 1 - (k + 1))
    OBVIOUS
  <2>1. PICK n \in 1 .. Len(frames) : n = Len(frames) + 1 - (k + 1) /\ n + 1 = Len(frames) + 1 - k
    OBVIOUS
  <2> HIDE DEF Good
  <2>2. Good(n + 1)
    BY <1>5, <2>1
  <2>3. n \in 1 .. Len(frames) + 1
    OBVIOUS
  <2> QED BY <1>3, <2>1, <2>2, <2>3
<1>6. Nat \subseteq N
  <2> HIDE DEF N
  <2> QED BY <1>4, <1>5, InductionOnNaturals
<1>7. Good(first)
  <2>1. PICK k \in Nat : k <= Len(frames) /\ Len(frames) + 1 - k = first
    <3>1. Len(frames) + 1 - first \in Nat /\ Len(frames) + 1 - first <= Len(frames)
          /\ Len(frames) + 1 - (Len(frames) + 1 - first) = first
      OBVIOUS
    <3> QED BY <3>1
  <2> HIDE DEF Good
  <2> QED BY <1>6, <2>1
<1> QED BY <1>1, <1>2, <1>7 DEF from

(***************************************************************************)
(* The conversation with a display.                                        *)
(***************************************************************************)

\* What waits in the buffer of s is the beginning of frame k, and nothing before that
\* was a close frame.
AtFrame(s, k) ==
    /\ Boundary(sent[s], k, received[s] - socketBuffers[s], received[s])
    /\ \A m \in 1 .. k - 1 : sent[s][m].opcode # CloseOpcode

\* Where the server is with s while it listens to it.
Attends(s) ==
    /\ socketBuffers[s] \in 0 .. received[s]
    /\ \E k \in 1 .. Len(sent[s]) + 1 : AtFrame(s, k)
    /\ ~Saying(written[s], CloseOpcode)
    /\ request[s].branch \in Branches
    /\ LastSnapshot(written[s]) = latestSnapshots[request[s].branch]

Talks(s) ==
    /\ received[s] <= Arriving(s) /\ Arriving(s) <= Total(sent[s])
    /\ phase[s] \in {"closed", "asked"} => received[s] = 0
    /\ Echoes(written[s]) = {PayloadAt(sent[s], m) : m \in Answerable(sent[s], 1, received[s])}
    /\ Rising(written[s]) /\ CloseIsLast(written[s])
    /\ phase[s] = "open" => Attends(s)

TalkTypes ==
    /\ sent \in [Sockets -> Seq(DisplayFrames)]
    /\ received \in [Sockets -> Nat]
    /\ fin \in [Sockets -> Nat \cup {NotEnded}]
    /\ written \in [Sockets -> Seq(ServerFrame)]
    /\ latestSnapshots \in [Branches -> 0 .. MaxPublishes]
    /\ publishes \in 0 .. MaxPublishes /\ faults \in 0 .. MaxFaults

TalkInv == TalkTypes /\ \A s \in Sockets : Talks(s)

-----------------------------------------------------------------------------
\* Frames start later the later they are.
LEMMA StartsGrow ==
    ASSUME NEW frames \in Seq(DisplayFrame), NEW n \in 1 .. Len(frames) + 1, NEW m \in 1 .. n
    PROVE  /\ Start(frames, m) \in Nat /\ Start(frames, n) \in Nat
           /\ Start(frames, m) <= Start(frames, n)
<1>1. m \in 1 .. Len(frames) + 1
  OBVIOUS
<1>2. Start(frames, m) \in Nat /\ Start(frames, n) \in Nat
  BY <1>1, StartsInOrder
<1>3. CASE m = n
  BY <1>2, <1>3
<1>4. CASE m # n
  <2>1. m \in 1 .. n - 1 /\ m \in 1 .. Len(frames)
    BY <1>4
  <2>2. Start(frames, m) + FrameSize(frames[m]) <= Start(frames, n)
    BY <2>1, StartsInOrder
  <2> QED BY <1>2, <2>1, <2>2, FrameOf
<1> QED BY <1>3, <1>4

\* The end of what is sent is a number, and beyond every frame.
LEMMA TotalIsEnd ==
    ASSUME NEW frames \in Seq(DisplayFrame)
    PROVE  /\ Total(frames) \in Nat
           /\ \A n \in 1 .. Len(frames) + 1 : Start(frames, n) <= Total(frames)
<1>1. Len(frames) + 1 \in 1 .. Len(frames) + 1 /\ Total(frames) = Start(frames, Len(frames) + 1)
  BY DEF Total
<1>2. \A n \in 1 .. Len(frames) + 1 : n \in 1 .. Len(frames) + 1
  OBVIOUS
<1> QED BY <1>1, StartsGrow

\* Before anything has arrived, nothing is answered.
LEMMA NothingYet ==
    ASSUME NEW frames \in Seq(DisplayFrame)
    PROVE  /\ Answerable(frames, 1, 0) = {}
           /\ Boundary(frames, 1, 0, 0)
<1>1. ASSUME NEW m \in 1 .. Len(frames) PROVE Start(frames, m + 1) > 0
  <2>1. m \in 1 .. Len(frames) + 1
    OBVIOUS
  <2>2. PICK size : size = FrameSize(frames[m])
    OBVIOUS
  <2>3. size \in Nat /\ size >= 6 /\ Start(frames, m + 1) = Start(frames, m) + size
    BY <2>2, FrameOf, StartNext
  <2>4. Start(frames, m) \in Nat
    BY <2>1, StartsInOrder
  <2> QED BY <2>3, <2>4
<1>2. Whole(frames, 1, 0) = {}
  <2> SUFFICES ASSUME NEW m \in 1 .. Len(frames), Start(frames, m + 1) <= 0 PROVE FALSE
    BY DEF Whole
  <2>1. Start(frames, m + 1) \in Nat /\ Start(frames, m + 1) > 0
    BY <1>1, StartsInOrder
  <2> QED BY <2>1
<1>3. Answerable(frames, 1, 0) = {}
  BY <1>2 DEF Answerable
<1>4. 1 <= Len(frames) => 0 < Start(frames, 1 + 1)
  <2>1. ASSUME 1 <= Len(frames) PROVE 0 < Start(frames, 1 + 1)
    <3>1. 1 \in 1 .. Len(frames)
      BY <2>1
    <3>2. Start(frames, 1 + 1) > 0 /\ Start(frames, 1 + 1) \in Int
      <4>1. 1 + 1 \in 1 .. Len(frames) + 1
        BY <2>1
      <4> QED BY <1>1, <3>1, <4>1, StartsInOrder
    <3> QED BY <3>2
  <2> QED BY <2>1
<1>5. 1 \in 1 .. Len(frames) + 1 /\ Start(frames, 1) = 0
  BY StartFirst
<1> QED BY <1>3, <1>4, <1>5 DEF Boundary

\* A frame that is sent changes nothing for what has arrived before it.
LEMMA SentLater ==
    ASSUME NEW frames \in Seq(DisplayFrame), NEW frame \in DisplayFrame,
           NEW to \in Nat, to <= Total(frames)
    PROVE  LET more == Append(frames, frame)
           IN  /\ Total(frames) <= Total(more)
               /\ {PayloadAt(more, m) : m \in Answerable(more, 1, to)}
                      = {PayloadAt(frames, m) : m \in Answerable(frames, 1, to)}
               /\ \A k \in 1 .. Len(frames) + 1 : \A at :
                     Boundary(frames, k, at, to) => Boundary(more, k, at, to)
<1> DEFINE more == Append(frames, frame)
           last == Len(frames) + 1
<1>1. /\ more \in Seq(DisplayFrame) /\ Len(more) = last
      /\ \A m \in 1 .. Len(frames) : more[m] = frames[m]
  BY AppendProperties
<1>2. \A n \in 1 .. last : Start(more, n) = Start(frames, n)
  BY StartAppend
<1> HIDE DEF more
<1>3. /\ last \in 1 .. Len(more) /\ Len(frames) \in Nat
      /\ Total(frames) = Start(more, last) /\ Total(frames) \in Nat
      /\ Total(more) = Start(more, last + 1)
  <2>1. last \in 1 .. last
    OBVIOUS
  <2> QED BY <1>1, <1>2, <2>1, TotalIsEnd DEF Total
<1>4. Start(more, last + 1) \in Nat /\ Total(frames) < Start(more, last + 1)
  <2>1. PICK size : size = FrameSize(more[last])
    OBVIOUS
  <2>2. size \in Nat /\ size >= 6 /\ Start(more, last + 1) = Start(more, last) + size
    BY <1>1, <1>3, <2>1, FrameOf, StartNext
  <2> QED BY <1>3, <2>2
<1>5. Whole(more, 1, to) = Whole(frames, 1, to)
  <2>1. ASSUME NEW m \in Whole(more, 1, to) PROVE m \in Whole(frames, 1, to)
    <3>1. m \in 1 .. last /\ Start(more, m + 1) <= to
      BY <1>1, <2>1 DEF Whole
    <3>2. m # last
      BY <1>3, <1>4, <3>1
    <3>3. m \in 1 .. Len(frames) /\ m + 1 \in 1 .. last
      BY <3>1, <3>2
    <3> QED BY <1>2, <3>1, <3>3 DEF Whole
  <2>2. ASSUME NEW m \in Whole(frames, 1, to) PROVE m \in Whole(more, 1, to)
    <3>1. m \in 1 .. Len(frames) /\ Start(frames, m + 1) <= to
      BY <2>2 DEF Whole
    <3>2. m \in 1 .. last /\ m + 1 \in 1 .. last
      BY <3>1
    <3> QED BY <1>1, <1>2, <3>1, <3>2 DEF Whole
  <2> QED BY <2>1, <2>2
<1>6. Answerable(more, 1, to) = Answerable(frames, 1, to)
  <2> SUFFICES ASSUME NEW m \in Whole(frames, 1, to)
               PROVE  m \in Answerable(more, 1, to) <=> m \in Answerable(frames, 1, to)
    BY <1>5 DEF Answerable
  <2>1. m \in 1 .. Len(frames) /\ \A i \in 1 .. m : i \in 1 .. Len(frames)
    BY DEF Whole
  <2> QED BY <1>1, <1>5, <2>1 DEF Answerable
<1>7. ASSUME NEW m \in Answerable(frames, 1, to) PROVE PayloadAt(more, m) = PayloadAt(frames, m)
  <2>1. m \in 1 .. Len(frames) /\ m \in 1 .. last
    BY <1>7 DEF Answerable, Whole
  <2> QED BY <1>1, <1>2, <2>1 DEF PayloadAt
<1>8. ASSUME NEW k \in 1 .. last, NEW at, Boundary(frames, k, at, to)
      PROVE  Boundary(more, k, at, to)
  <2>1. at = Start(more, k) /\ k \in 1 .. Len(more) + 1
    BY <1>1, <1>2, <1>8 DEF Boundary
  <2>2. CASE k <= Len(frames)
    <3>1. k + 1 \in 1 .. last
      BY <2>2
    <3> QED BY <1>2, <1>8, <2>1, <2>2, <3>1 DEF Boundary
  <2>3. CASE k = last
    <3>1. to < Start(more, last + 1)
      BY <1>3, <1>4
    <3> QED BY <2>1, <2>3, <3>1 DEF Boundary
  <2> QED BY <2>2, <2>3
<1>9. Total(frames) <= Total(more)
  BY <1>3, <1>4
<1>10. {PayloadAt(more, m) : m \in Answerable(more, 1, to)}
          = {PayloadAt(frames, m) : m \in Answerable(frames, 1, to)}
  BY <1>6, <1>7
<1> QED BY <1>8, <1>9, <1>10 DEF more

\* The pings that have arrived with a chunk are those before it and those in it.
LEMMA AnswerableSplits ==
    ASSUME NEW frames \in Seq(DisplayFrame), NEW had \in Nat, NEW to \in Nat, had <= to,
           NEW k \in 1 .. Len(frames) + 1, NEW at, Boundary(frames, k, at, had), at <= had,
           \A m \in 1 .. k - 1 : frames[m].opcode # CloseOpcode
    PROVE  /\ Answerable(frames, 1, to) = Answerable(frames, 1, had) \cup Answerable(frames, k, to)
           /\ \A m \in Answerable(frames, 1, had) : PayloadAt(frames, m).from <= Start(frames, k)
<1>1. \A m \in 1 .. Len(frames) : m + 1 \in 1 .. Len(frames) + 1 /\ Start(frames, m + 1) \in Nat
  BY StartsInOrder
<1>2. at = Start(frames, k) /\ at \in Nat
  BY StartsInOrder DEF Boundary
<1>3. ASSUME NEW m \in 1 .. Len(frames) PROVE Start(frames, m + 1) <= had <=> m < k
  <2>1. CASE m < k
    <3>1. m + 1 \in 1 .. k
      BY <2>1
    <3>2. Start(frames, m + 1) <= Start(frames, k)
      BY <3>1, StartsGrow
    <3> QED BY <1>1, <1>2, <2>1, <3>2
  <2>2. CASE ~(m < k)
    <3>1. k <= Len(frames) /\ k + 1 \in 1 .. m + 1
      BY <2>2
    <3>2. Start(frames, k + 1) <= Start(frames, m + 1) /\ Start(frames, k + 1) \in Nat
      BY <1>1, <3>1, StartsGrow
    <3>3. had < Start(frames, k + 1)
      BY <3>1 DEF Boundary
    <3> QED BY <1>1, <2>2, <3>2, <3>3
  <2> QED BY <2>1, <2>2
<1>4. ASSUME NEW m \in 1 .. Len(frames), m < k
      PROVE  /\ m \in Answerable(frames, 1, to) <=> m \in Answerable(frames, 1, had)
             /\ m \notin Answerable(frames, k, to)
  <2>1. Start(frames, m + 1) <= had /\ Start(frames, m + 1) <= to
    BY <1>1, <1>3, <1>4
  <2>2. m \notin k .. Len(frames)
    BY <1>4
  <2> QED BY <1>4, <2>1, <2>2 DEF Answerable, Whole
<1>5. ASSUME NEW m \in 1 .. Len(frames), ~(m < k)
      PROVE  /\ m \in Answerable(frames, 1, to) <=> m \in Answerable(frames, k, to)
             /\ m \notin Answerable(frames, 1, had)
  <2>1. ~(Start(frames, m + 1) <= had) /\ m \in k .. Len(frames)
    BY <1>3, <1>5
  <2>2. 1 .. m = (1 .. k - 1) \cup (k .. m)
    BY <1>5
  <2> QED BY <1>5, <2>1, <2>2 DEF Answerable, Whole
<1>6. Answerable(frames, 1, to) \subseteq 1 .. Len(frames)
      /\ Answerable(frames, 1, had) \subseteq 1 .. Len(frames)
      /\ Answerable(frames, k, to) \subseteq 1 .. Len(frames)
  BY DEF Answerable, Whole
<1>7. Answerable(frames, 1, to) = Answerable(frames, 1, had) \cup Answerable(frames, k, to)
  BY <1>4, <1>5, <1>6
<1>8. ASSUME NEW m \in Answerable(frames, 1, had)
      PROVE  PayloadAt(frames, m).from <= Start(frames, k)
  <2>1. m \in 1 .. Len(frames) /\ m < k
    BY <1>5, <1>6, <1>8
  <2>2. m + 1 \in 1 .. k /\ m \in 1 .. Len(frames) + 1
    BY <2>1
  <2>3. Start(frames, m + 1) <= Start(frames, k) /\ Start(frames, m) \in Nat
    BY <2>2, StartsGrow, StartsInOrder
  <2>4. PICK frame \in DisplayFrame : frame = frames[m]
    BY <2>1, FrameOf
  <2>5. Start(frames, m + 1) = Start(frames, m) + FrameSize(frame)
    BY <2>1, <2>4, StartNext
  <2>6. FrameSize(frame) = PayloadFrom(frame) + frame.len /\ PayloadFrom(frame) \in Nat
        /\ frame.len \in Nat
    BY SizeShape
  <2>7. PayloadAt(frames, m).from = Start(frames, m) + PayloadFrom(frame)
    BY <2>4 DEF PayloadAt
  <2> QED BY <1>2, <2>3, <2>5, <2>6, <2>7
<1> QED BY <1>7, <1>8

\* The last snapshot is the same with other frames behind it, and a new one when it is
\* followed by one.
LEMMA SnapshotStays ==
    ASSUME NEW a \in Seq(ServerFrame), NEW b \in Seq(ServerFrame), ~Saying(b, TextOpcode)
    PROVE  LastSnapshot(a \o b) = LastSnapshot(a)
<1> DEFINE Texts(w) == {n \in DOMAIN w : w[n].opcode = TextOpcode}
           c == a \o b
<1>1. DOMAIN a = 1 .. Len(a) /\ DOMAIN b = 1 .. Len(b) /\ DOMAIN c = 1 .. Len(c)
  BY JoinedFrom
<1>2. ASSUME NEW n \in Texts(c) PROVE n \in Texts(a)
  BY <1>1, <1>2, JoinedAt DEF Saying
<1>3. ASSUME NEW n \in Texts(a) PROVE n \in Texts(c) /\ c[n] = a[n]
  BY <1>1, <1>3, JoinedFrom
<1>4. Texts(c) = Texts(a)
  BY <1>2, <1>3
<1>5. Texts(a) # {} => Max(Texts(a)) \in Texts(a)
  <2>1. Texts(a) \subseteq 1 .. Len(a) /\ Texts(a) \subseteq Int
    BY <1>1
  <2>2. IsFiniteSet(Texts(a))
    <3>1. IsFiniteSet(1 .. Len(a))
      BY FS_Interval
    <3> QED BY <2>1, <3>1, FS_Subset
  <2> QED BY <2>1, <2>2, MaxOf
<1>6. LastSnapshot(a) = IF Texts(a) = {} THEN NoSnapshot ELSE a[Max(Texts(a))].body
  BY DEF LastSnapshot
<1>7. LastSnapshot(c) = IF Texts(c) = {} THEN NoSnapshot ELSE c[Max(Texts(c))].body
  BY DEF LastSnapshot
<1> HIDE DEF Texts, c
<1>8. LastSnapshot(c) = LastSnapshot(a)
  BY <1>3, <1>4, <1>5, <1>6, <1>7
<1> QED BY <1>8 DEF c

\* A snapshot that is written last is the last.
LEMMA SnapshotFollows ==
    ASSUME NEW a \in Seq(ServerFrame), NEW n \in Nat
    PROVE  /\ SnapshotFrame(n) \in ServerFrame
           /\ SnapshotFrame(n).opcode = TextOpcode /\ SnapshotFrame(n).body = n
           /\ LastSnapshot(Append(a, SnapshotFrame(n))) = n
           /\ LastSnapshot(<<SnapshotFrame(n)>>) = n /\ LastSnapshot(<<>>) = NoSnapshot
<1> DEFINE new == SnapshotFrame(n)
<1>1. new \in ServerFrame /\ new.opcode = TextOpcode /\ new.body = n
  BY DEF SnapshotFrame, Frame, ServerFrame
<1> HIDE DEF new
<1>2. ASSUME NEW w \in Seq(ServerFrame) PROVE LastSnapshot(Append(w, new)) = n
  <2> DEFINE c == Append(w, new)
             texts == {m \in DOMAIN c : c[m].opcode = TextOpcode}
  <2>1. DOMAIN c = 1 .. Len(w) + 1 /\ Len(w) + 1 \in 1 .. Len(w) + 1 /\ c[Len(w) + 1] = new
    BY <1>1, AppendProperties
  <2>2. Len(w) + 1 \in texts /\ texts \subseteq 1 .. Len(w) + 1 /\ texts \subseteq Int
    BY <1>1, <2>1
  <2>3. IsFiniteSet(texts)
    <3>1. IsFiniteSet(1 .. Len(w) + 1)
      BY FS_Interval
    <3> QED BY <2>2, <3>1, FS_Subset
  <2>4. LastSnapshot(c) = IF texts = {} THEN NoSnapshot ELSE c[Max(texts)].body
    BY DEF LastSnapshot
  <2> HIDE DEF texts
  <2>5. Max(texts) \in texts /\ \A m \in texts : Max(texts) >= m
    BY <2>2, <2>3, MaxOf
  <2>6. Max(texts) = Len(w) + 1
    <3>1. PICK top : top = Max(texts)
      OBVIOUS
    <3>2. top \in 1 .. Len(w) + 1 /\ top >= Len(w) + 1
      BY <2>2, <2>5, <3>1
    <3>3. top = Len(w) + 1
      BY <3>2
    <3> QED BY <3>1, <3>3
  <2> HIDE DEF c
  <2>7. LastSnapshot(c) = n
    BY <1>1, <2>1, <2>2, <2>4, <2>6
  <2> QED BY <2>7 DEF c
<1>3. <<>> \in Seq(ServerFrame) /\ Append(<<>>, new) = <<new>>
  BY <1>1
<1>4. LastSnapshot(<<new>>) = n
  BY <1>2, <1>3
<1>5. LastSnapshot(<<>>) = NoSnapshot
  <2>1. {m \in DOMAIN <<>> : <<>>[m].opcode = TextOpcode} = {}
    OBVIOUS
  <2> QED BY <2>1 DEF LastSnapshot
<1> QED BY <1>1, <1>2, <1>4, <1>5 DEF new

\* What has been said to the first `had` bytes: they end within frame k, which starts at
\* `at`, and none before it was a close frame.
Heard(frames, k, at, had, said) ==
    /\ had \in Nat /\ said \in Seq(ServerFrame)
    /\ k \in 1 .. Len(frames) + 1 /\ Boundary(frames, k, at, had) /\ at <= had
    /\ \A m \in 1 .. k - 1 : frames[m].opcode # CloseOpcode
    /\ ~Saying(said, CloseOpcode) /\ Rising(said)
    /\ Echoes(said) = {PayloadAt(frames, m) : m \in Answerable(frames, 1, had)}

\* What has been said to the first `to` bytes, `all`, after a chunk was drained: the last
\* snapshot is the one before it, and if no close frame was met, what is held is the
\* beginning of a frame.
Answered(frames, to, chunk, said, all) ==
    /\ all \in Seq(ServerFrame)
    /\ Echoes(all) = {PayloadAt(frames, m) : m \in Answerable(frames, 1, to)}
    /\ Rising(all) /\ CloseIsLast(all)
    /\ LastSnapshot(all) = LastSnapshot(said)
    /\ ~chunk.closed =>
          /\ ~Saying(all, CloseOpcode) /\ chunk.held \in 0 .. to
          /\ \E j \in 1 .. Len(frames) + 1 :
                /\ Boundary(frames, j, to - chunk.held, to)
                /\ \A m \in 1 .. j - 1 : frames[m].opcode # CloseOpcode

\* What a chunk adds to it.
LEMMA ChunkJoins ==
    ASSUME NEW frames \in Seq(DisplayFrame), NEW k, NEW at, NEW had \in Nat, NEW said,
           Heard(frames, k, at, had, said),
           NEW to \in Nat, had <= to, to <= Total(frames)
    PROVE  Answered(frames, to, Drain(frames, at, to), said,
                    said \o Drain(frames, at, to).writes)
<1> PICK chunk : chunk = Drain(frames, at, to)
  OBVIOUS
<1> DEFINE new == chunk.writes
           all == said \o new
<1>0. /\ had \in Nat /\ said \in Seq(ServerFrame)
      /\ k \in 1 .. Len(frames) + 1 /\ Boundary(frames, k, at, had) /\ at <= had
      /\ \A m \in 1 .. k - 1 : frames[m].opcode # CloseOpcode
      /\ ~Saying(said, CloseOpcode) /\ Rising(said)
      /\ Echoes(said) = {PayloadAt(frames, m) : m \in Answerable(frames, 1, had)}
  BY DEF Heard
<1>1. at = Start(frames, k) /\ at \in Nat /\ at <= to
  BY <1>0, StartsInOrder DEF Boundary
<1>2. DrainedFrom(frames, k, to, chunk)
  BY <1>0, <1>1, DrainSound
<1>3. chunk \in Drained /\ new \in Seq(ServerFrame) /\ all \in Seq(ServerFrame)
  <2>1. chunk \in Drained
    BY <1>2 DEF DrainedFrom
  <2>2. new \in Seq(ServerFrame)
    BY <2>1 DEF Drained
  <2> QED BY <1>0, <2>1, <2>2, JoinedFrom
<1>4. /\ ~Saying(new, TextOpcode) /\ CloseIsLast(new) /\ Rising(new)
      /\ Saying(new, CloseOpcode) <=> chunk.closed
      /\ Echoes(new) = {PayloadAt(frames, m) : m \in Answerable(frames, k, to)}
      /\ \A i \in PongsOf(new) : at < new[i].body
  BY <1>1, <1>2 DEF DrainedFrom
<1> HIDE DEF new
<1>5. /\ Answerable(frames, 1, to) = Answerable(frames, 1, had) \cup Answerable(frames, k, to)
      /\ \A m \in Answerable(frames, 1, had) : PayloadAt(frames, m).from <= Start(frames, k)
  BY <1>0, AnswerableSplits
<1>6. Echoes(all) = {PayloadAt(frames, m) : m \in Answerable(frames, 1, to)}
  <2>1. Echoes(all) = Echoes(said) \cup Echoes(new)
    BY <1>0, <1>3, JoinedEchoes
  <2> QED BY <1>0, <1>4, <1>5, <2>1
<1>7. Rising(all)
  <2>1. ASSUME NEW i \in PongsOf(said) PROVE said[i].body <= at
    <3>1. [from |-> said[i].body, len |-> said[i].len] \in Echoes(said)
      BY <2>1 DEF Echoes
    <3>2. PICK m \in Answerable(frames, 1, had) :
              [from |-> said[i].body, len |-> said[i].len] = PayloadAt(frames, m)
      BY <1>0, <3>1
    <3>3. said[i].body = PayloadAt(frames, m).from
      BY <3>2
    <3> QED BY <1>1, <1>5, <3>3
  <2>2. at \in Int
    BY <1>1
  <2> QED BY <1>0, <1>3, <1>4, <2>1, <2>2, JoinedRise
<1>8. CloseIsLast(all)
  BY <1>0, <1>3, <1>4, JoinedClose
<1>9. LastSnapshot(all) = LastSnapshot(said)
  BY <1>0, <1>3, <1>4, SnapshotStays
<1>10. ASSUME ~chunk.closed
       PROVE  /\ ~Saying(all, CloseOpcode) /\ chunk.held \in 0 .. to
              /\ \E j \in 1 .. Len(frames) + 1 :
                    /\ Boundary(frames, j, to - chunk.held, to)
                    /\ \A m \in 1 .. j - 1 : frames[m].opcode # CloseOpcode
  <2>1. ~Saying(all, CloseOpcode)
    BY <1>0, <1>3, <1>4, <1>10, JoinedSay
  <2>2. PICK j \in k .. Len(frames) + 1 : Boundary(frames, j, to - chunk.held, to)
    BY <1>2, <1>10 DEF DrainedFrom
  <2>3. j \in 1 .. Len(frames) + 1 /\ to - chunk.held = Start(frames, j) /\ Start(frames, j) \in Nat
    <3>1. j \in 1 .. Len(frames) + 1
      BY <1>0
    <3> QED BY <2>2, <3>1, StartsInOrder DEF Boundary
  <2>4. chunk.held \in 0 .. to
    <3>1. PICK held \in Nat : held = chunk.held
      BY <1>3 DEF Drained
    <3>2. held \in 0 .. to
      BY <2>3, <3>1
    <3> QED BY <3>1, <3>2
  <2>5. ASSUME NEW m \in 1 .. j - 1 PROVE frames[m].opcode # CloseOpcode
    <3>1. CASE m < k
      BY <1>0, <2>5, <3>1
    <3>2. CASE ~(m < k)
      <4>1. m \in k .. Len(frames) /\ m + 1 \in 1 .. j
        BY <1>0, <2>3, <2>5, <3>2
      <4>2. Start(frames, m + 1) <= Start(frames, j) /\ Start(frames, m + 1) \in Nat
        BY <2>3, <4>1, StartsGrow
      <4>3. Start(frames, m + 1) <= to
        BY <2>3, <2>4, <4>2
      <4>4. m \in Whole(frames, k, to)
        BY <4>1, <4>3 DEF Whole
      <4> QED BY <1>2, <1>10, <4>4 DEF DrainedFrom
    <3> QED BY <3>1, <3>2
  <2> QED BY <2>1, <2>2, <2>3, <2>4, <2>5
<1>11. Answered(frames, to, chunk, said, all)
  BY <1>3, <1>6, <1>7, <1>8, <1>9, <1>10 DEF Answered
<1> QED BY <1>11 DEF new

-----------------------------------------------------------------------------
\* What the frames of a display are.
LEMMA FramesOf ==
    ASSUME TalkTypes, NEW s \in Sockets
    PROVE  /\ sent[s] \in Seq(DisplayFrames) /\ sent[s] \in Seq(DisplayFrame)
           /\ received[s] \in Nat /\ fin[s] \in Nat \cup {NotEnded}
           /\ written[s] \in Seq(ServerFrame) /\ Total(sent[s]) \in Nat
<1>1. /\ sent[s] \in Seq(DisplayFrames) /\ received[s] \in Nat
      /\ fin[s] \in Nat \cup {NotEnded} /\ written[s] \in Seq(ServerFrame)
  BY DEF TalkTypes
<1>2. sent[s] \in Seq(DisplayFrame)
  BY <1>1, CfdAssumption
<1> QED BY <1>1, <1>2, TotalIsEnd

\* A chunk ends somewhere in what has not arrived yet.
LEMMA CutsAreAhead ==
    ASSUME TalkTypes, NEW s \in Sockets, Talks(s), NEW to \in Cuts(s)
    PROVE  /\ to \in Nat /\ received[s] < to /\ to <= Arriving(s)
           /\ Arriving(s) \in Nat /\ to <= Total(sent[s])
<1>1. to \in received[s] + 1 .. Arriving(s)
  BY DEF Cuts
<1>2. Arriving(s) \in Nat /\ Arriving(s) <= Total(sent[s])
  BY FramesOf DEF Arriving, Talks
<1>3. received[s] \in Nat /\ Total(sent[s]) \in Nat
  BY FramesOf
<1> QED BY <1>1, <1>2, <1>3

\* No more arrives than was sent.
LEMMA WithinTotal ==
    ASSUME TalkTypes, NEW s \in Sockets, Talks(s), NEW to \in Nat, to <= Arriving(s)
    PROVE  to <= Total(sent[s])
<1>1. Arriving(s) \in Int /\ Total(sent[s]) \in Int /\ Arriving(s) <= Total(sent[s])
  BY FramesOf DEF Arriving, Talks
<1> QED BY <1>1

\* A display that sends and hears nothing.
LEMMA TalkStays ==
    ASSUME TalkTypes, NEW s \in Sockets, Talks(s),
           sent'[s] = sent[s], received'[s] = received[s], written'[s] = written[s],
           Arriving(s)' = Arriving(s),
           phase'[s] \in {"closed", "asked"} => phase[s] \in {"closed", "asked"},
           phase'[s] = "open" => /\ phase[s] = "open" /\ request'[s] = request[s]
                                 /\ socketBuffers'[s] = socketBuffers[s]
                                 /\ latestSnapshots'[request[s].branch]
                                        = latestSnapshots[request[s].branch]
    PROVE  Talks(s)'
<1>1. ASSUME phase'[s] = "open" PROVE Attends(s)'
  <2>1. Attends(s)
    BY <1>1 DEF Talks
  <2>2. \A k : AtFrame(s, k)' <=> AtFrame(s, k)
    BY <1>1 DEF AtFrame
  <2> QED BY <1>1, <2>1, <2>2 DEF Attends
<1> QED BY <1>1 DEF Talks

\* A connection that is over, or has not been made.
LEMMA TalkOver ==
    ASSUME NEW s \in Sockets, sent'[s] = <<>>, received'[s] = 0, fin'[s] = NotEnded,
           written'[s] = <<>>, phase'[s] = "closed"
    PROVE  Talks(s)'
<1>1. <<>> \in Seq(DisplayFrame)
  OBVIOUS
<1>2. Total(<<>>) = 0 /\ Answerable(<<>>, 1, 0) = {}
  <2>1. Total(<<>>) = Start(<<>>, 1)
    BY DEF Total
  <2> QED BY <1>1, <2>1, StartFirst, NothingYet
<1>3. Arriving(s)' = 0
  BY <1>2 DEF Arriving
<1>4. PongsOf(<<>>) = {}
  BY DEF PongsOf
<1>5. Echoes(<<>>) = {} /\ Rising(<<>>) /\ CloseIsLast(<<>>)
  BY <1>4 DEF Echoes, Rising, CloseIsLast
<1> QED BY <1>2, <1>3, <1>5 DEF Talks

\* A step that concerns s leaves the other displays alone.
LEMMA TalkOfOthers ==
    ASSUME TalkInv, NEW s \in Sockets,
           \A u \in Sockets : u # s =>
               /\ sent'[u] = sent[u] /\ received'[u] = received[u] /\ written'[u] = written[u]
               /\ fin'[u] = fin[u] /\ phase'[u] = phase[u] /\ request'[u] = request[u]
               /\ phase[u] = "open" => socketBuffers'[u] = socketBuffers[u],
           latestSnapshots' = latestSnapshots,
           Talks(s)', TalkTypes'
    PROVE  TalkInv'
<1>1. ASSUME NEW u \in Sockets, u # s PROVE Talks(u)'
  <2>1. Arriving(u)' = Arriving(u)
    BY <1>1 DEF Arriving
  <2>2. Talks(u) /\ TalkTypes
    BY DEF TalkInv
  <2>3. /\ sent'[u] = sent[u] /\ received'[u] = received[u] /\ written'[u] = written[u]
        /\ phase'[u] = phase[u] /\ request'[u] = request[u]
        /\ phase[u] = "open" => socketBuffers'[u] = socketBuffers[u]
    BY <1>1
  <2> QED BY <2>1, <2>2, <2>3, TalkStays
<1> QED BY <1>1 DEF TalkInv

\* A request for an upgrade.
LEMMA ConnectTalks ==
    ASSUME CfdInv, TalkInv, NEW s \in Sockets, Connect(s)
    PROVE  TalkInv'
<1>1. /\ phase[s] = "closed" /\ phase' = [phase EXCEPT ![s] = "asked"]
      /\ \E asked : request' = [request EXCEPT ![s] = asked]
      /\ UNCHANGED <<sent, received, fin, written, socketBuffers, latestSnapshots, publishes,
                     faults>>
  BY DEF Connect, registry, counters
<1>2. TalkTypes /\ Talks(s)
  BY DEF TalkInv
<1>3. TalkTypes'
  BY <1>1, <1>2 DEF TalkTypes
<1>4. phase'[s] = "asked"
  BY <1>1 DEF CfdInv, MapTypes
<1>5. Talks(s)'
  <2>1. Arriving(s)' = Arriving(s)
    BY <1>1 DEF Arriving
  <2> QED BY <1>1, <1>2, <1>4, <2>1, TalkStays
<1> QED BY <1>1, <1>3, <1>5, TalkOfOthers DEF CfdInv, MapTypes

\* What is sent later has not arrived.
LEMMA SendTalks ==
    ASSUME CfdInv, TalkInv, NEW s \in Sockets, Send(s)
    PROVE  TalkInv'
<1>1. PICK frame \in DisplayFrames : sent' = [sent EXCEPT ![s] = Append(sent[s], frame)]
  BY DEF Send
<1>2. UNCHANGED <<phase, request, received, fin, written, socketBuffers, latestSnapshots,
                  publishes, faults>>
  BY DEF Send, registry, counters
<1>3. TalkTypes /\ Talks(s) /\ fin[s] = NotEnded
  BY DEF TalkInv, Send
<1> DEFINE frames == sent[s]
           more == Append(frames, frame)
<1>4. /\ frames \in Seq(DisplayFrames) /\ frames \in Seq(DisplayFrame)
      /\ received[s] \in Nat /\ frame \in DisplayFrame
      /\ received[s] <= Arriving(s) /\ Arriving(s) = Total(frames)
  BY <1>3, FramesOf, CfdAssumption DEF Talks, Arriving
<1>5. sent'[s] = more /\ more \in Seq(DisplayFrames) /\ more \in Seq(DisplayFrame)
  BY <1>1, <1>3, <1>4 DEF TalkTypes
<1>6. TalkTypes'
  BY <1>1, <1>2, <1>3, <1>5 DEF TalkTypes
<1>7. /\ Total(frames) <= Total(more) /\ Total(frames) \in Nat /\ Total(more) \in Nat
      /\ {PayloadAt(more, m) : m \in Answerable(more, 1, received[s])}
             = {PayloadAt(frames, m) : m \in Answerable(frames, 1, received[s])}
      /\ \A k \in 1 .. Len(frames) + 1 : \A at :
             Boundary(frames, k, at, received[s]) => Boundary(more, k, at, received[s])
  BY <1>4, <1>5, SentLater, TotalIsEnd
<1>8. Len(more) = Len(frames) + 1 /\ Len(frames) \in Nat
      /\ \A m \in 1 .. Len(frames) : more[m] = frames[m]
  BY <1>4, AppendProperties
<1> HIDE DEF more
<1>9. ASSUME phase[s] = "open" PROVE Attends(s)'
  <2>1. Attends(s)
    BY <1>3, <1>9 DEF Talks
  <2>2. PICK k \in 1 .. Len(frames) + 1 : AtFrame(s, k)
    BY <2>1 DEF Attends
  <2>3. k \in 1 .. Len(more) + 1 /\ \A m \in 1 .. k - 1 : more[m] = frames[m]
    BY <1>8
  <2>4. AtFrame(s, k)'
    BY <1>2, <1>5, <1>7, <2>2, <2>3 DEF AtFrame
  <2> QED BY <1>2, <1>5, <2>1, <2>3, <2>4 DEF Attends
<1>10. Arriving(s)' = Total(more)
  BY <1>2, <1>3, <1>5 DEF Arriving
<1>11. Talks(s)'
  <2>1. received[s] <= Total(more)
    BY <1>4, <1>7
  <2>2. Echoes(written[s]) = {PayloadAt(more, m) : m \in Answerable(more, 1, received[s])}
    BY <1>3, <1>7 DEF Talks
  <2>3. /\ phase[s] \in {"closed", "asked"} => received[s] = 0
        /\ Rising(written[s]) /\ CloseIsLast(written[s])
    BY <1>3 DEF Talks
  <2>4. Total(more) <= Total(more)
    BY <1>7
  <2> QED BY <1>2, <1>5, <1>9, <1>10, <2>1, <2>2, <2>3, <2>4 DEF Talks
<1>12. \A u \in Sockets : u # s => sent'[u] = sent[u]
  BY <1>1, <1>3 DEF TalkTypes
<1> QED BY <1>2, <1>6, <1>11, <1>12, TalkOfOthers

\* A display ends after its last byte, or after what has arrived.
LEMMA HangUpTalks ==
    ASSUME CfdInv, TalkInv, NEW s \in Sockets, HangUp(s)
    PROVE  TalkInv'
<1>1. PICK at \in {received[s], Total(sent[s])} : fin' = [fin EXCEPT ![s] = at]
  BY DEF HangUp
<1>2. UNCHANGED <<phase, request, sent, received, written, socketBuffers, latestSnapshots,
                  publishes, faults>>
  BY DEF HangUp, registry, counters
<1>3. TalkTypes /\ Talks(s)
  BY DEF TalkInv
<1>4. /\ received[s] \in Nat /\ Total(sent[s]) \in Nat /\ received[s] <= Total(sent[s])
  <2>1. Arriving(s) \in Int
    BY <1>3, FramesOf DEF Arriving
  <2> QED BY <1>3, <2>1, FramesOf DEF Talks
<1>5. fin'[s] = at /\ at \in Nat /\ received[s] <= at /\ at <= Total(sent[s])
  BY <1>1, <1>3, <1>4 DEF TalkTypes
<1>6. TalkTypes'
  BY <1>1, <1>2, <1>3, <1>5 DEF TalkTypes
<1>7. Arriving(s)' = at
  BY <1>5 DEF Arriving, NotEnded
<1>8. Attends(s)' <=> Attends(s)
  <2>1. \A k : AtFrame(s, k)' <=> AtFrame(s, k)
    BY <1>2 DEF AtFrame
  <2> QED BY <1>2, <2>1 DEF Attends
<1>9. Talks(s)'
  BY <1>2, <1>3, <1>5, <1>7, <1>8 DEF Talks
<1>10. \A u \in Sockets : u # s => fin'[u] = fin[u]
  BY <1>1, <1>3 DEF TalkTypes
<1> QED BY <1>2, <1>6, <1>9, <1>10, TalkOfOthers

\* What an upgrade says first.
LEMMA GreetingIs ==
    ASSUME TalkTypes, NEW b \in Branches
    PROVE  /\ Greeting(b) \in Seq(ServerFrame)
           /\ ~Saying(Greeting(b), CloseOpcode) /\ PongsOf(Greeting(b)) = {}
           /\ Echoes(Greeting(b)) = {} /\ Rising(Greeting(b))
           /\ LastSnapshot(Greeting(b)) = latestSnapshots[b]
<1>1. latestSnapshots[b] \in Nat
  BY CfdAssumption DEF TalkTypes
<1> DEFINE new == SnapshotFrame(latestSnapshots[b])
<1>2. /\ new \in ServerFrame /\ new.opcode = TextOpcode
      /\ LastSnapshot(<<new>>) = latestSnapshots[b] /\ LastSnapshot(<<>>) = NoSnapshot
  <2>1. PICK latest \in Nat : latest = latestSnapshots[b]
    BY <1>1
  <2>2. <<>> \in Seq(ServerFrame)
    OBVIOUS
  <2> QED BY <2>1, <2>2, SnapshotFollows
<1>3. TextOpcode # CloseOpcode /\ TextOpcode # PongOpcode
  BY DEF TextOpcode, CloseOpcode, PongOpcode
<1>4. Greeting(b) = IF latestSnapshots[b] = NoSnapshot THEN <<>> ELSE <<new>>
  BY DEF Greeting
<1> HIDE DEF new
<1>5. /\ Greeting(b) \in Seq(ServerFrame)
      /\ \A n \in DOMAIN Greeting(b) : Greeting(b)[n] = new
      /\ DOMAIN Greeting(b) = 1 .. Len(Greeting(b))
  <2>1. CASE Greeting(b) = <<>>
    BY <2>1
  <2>2. CASE Greeting(b) = <<new>>
    BY <1>2, <2>2
  <2> QED BY <1>4, <2>1, <2>2
<1>6. ~Saying(Greeting(b), CloseOpcode) /\ PongsOf(Greeting(b)) = {}
  BY <1>2, <1>3, <1>5 DEF Saying, PongsOf
<1> QED BY <1>2, <1>4, <1>5, <1>6 DEF Echoes, Rising

\* What a step that answers a chunk makes of s: it has the frames of s answered up to `to`,
\* and goes on listening to s if the chunk held no close frame.
GoesOn(s, to, chunk, said, all) ==
    /\ sent'[s] = sent[s] /\ fin'[s] = fin[s] /\ received'[s] = to /\ written'[s] = all
    /\ phase'[s] \in {"open", "ending"}
    /\ phase'[s] = "open" =>
          /\ ~chunk.closed /\ socketBuffers'[s] = chunk.held /\ request'[s].branch \in Branches
          /\ LastSnapshot(said) = latestSnapshots'[request'[s].branch]

\* Then the conversation with s is in order again.
LEMMA TalkGoesOn ==
    ASSUME TalkTypes, NEW s \in Sockets, Talks(s), NEW to \in Nat, to <= Arriving(s),
           NEW chunk, NEW said, NEW all,
           Answered(sent[s], to, chunk, said, all), GoesOn(s, to, chunk, said, all)
    PROVE  Talks(s)'
<1>1. PICK frames : frames = sent[s]
  OBVIOUS
<1>2. /\ Arriving(s) <= Total(frames) /\ sent'[s] = frames
      /\ received'[s] = to /\ written'[s] = all /\ phase'[s] \in {"open", "ending"}
  BY <1>1 DEF Talks, GoesOn
<1>3. Answered(frames, to, chunk, said, all)
  BY <1>1
<1>4. Arriving(s)' = Arriving(s)
  BY DEF Arriving, GoesOn
<1>5. ASSUME phase'[s] = "open" PROVE Attends(s)'
  <2>1. /\ ~chunk.closed /\ socketBuffers'[s] = chunk.held /\ request'[s].branch \in Branches
        /\ LastSnapshot(said) = latestSnapshots'[request'[s].branch]
    BY <1>5 DEF GoesOn
  <2>2. PICK j \in 1 .. Len(frames) + 1 :
            /\ Boundary(frames, j, to - chunk.held, to)
            /\ \A m \in 1 .. j - 1 : frames[m].opcode # CloseOpcode
    BY <1>3, <2>1 DEF Answered
  <2>3. AtFrame(s, j)'
    BY <1>2, <2>1, <2>2 DEF AtFrame
  <2>4. LastSnapshot(written'[s]) = latestSnapshots'[request'[s].branch]
    BY <1>2, <1>3, <2>1 DEF Answered
  <2>5. ~Saying(written'[s], CloseOpcode) /\ socketBuffers'[s] \in 0 .. received'[s]
    BY <1>2, <1>3, <2>1 DEF Answered
  <2> QED BY <1>2, <2>1, <2>2, <2>3, <2>4, <2>5 DEF Attends
<1>6. /\ Echoes(written'[s]) = {PayloadAt(frames, m) : m \in Answerable(frames, 1, to)}
      /\ Rising(written'[s]) /\ CloseIsLast(written'[s])
  BY <1>2, <1>3 DEF Answered
<1> QED BY <1>2, <1>4, <1>5, <1>6 DEF Talks

\* An upgrade greets the display and answers what came with the request.
LEMMA UpgradeTalks ==
    ASSUME CfdInv, TalkInv, NEW s \in Sockets, Upgrade(s)
    PROVE  TalkInv'
<1> DEFINE b == request[s].branch
<1>1. PICK to \in Cuts(s) \cup {0} :
          LET head == Drain(sent[s], 0, to)
          IN  /\ received' = [received EXCEPT ![s] = to]
              /\ written' = [written EXCEPT ![s] = Greeting(b) \o head.writes]
              /\ \/ /\ ~head.closed /\ Register(s, b, head.held)
                    /\ phase' = [phase EXCEPT ![s] = "open"]
                 \/ /\ head.closed /\ UNCHANGED registry
                    /\ phase' = [phase EXCEPT ![s] = "ending"]
  BY DEF Upgrade
<1>2. PICK head : head = Drain(sent[s], 0, to)
  OBVIOUS
<1>3. /\ received' = [received EXCEPT ![s] = to]
      /\ written' = [written EXCEPT ![s] = Greeting(b) \o head.writes]
      /\ \/ /\ ~head.closed /\ Register(s, b, head.held)
            /\ phase' = [phase EXCEPT ![s] = "open"]
         \/ /\ head.closed /\ UNCHANGED registry
            /\ phase' = [phase EXCEPT ![s] = "ending"]
  BY <1>1, <1>2
<1>4. /\ phase[s] = "asked" /\ b # NoBranch
      /\ UNCHANGED <<request, sent, fin, latestSnapshots, publishes, faults>>
  BY DEF Upgrade, displays, counters
<1>5. TalkTypes /\ Talks(s) /\ b \in Branches
  BY <1>4 DEF TalkInv, CfdInv, MapTypes
<1>6. received[s] = 0 /\ sent[s] \in Seq(DisplayFrame)
  BY <1>4, <1>5, FramesOf DEF Talks
<1>7. to \in Nat /\ to <= Arriving(s) /\ 0 <= to
  <2>1. CASE to \in Cuts(s)
    BY <1>5, <2>1, CutsAreAhead
  <2>2. CASE to = 0
    BY <1>5, <1>6, <2>2 DEF Talks
  <2> QED BY <2>1, <2>2
<1>8. /\ Greeting(b) \in Seq(ServerFrame) /\ ~Saying(Greeting(b), CloseOpcode)
      /\ Rising(Greeting(b)) /\ LastSnapshot(Greeting(b)) = latestSnapshots[b]
      /\ Echoes(Greeting(b)) = {}
  BY <1>5, GreetingIs
<1>9. Answerable(sent[s], 1, 0) = {} /\ Boundary(sent[s], 1, 0, 0) /\ 1 \in 1 .. Len(sent[s]) + 1
  BY <1>6, NothingYet
<1>10. /\ sent'[s] = sent[s] /\ fin'[s] = fin[s] /\ received'[s] = to
       /\ written'[s] = Greeting(b) \o head.writes /\ phase'[s] \in {"open", "ending"}
       /\ \A u \in Sockets : u # s =>
              /\ received'[u] = received[u] /\ written'[u] = written[u] /\ phase'[u] = phase[u]
  BY <1>3, <1>4, <1>5 DEF TalkTypes, CfdInv, MapTypes
<1>11. phase'[s] = "open" =>
           /\ ~head.closed /\ socketBuffers'[s] = head.held /\ request'[s].branch \in Branches
           /\ LastSnapshot(Greeting(b)) = latestSnapshots'[request'[s].branch]
  <2>1. ASSUME phase'[s] = "open" PROVE ~head.closed /\ socketBuffers'[s] = head.held
    <3>1. ~head.closed /\ Register(s, b, head.held)
      BY <1>3, <1>5, <2>1 DEF CfdInv, MapTypes
    <3> QED BY <3>1 DEF Register, Put
  <2> QED BY <1>4, <1>5, <1>8, <2>1
<1>12. Talks(s)' /\ Greeting(b) \o head.writes \in Seq(ServerFrame)
  <2>1. PICK frames, said, all : /\ frames = sent[s] /\ said = Greeting(b)
                                 /\ all = said \o head.writes
    OBVIOUS
  <2>2. Echoes(said) = {PayloadAt(frames, m) : m \in Answerable(frames, 1, 0)}
    BY <1>8, <1>9, <2>1
  <2>3. 0 \in Nat /\ 0 <= 0 /\ 1 .. 1 - 1 = {}
    OBVIOUS
  <2>4. Heard(frames, 1, 0, 0, said)
    BY <1>8, <1>9, <2>1, <2>2, <2>3 DEF Heard
  <2>5. head = Drain(frames, 0, to) /\ frames \in Seq(DisplayFrame) /\ to <= Total(frames)
    BY <1>2, <1>5, <1>6, <1>7, <2>1, WithinTotal
  <2>6. Answered(frames, to, head, said, all)
    BY <1>7, <2>1, <2>3, <2>4, <2>5, ChunkJoins
  <2>7. GoesOn(s, to, head, said, all)
    BY <1>10, <1>11, <2>1 DEF GoesOn
  <2>8. Talks(s)'
    BY <1>5, <1>7, <2>1, <2>6, <2>7, TalkGoesOn
  <2> QED BY <2>1, <2>6, <2>8 DEF Answered
<1>13. \A u \in Sockets : u # s /\ phase[u] = "open" => socketBuffers'[u] = socketBuffers[u]
  <2>1. CASE UNCHANGED registry
    BY <2>1 DEF registry
  <2>2. CASE Register(s, b, head.held)
    BY <2>2 DEF Register, Put, CfdInv, RegistriesAgree
  <2> QED BY <1>3, <2>1, <2>2
<1>14. TalkTypes'
  BY <1>3, <1>4, <1>5, <1>7, <1>12 DEF TalkTypes
<1> QED BY <1>4, <1>10, <1>12, <1>13, <1>14, TalkOfOthers

\* A chunk is answered.
LEMMA DataTalks ==
    ASSUME CfdInv, TalkInv, NEW s \in Sockets, Data(s)
    PROVE  TalkInv'
<1> DEFINE at == received[s] - socketBuffers[s]
<1>1. PICK to \in Cuts(s) :
          LET chunk == Drain(sent[s], at, to)
          IN  /\ received' = [received EXCEPT ![s] = to]
              /\ written' = [written EXCEPT ![s] = written[s] \o chunk.writes]
              /\ \/ /\ ~chunk.closed
                    /\ socketBuffers' = Put(socketBuffers, s, chunk.held)
                    /\ UNCHANGED phase
                 \/ /\ chunk.closed
                    /\ phase' = [phase EXCEPT ![s] = "ending"]
                    /\ Unregister({s})
  BY DEF Data
<1>2. PICK chunk : chunk = Drain(sent[s], at, to)
  OBVIOUS
<1>3. /\ received' = [received EXCEPT ![s] = to]
      /\ written' = [written EXCEPT ![s] = written[s] \o chunk.writes]
      /\ \/ /\ ~chunk.closed
            /\ socketBuffers' = Put(socketBuffers, s, chunk.held)
            /\ UNCHANGED phase
         \/ /\ chunk.closed
            /\ phase' = [phase EXCEPT ![s] = "ending"]
            /\ Unregister({s})
  BY <1>1, <1>2
<1>4. /\ phase[s] = "open" /\ s \in DOMAIN socketBuffers
      /\ UNCHANGED <<request, sent, fin, latestSnapshots, publishes, faults>>
  BY DEF Data, displays, counters, CfdInv, RegistriesAgree
<1>5. TalkTypes /\ Talks(s) /\ Attends(s)
  BY <1>4 DEF TalkInv, Talks
<1>6. /\ to \in Nat /\ to <= Arriving(s) /\ received[s] <= to /\ received[s] \in Nat
      /\ written[s] \in Seq(ServerFrame)
  BY <1>5, CutsAreAhead, FramesOf
<1>7. PICK k \in 1 .. Len(sent[s]) + 1 : AtFrame(s, k)
  BY <1>5 DEF Attends
<1>8. /\ Boundary(sent[s], k, at, received[s]) /\ at <= received[s]
      /\ \A m \in 1 .. k - 1 : sent[s][m].opcode # CloseOpcode
  <2>1. socketBuffers[s] \in Nat
    BY <1>5, <1>6 DEF Attends
  <2> QED BY <1>6, <1>7, <2>1 DEF AtFrame
<1>9. /\ ~Saying(written[s], CloseOpcode) /\ Rising(written[s])
      /\ Echoes(written[s]) = {PayloadAt(sent[s], m) : m \in Answerable(sent[s], 1, received[s])}
      /\ request[s].branch \in Branches
      /\ LastSnapshot(written[s]) = latestSnapshots[request[s].branch]
  BY <1>5 DEF Talks, Attends
<1>10. /\ sent'[s] = sent[s] /\ fin'[s] = fin[s] /\ received'[s] = to
       /\ written'[s] = written[s] \o chunk.writes /\ phase'[s] \in {"open", "ending"}
       /\ \A u \in Sockets : u # s =>
              /\ received'[u] = received[u] /\ written'[u] = written[u] /\ phase'[u] = phase[u]
  BY <1>3, <1>4, <1>5 DEF TalkTypes, CfdInv, MapTypes
<1>11. phase'[s] = "open" =>
           /\ ~chunk.closed /\ socketBuffers'[s] = chunk.held /\ request'[s].branch \in Branches
           /\ LastSnapshot(written[s]) = latestSnapshots'[request'[s].branch]
  <2>1. ASSUME phase'[s] = "open" PROVE ~chunk.closed /\ socketBuffers'[s] = chunk.held
    <3>1. ~chunk.closed /\ socketBuffers' = Put(socketBuffers, s, chunk.held)
      BY <1>3, <2>1 DEF CfdInv, MapTypes
    <3> QED BY <3>1 DEF Put
  <2> QED BY <1>4, <1>9, <2>1
<1> HIDE DEF at
<1>12. Talks(s)' /\ written[s] \o chunk.writes \in Seq(ServerFrame)
  <2>1. PICK frames, said, all, had, start :
            /\ frames = sent[s] /\ said = written[s] /\ all = said \o chunk.writes
            /\ had = received[s] /\ start = at
    OBVIOUS
  <2>2. Heard(frames, k, start, had, said)
    BY <1>6, <1>7, <1>8, <1>9, <2>1 DEF Heard
  <2>3. /\ chunk = Drain(frames, start, to) /\ frames \in Seq(DisplayFrame)
        /\ to <= Total(frames) /\ had \in Nat /\ had <= to
    BY <1>2, <1>5, <1>6, <2>1, WithinTotal, FramesOf
  <2>4. Answered(frames, to, chunk, said, all)
    BY <1>6, <2>1, <2>2, <2>3, ChunkJoins
  <2>5. GoesOn(s, to, chunk, said, all)
    BY <1>10, <1>11, <2>1 DEF GoesOn
  <2>6. Talks(s)'
    BY <1>5, <1>6, <2>1, <2>4, <2>5, TalkGoesOn
  <2> QED BY <2>1, <2>4, <2>6 DEF Answered
<1>13. \A u \in Sockets : u # s /\ phase[u] = "open" => socketBuffers'[u] = socketBuffers[u]
  <2>1. CASE socketBuffers' = Put(socketBuffers, s, chunk.held)
    BY <2>1 DEF Put, CfdInv, RegistriesAgree
  <2>2. CASE Unregister({s})
    BY <2>2 DEF Unregister, Drop, CfdInv, RegistriesAgree
  <2> QED BY <1>3, <2>1, <2>2
<1>14. TalkTypes'
  BY <1>3, <1>4, <1>5, <1>6, <1>12 DEF TalkTypes
<1> QED BY <1>4, <1>10, <1>12, <1>13, <1>14, TalkOfOthers

\* A broadcast adds its snapshot, and neither a pong nor a close frame.
LEMMA SnapshotAdded ==
    ASSUME NEW a \in Seq(ServerFrame), NEW n \in Nat
    PROVE  /\ Append(a, SnapshotFrame(n)) \in Seq(ServerFrame)
           /\ LastSnapshot(Append(a, SnapshotFrame(n))) = n
           /\ Echoes(Append(a, SnapshotFrame(n))) = Echoes(a)
           /\ Rising(a) => Rising(Append(a, SnapshotFrame(n)))
           /\ ~Saying(a, CloseOpcode) => ~Saying(Append(a, SnapshotFrame(n)), CloseOpcode)
<1>1. PICK new \in ServerFrame : new = SnapshotFrame(n) /\ new.opcode = TextOpcode
  BY SnapshotFollows
<1>2. PICK c : c = Append(a, new)
  OBVIOUS
<1>3. /\ c \in Seq(ServerFrame) /\ Len(c) = Len(a) + 1 /\ c[Len(a) + 1] = new
      /\ \A m \in 1 .. Len(a) : c[m] = a[m]
  BY <1>2, AppendProperties
<1>4. DOMAIN a = 1 .. Len(a) /\ DOMAIN c = 1 .. Len(a) + 1 /\ Len(a) \in Nat
  BY <1>3
<1>5. TextOpcode # CloseOpcode /\ TextOpcode # PongOpcode
  BY DEF TextOpcode, CloseOpcode, PongOpcode
<1>6. PongsOf(c) = PongsOf(a)
  <2>1. ASSUME NEW m \in PongsOf(c) PROVE m \in PongsOf(a)
    <3>1. m \in 1 .. Len(a) + 1 /\ c[m].opcode = PongOpcode
      BY <1>4, <2>1 DEF PongsOf
    <3>2. m # Len(a) + 1
      BY <1>1, <1>3, <1>5, <3>1
    <3>3. m \in 1 .. Len(a)
      BY <1>4, <3>1, <3>2
    <3> QED BY <1>3, <1>4, <3>1, <3>3 DEF PongsOf
  <2>2. ASSUME NEW m \in PongsOf(a) PROVE m \in PongsOf(c)
    BY <1>3, <1>4, <2>2 DEF PongsOf
  <2> QED BY <2>1, <2>2
<1>7. \A m \in PongsOf(a) : c[m] = a[m]
  BY <1>3, <1>4 DEF PongsOf
<1>8. Echoes(c) = Echoes(a) /\ (Rising(a) => Rising(c))
  BY <1>6, <1>7 DEF Echoes, Rising
<1>9. ASSUME Saying(c, CloseOpcode) PROVE Saying(a, CloseOpcode)
  <2>1. PICK m \in 1 .. Len(a) + 1 : c[m].opcode = CloseOpcode
    BY <1>3, <1>9 DEF Saying
  <2>2. m # Len(a) + 1
    BY <1>1, <1>3, <1>5, <2>1
  <2>3. m \in 1 .. Len(a)
    BY <1>4, <2>1, <2>2
  <2> QED BY <1>3, <2>1, <2>3 DEF Saying
<1>10. LastSnapshot(c) = n
  BY <1>1, <1>2, SnapshotFollows
<1> QED BY <1>1, <1>2, <1>3, <1>8, <1>9, <1>10

\* Every display that is open hears a publication for its branch, and no other.
LEMMA PublishTalks ==
    ASSUME CfdInv, TalkInv, NEW b \in Branches, PublishCartState(b)
    PROVE  TalkInv'
<1>1. /\ publishes < MaxPublishes /\ publishes' = publishes + 1
      /\ latestSnapshots' = [latestSnapshots EXCEPT ![b] = publishes']
      /\ written' = [s \in Sockets |->
             IF s \in Broadcast(b) THEN Append(written[s], SnapshotFrame(publishes'))
             ELSE written[s]]
      /\ Unregister(clients[b] \ Broadcast(b))
      /\ UNCHANGED <<phase, request, sent, fin, received, faults>>
  BY DEF PublishCartState, displays
<1>2. PICK new \in Nat : new = publishes' /\ new \in 0 .. MaxPublishes
  BY <1>1, CfdAssumption DEF TalkInv, TalkTypes
<1>3. TalkTypes
  BY DEF TalkInv
<1>4. /\ latestSnapshots'[b] = new
      /\ \A c \in Branches : c # b => latestSnapshots'[c] = latestSnapshots[c]
      /\ latestSnapshots' \in [Branches -> 0 .. MaxPublishes]
  BY <1>1, <1>2, <1>3 DEF TalkTypes
<1>5. \A s \in Sockets : s \in Broadcast(b) <=> phase[s] = "open" /\ request[s].branch = b
  BY DEF Broadcast, CfdInv, RegistriesAgree
<1>6. \A s \in Sockets : phase[s] = "open" =>
          socketBuffers'[s] = socketBuffers[s] /\ request[s].branch \in Branches
  <2>1. clients[b] \ Broadcast(b) = {}
    BY DEF CfdInv, MapTypes, RegistriesAgree, Broadcast
  <2>2. Unregister({})
    BY <1>1, <2>1
  <2>3. socketBuffers' = Drop(socketBuffers, {} \cap DOMAIN socketBranches)
    BY <2>2 DEF Unregister
  <2>4. \A s \in DOMAIN socketBuffers : socketBuffers'[s] = socketBuffers[s]
    BY <2>3 DEF Drop
  <2>5. \A s \in Sockets : phase[s] = "open" => request[s].branch \in Branches
    BY DEF TalkInv, Talks, Attends
  <2> QED BY <2>4, <2>5 DEF CfdInv, RegistriesAgree
<1>7. ASSUME NEW s \in Sockets, s \in Broadcast(b)
      PROVE  Talks(s)' /\ written'[s] \in Seq(ServerFrame)
  <2>1. phase[s] = "open" /\ request[s].branch = b /\ Talks(s) /\ Attends(s)
    BY <1>5, <1>7 DEF TalkInv, Talks
  <2>2. PICK said \in Seq(ServerFrame) : said = written[s]
    BY <1>3 DEF TalkTypes
  <2>3. PICK all : all = Append(said, SnapshotFrame(new))
    OBVIOUS
  <2>4. written'[s] = all
    BY <1>1, <1>2, <1>7, <2>2, <2>3
  <2>5. /\ all \in Seq(ServerFrame) /\ LastSnapshot(all) = new /\ Echoes(all) = Echoes(said)
        /\ Rising(said) => Rising(all)
        /\ ~Saying(said, CloseOpcode) => ~Saying(all, CloseOpcode)
    BY <2>3, SnapshotAdded
  <2>6. /\ Rising(all) /\ ~Saying(all, CloseOpcode)
        /\ Echoes(all) = {PayloadAt(sent[s], m) : m \in Answerable(sent[s], 1, received[s])}
    BY <2>1, <2>2, <2>5 DEF Talks, Attends
  <2>7. CloseIsLast(all)
    BY <2>6 DEF CloseIsLast, Saying
  <2>8. Arriving(s)' = Arriving(s)
    BY <1>1 DEF Arriving
  <2>9. Attends(s)'
    <3>1. socketBuffers'[s] = socketBuffers[s]
      BY <1>6, <2>1
    <3>2. \A k : AtFrame(s, k)' <=> AtFrame(s, k)
      BY <1>1, <3>1 DEF AtFrame
    <3>3. LastSnapshot(written'[s]) = latestSnapshots'[request'[s].branch]
      BY <1>1, <1>4, <2>1, <2>4, <2>5
    <3> QED BY <1>1, <2>1, <2>4, <2>6, <3>1, <3>2, <3>3 DEF Attends
  <2>10. Talks(s)'
    BY <1>1, <2>1, <2>4, <2>6, <2>7, <2>8, <2>9 DEF Talks
  <2> QED BY <2>4, <2>5, <2>10
<1>8. ASSUME NEW s \in Sockets, s \notin Broadcast(b)
      PROVE  Talks(s)' /\ written'[s] \in Seq(ServerFrame)
  <2>1. written'[s] = written[s] /\ Talks(s)
    BY <1>1, <1>8 DEF TalkInv
  <2>2. Arriving(s)' = Arriving(s)
    BY <1>1 DEF Arriving
  <2>3. phase[s] = "open" =>
            /\ socketBuffers'[s] = socketBuffers[s]
            /\ latestSnapshots'[request[s].branch] = latestSnapshots[request[s].branch]
    BY <1>4, <1>5, <1>6, <1>8
  <2>4. Talks(s)'
    BY <1>1, <1>3, <2>1, <2>2, <2>3, TalkStays
  <2> QED BY <1>3, <2>1, <2>4 DEF TalkTypes
<1>9. TalkTypes'
  <2>1. written' \in [Sockets -> Seq(ServerFrame)]
    BY <1>1, <1>7, <1>8
  <2> QED BY <1>1, <1>2, <1>3, <1>4, <2>1 DEF TalkTypes
<1> QED BY <1>7, <1>8, <1>9 DEF TalkInv

\* Whoever is unregistered, the buffers of the others stay.
LEMMA UnregisterKeeps ==
    ASSUME CfdInv, NEW s \in Sockets, Unregister({s})
    PROVE  \A u \in Sockets : u # s /\ phase[u] = "open" => socketBuffers'[u] = socketBuffers[u]
BY DEF Unregister, Drop, CfdInv, RegistriesAgree

\* A connection that is over leaves the others alone.
LEMMA CloseTalks ==
    ASSUME TalkInv, NEW s \in Sockets, Close({s}),
           UNCHANGED <<latestSnapshots, publishes>>, faults' \in 0 .. MaxFaults,
           \A u \in Sockets : u # s /\ phase[u] = "open" => socketBuffers'[u] = socketBuffers[u]
    PROVE  TalkInv'
<1>1. /\ sent'[s] = <<>> /\ received'[s] = 0 /\ fin'[s] = NotEnded /\ written'[s] = <<>>
      /\ phase'[s] = "closed"
      /\ \A u \in Sockets : u # s =>
             /\ sent'[u] = sent[u] /\ received'[u] = received[u] /\ written'[u] = written[u]
             /\ fin'[u] = fin[u] /\ phase'[u] = phase[u] /\ request'[u] = request[u]
  BY DEF Close
<1>2. Talks(s)'
  BY <1>1, TalkOver
<1>3. TalkTypes'
  BY DEF Close, TalkInv, TalkTypes
<1> QED BY <1>1, <1>2, <1>3, TalkOfOthers

\* A process that starts again talks to no one.
LEMMA RestartTalks ==
    ASSUME TalkInv, Restart, publishes' = publishes, faults' \in 0 .. MaxFaults
    PROVE  TalkInv'
<1>1. \A s \in Sockets : /\ sent'[s] = <<>> /\ received'[s] = 0 /\ fin'[s] = NotEnded
                         /\ written'[s] = <<>> /\ phase'[s] = "closed"
  BY DEF Restart, Close
<1>2. \A s \in Sockets : Talks(s)'
  BY <1>1, TalkOver
<1>3. TalkTypes'
  <2>1. 0 \in 0 .. MaxPublishes
    BY CfdAssumption
  <2> QED BY <2>1 DEF Restart, Close, TalkInv, TalkTypes, NoSnapshot
<1> QED BY <1>2, <1>3 DEF TalkInv

\* A connection that is not for the gateway, or not right, is not talked to.
LEMMA UpgradeLeftTalks ==
    ASSUME CfdInv, TalkInv, NEW s \in Sockets, UpgradeOther(s) \/ UpgradeRefused(s)
    PROVE  TalkInv'
<1>1. TalkTypes /\ Talks(s) /\ faults \in 0 .. MaxFaults
  BY DEF TalkInv, TalkTypes
<1>2. CASE UpgradeOther(s)
  <2>1. /\ phase[s] = "asked" /\ phase' = [phase EXCEPT ![s] = "unanswered"]
        /\ UNCHANGED <<request, sent, fin, received, written, socketBuffers, latestSnapshots,
                       publishes, faults>>
    BY <1>2 DEF UpgradeOther, displays, registry, counters
  <2>2. phase'[s] = "unanswered" /\ \A u \in Sockets : u # s => phase'[u] = phase[u]
    BY <2>1 DEF CfdInv, MapTypes
  <2>3. Arriving(s)' = Arriving(s)
    BY <2>1 DEF Arriving
  <2>4. Talks(s)'
    BY <1>1, <2>1, <2>2, <2>3, TalkStays
  <2>5. TalkTypes'
    BY <1>1, <2>1 DEF TalkTypes
  <2> QED BY <2>1, <2>2, <2>4, <2>5, TalkOfOthers
<1>3. CASE UpgradeRefused(s)
  <2>1. Close({s}) /\ UNCHANGED <<latestSnapshots, publishes>> /\ faults' \in 0 .. MaxFaults
        /\ UNCHANGED socketBuffers
    BY <1>1, <1>3 DEF UpgradeRefused, registry, counters
  <2> QED BY <2>1, CloseTalks
<1> QED BY <1>2, <1>3

\* The end of a display's side.
LEMMA EndTalks ==
    ASSUME CfdInv, TalkInv, NEW s \in Sockets, End(s)
    PROVE  TalkInv'
<1>1. TalkTypes /\ Talks(s) /\ faults \in 0 .. MaxFaults
  BY DEF TalkInv, TalkTypes
<1>2. /\ UNCHANGED <<latestSnapshots, publishes, faults>>
      /\ \A u \in Sockets : u # s /\ phase[u] = "open" => socketBuffers'[u] = socketBuffers[u]
  <2>1. Unregister({s}) /\ UNCHANGED <<latestSnapshots, publishes, faults>>
    BY DEF End, counters
  <2> QED BY <2>1, UnregisterKeeps
<1>3. CASE Close({s})
  BY <1>1, <1>2, <1>3, CloseTalks
<1>4. CASE /\ phase[s] = "open" /\ phase' = [phase EXCEPT ![s] = "halfOpen"]
           /\ UNCHANGED <<displays, received, written>>
  <2>1. phase'[s] = "halfOpen" /\ \A u \in Sockets : u # s => phase'[u] = phase[u]
    BY <1>4 DEF CfdInv, MapTypes
  <2>2. UNCHANGED <<request, sent, fin, received, written>>
    BY <1>4 DEF displays
  <2>3. Arriving(s)' = Arriving(s)
    BY <2>2 DEF Arriving
  <2>4. Talks(s)'
    BY <1>1, <2>1, <2>2, <2>3, TalkStays
  <2>5. TalkTypes'
    BY <1>1, <1>2, <2>2 DEF TalkTypes
  <2> QED BY <1>2, <2>1, <2>2, <2>4, <2>5, TalkOfOthers
<1> QED BY <1>3, <1>4 DEF End

\* A connection that breaks, or the end of the process.
LEMMA FaultTalks ==
    ASSUME CfdInv, TalkInv, (\E s \in Sockets : Reset(s)) \/ Stop
    PROVE  TalkInv'
<1>1. publishes' = publishes /\ faults' \in 0 .. MaxFaults
  <2>1. faults < MaxFaults /\ faults' = faults + 1 /\ publishes' = publishes
    BY DEF Reset, Stop
  <2> QED BY <2>1, CfdAssumption DEF TalkInv, TalkTypes
<1>2. ASSUME NEW s \in Sockets, Close({s}), Unregister({s}), UNCHANGED latestSnapshots
      PROVE  TalkInv'
  BY <1>1, <1>2, UnregisterKeeps, CloseTalks
<1>3. CASE Restart
  BY <1>1, <1>3, RestartTalks
<1> QED BY <1>2, <1>3 DEF Reset, Stop

\* Every step keeps the conversations in order.
LEMMA NextTalks ==
    ASSUME CfdInv, TalkInv, [Next]_cfdVars
    PROVE  TalkInv'
<1>1. CASE UNCHANGED cfdVars
  <2>1. /\ UNCHANGED <<sent, received, fin, written, latestSnapshots, publishes, faults>>
        /\ UNCHANGED <<phase, request, socketBuffers>>
    BY <1>1 DEF cfdVars, displays, registry, counters
  <2>2. ASSUME NEW s \in Sockets PROVE Talks(s)'
    <3>1. Arriving(s)' = Arriving(s)
      BY <2>1 DEF Arriving
    <3> QED BY <2>1, <3>1, TalkStays DEF TalkInv
  <2>3. TalkTypes'
    BY <2>1 DEF TalkInv, TalkTypes
  <2> QED BY <2>2, <2>3 DEF TalkInv
<1> QED BY <1>1, ConnectTalks, SendTalks, HangUpTalks, UpgradeLeftTalks, UpgradeTalks,
           DataTalks, EndTalks, FaultTalks, PublishTalks DEF Next, Serve

\* No display has come yet.
LEMMA InitTalks == Init => TalkInv
<1> SUFFICES ASSUME Init PROVE TalkInv
  OBVIOUS
<1>1. TalkTypes
  BY CfdAssumption DEF Init, TalkTypes, NoSnapshot
<1>2. ASSUME NEW s \in Sockets PROVE Talks(s)
  <2>1. sent[s] = <<>> /\ received[s] = 0 /\ fin[s] = NotEnded /\ written[s] = <<>>
        /\ phase[s] = "closed"
    BY DEF Init
  <2>2. <<>> \in Seq(DisplayFrame)
    OBVIOUS
  <2>3. Total(<<>>) = 0 /\ Answerable(<<>>, 1, 0) = {}
    <3>1. Total(<<>>) = Start(<<>>, 1)
      BY DEF Total
    <3> QED BY <2>2, <3>1, StartFirst, NothingYet
  <2>4. Arriving(s) = 0
    BY <2>1, <2>3 DEF Arriving
  <2>5. PongsOf(<<>>) = {}
    BY DEF PongsOf
  <2>6. Echoes(<<>>) = {} /\ Rising(<<>>) /\ CloseIsLast(<<>>)
    BY <2>5 DEF Echoes, Rising, CloseIsLast
  <2> QED BY <2>1, <2>3, <2>4, <2>6 DEF Talks
<1> QED BY <1>1, <1>2 DEF TalkInv

-----------------------------------------------------------------------------
\* The map from sockets to branches is always a function, if only an empty one.
BranchesMap == socketBranches = [s \in DOMAIN socketBranches |-> socketBranches[s]]

\* Entries are put into it and dropped from it.
LEMMA NextBranchesMap ==
    ASSUME BranchesMap, [Next]_cfdVars
    PROVE  BranchesMap'
<1>1. \/ socketBranches' = socketBranches
      \/ socketBranches' = <<>>
      \/ \E s, b : socketBranches' = Put(socketBranches, s, b)
      \/ \E S : socketBranches' = Drop(socketBranches, S)
  <2>1. ASSUME NEW S, Unregister(S) PROVE \E K : socketBranches' = Drop(socketBranches, K)
    BY <2>1 DEF Unregister
  <2>2. ASSUME NEW s, NEW b, NEW held, Register(s, b, held)
        PROVE  socketBranches' = Put(socketBranches, s, b)
    BY <2>2 DEF Register
  <2>3. ASSUME UNCHANGED registry PROVE socketBranches' = socketBranches
    BY <2>3 DEF registry
  <2>4. ASSUME Restart PROVE socketBranches' = <<>>
    BY <2>4 DEF Restart
  <2>5. ASSUME NEW s \in Sockets, Upgrade(s)
        PROVE  UNCHANGED registry \/ \E b, held : Register(s, b, held)
    BY <2>5 DEF Upgrade
  <2>6. ASSUME NEW s \in Sockets, Data(s) PROVE socketBranches' = socketBranches \/ Unregister({s})
    BY <2>6 DEF Data
  <2>7. ASSUME NEW s \in Sockets,
               Connect(s) \/ Send(s) \/ HangUp(s) \/ UpgradeOther(s) \/ UpgradeRefused(s)
        PROVE  UNCHANGED registry
    BY <2>7 DEF Connect, Send, HangUp, UpgradeOther, UpgradeRefused
  <2>8. ASSUME NEW s \in Sockets, End(s) \/ Reset(s) PROVE Unregister({s}) \/ Restart
    BY <2>8 DEF End, Reset
  <2>9. ASSUME NEW b \in Branches, PublishCartState(b) PROVE \E S : Unregister(S)
    BY <2>9 DEF PublishCartState
  <2>10. Stop => Restart
    BY DEF Stop
  <2>11. UNCHANGED cfdVars => UNCHANGED registry
    BY DEF cfdVars
  <2> QED BY <2>1, <2>2, <2>3, <2>4, <2>5, <2>6, <2>7, <2>8, <2>9, <2>10, <2>11 DEF Next, Serve
<1>2. CASE socketBranches' = socketBranches
  BY <1>2 DEF BranchesMap
<1>3. CASE socketBranches' = <<>>
  BY <1>3 DEF BranchesMap
<1>4. ASSUME NEW s, NEW b, socketBranches' = Put(socketBranches, s, b) PROVE BranchesMap'
  BY <1>4 DEF Put, BranchesMap
<1>5. ASSUME NEW S, socketBranches' = Drop(socketBranches, S) PROVE BranchesMap'
  BY <1>5 DEF Drop, BranchesMap
<1> QED BY <1>1, <1>2, <1>3, <1>4, <1>5

\* The invariants hold together.
LEMMA CfdTalks == Spec => [](CfdInv /\ TalkInv /\ BranchesMap)
<1>1. Init => CfdInv /\ TalkInv /\ BranchesMap
  BY InitCfdInv, InitTalks DEF Init, BranchesMap
<1>2. CfdInv /\ TalkInv /\ BranchesMap /\ [Next]_cfdVars => (CfdInv /\ TalkInv /\ BranchesMap)'
  BY NextCfdInv, NextTalks, NextBranchesMap
<1> QED BY <1>1, <1>2, PTL DEF Spec

\* The maps and the connections have their types, and a buffer never holds more than has
\* arrived: what is kept for the next chunk is part of this one.
THEOREM CfdTypes == Spec => []CfdTypeOK
<1>1. ASSUME CfdInv, TalkInv, BranchesMap PROVE CfdTypeOK
  <2>1. \A s \in Sockets : phase[s] = "open" =>
            request[s].branch \in Branches /\ socketBuffers[s] \in 0 .. received[s]
    BY <1>1 DEF TalkInv, Talks, Attends
  <2>2. socketBranches \in [DOMAIN socketBranches -> Branches]
    <3>1. \A s \in DOMAIN socketBranches : socketBranches[s] \in Branches
      BY <1>1, <2>1 DEF CfdInv, RegistriesAgree
    <3> QED BY <1>1, <3>1 DEF BranchesMap
  <2>3. \A s \in DOMAIN socketBuffers : socketBuffers[s] \in 0 .. received[s]
    BY <1>1, <2>1 DEF CfdInv, RegistriesAgree
  <2>4. listening \subseteq Sockets
    BY <1>1 DEF CfdInv, RegistriesAgree
  <2> QED BY <1>1, <2>2, <2>3, <2>4 DEF CfdInv, MapTypes, TalkInv, TalkTypes, CfdTypeOK
<1>2. CfdInv /\ TalkInv /\ BranchesMap => CfdTypeOK
  BY <1>1
<1> QED BY <1>2, CfdTalks, PTL

\* Every display that is open shows the latest snapshot of its branch, whenever it joined,
\* between any publications.
THEOREM CfdShowsLatest == Spec => []ShowsLatest
<1>1. ASSUME CfdInv, TalkInv PROVE ShowsLatest
  <2> SUFFICES ASSUME NEW s \in Sockets, NEW b \in Branches, s \in clients[b]
               PROVE  LastSnapshot(written[s]) = latestSnapshots[b]
    BY DEF ShowsLatest
  <2>1. phase[s] = "open" /\ request[s].branch = b
    BY <1>1 DEF CfdInv, RegistriesAgree
  <2> QED BY <1>1, <2>1 DEF TalkInv, Talks, Attends
<1>2. CfdInv /\ TalkInv => ShowsLatest
  BY <1>1
<1> QED BY <1>2, CfdTalks, PTL

\* Every ping that has arrived in full before a close frame has its pong, and every pong
\* its ping, in order, for any frames of any length and wherever TCP cuts them.
THEOREM CfdPongsMatchPings == Spec => []PongsMatchPings
<1>1. ASSUME CfdInv, TalkInv PROVE PongsMatchPings
  <2> SUFFICES ASSUME NEW s \in Sockets
               PROVE  /\ {[from |-> written[s][n].body, len |-> written[s][n].len] : n \in Pongs(s)}
                             = {[from |-> Start(sent[s], n) + PayloadFrom(sent[s][n]),
                                 len |-> sent[s][n].len] : n \in Pings(s)}
                      /\ \A m \in Pongs(s) : \A n \in Pongs(s) :
                            m < n => written[s][m].body < written[s][n].body
    BY DEF PongsMatchPings
  <2>1. Talks(s)
    BY <1>1 DEF TalkInv
  <2>2. Pongs(s) = PongsOf(written[s])
    BY DEF Pongs, PongsOf
  <2>3. Pings(s) = Answerable(sent[s], 1, received[s])
    BY DEF Pings, Answerable, Whole
  <2>4. {[from |-> written[s][n].body, len |-> written[s][n].len] : n \in Pongs(s)}
            = Echoes(written[s])
    BY <2>2 DEF Echoes
  <2>5. {[from |-> Start(sent[s], n) + PayloadFrom(sent[s][n]), len |-> sent[s][n].len] :
            n \in Pings(s)}
            = {PayloadAt(sent[s], n) : n \in Answerable(sent[s], 1, received[s])}
    BY <2>3 DEF PayloadAt
  <2> QED BY <2>1, <2>2, <2>4, <2>5 DEF Talks, Rising
<1>2. CfdInv /\ TalkInv => PongsMatchPings
  BY <1>1
<1> QED BY <1>2, CfdTalks, PTL

\* No connection stays open once a close frame has arrived in full, however it was cut, and
\* the server writes nothing after its own.
THEOREM CfdGoodbyeIsFinal == Spec => []GoodbyeIsFinal
<1>1. ASSUME CfdInv, TalkInv PROVE GoodbyeIsFinal
  <2>1. ASSUME NEW s \in Sockets, phase[s] = "open", NEW n \in 1 .. Len(sent[s]),
               sent[s][n].opcode = CloseOpcode
        PROVE  received[s] < Start(sent[s], n + 1)
    <3>1. TalkTypes /\ Talks(s) /\ Attends(s)
      BY <1>1, <2>1 DEF TalkInv, Talks
    <3>2. PICK frames \in Seq(DisplayFrame) : frames = sent[s]
      BY <3>1, FramesOf
    <3>3. PICK k \in 1 .. Len(frames) + 1 : AtFrame(s, k)
      BY <3>1, <3>2 DEF Attends
    <3>4. ~(n < k)
      <4>1. n < k => n \in 1 .. k - 1
        BY <2>1, <3>2
      <4> QED BY <2>1, <3>2, <3>3, <4>1 DEF AtFrame
    <3>5. k <= Len(frames) /\ k + 1 \in 1 .. n + 1 /\ n + 1 \in 1 .. Len(frames) + 1
      BY <2>1, <3>2, <3>4
    <3>6. received[s] < Start(frames, k + 1)
      BY <3>2, <3>3, <3>5 DEF AtFrame, Boundary
    <3>7. Start(frames, k + 1) <= Start(frames, n + 1) /\ Start(frames, n + 1) \in Nat
          /\ Start(frames, k + 1) \in Nat
      BY <3>5, StartsGrow
    <3>8. received[s] \in Nat
      BY <3>1, FramesOf
    <3>9. received[s] < Start(frames, n + 1)
      BY <3>6, <3>7, <3>8
    <3> QED BY <3>2, <3>9
  <2>2. ASSUME NEW s \in Sockets, NEW n \in 1 .. Len(written[s]) - 1
        PROVE  written[s][n].opcode # CloseOpcode
    <3>1. CloseIsLast(written[s]) /\ TalkTypes
      BY <1>1 DEF TalkInv, Talks
    <3>2. Len(written[s]) \in Nat
      BY <3>1 DEF TalkTypes
    <3>3. n \in 1 .. Len(written[s]) /\ n # Len(written[s])
      BY <2>2, <3>2
    <3> QED BY <3>1, <3>3 DEF CloseIsLast
  <2> QED BY <2>1, <2>2 DEF GoodbyeIsFinal
<1>2. CfdInv /\ TalkInv => GoodbyeIsFinal
  BY <1>1
<1> QED BY <1>2, CfdTalks, PTL
=============================================================================
