----------------------------- MODULE CfdGateway -----------------------------
(***************************************************************************)
(* CfdGatewayService: the customer displays of the branches, connected by  *)
(* WebSocket to the HTTP server of the backend.  One action per event that *)
(* Node delivers (an upgrade, a chunk, the end or an error of a            *)
(* connection) and per call of publishCartState(), each with everything    *)
(* its handler does before it returns: no handler here awaits anything.    *)
(*                                                                         *)
(* TCP delivers what a display has sent in order, but cut into chunks as   *)
(* it likes.  A buffer always holds the last bytes that have arrived, so   *)
(* it is represented by how many they are, and a payload by where it       *)
(* starts in what the display has sent.                                    *)
(***************************************************************************)
EXTENDS WebSocketFrame, SequencesExt

CONSTANTS
    Sockets,       \* the connections that are open at a time; one that is over is made anew
    Branches,      \* the branch ids, as spelled in the URL or by the publisher
    NoBranch,      \* the URL of a connection is not that of a display
    DisplayFrames, \* what a display may send: [opcode, len]
    MaxFrames,     \* bound: frames sent by displays
    MaxPublishes,  \* bound: snapshots published
    MaxFaults      \* bound: connections that break, and ends of the process

DisplayFrame == [opcode : 0 .. 15, len : Nat]

ASSUME CfdAssumption ==
    /\ NoBranch \notin Branches
    /\ DisplayFrames \subseteq DisplayFrame
    /\ {MaxFrames, MaxPublishes, MaxFaults} \subseteq Nat

VARIABLES
    phase,           \* per socket: how far the connection has come
    request,         \* per socket: the branch in the URL, and whether the headers are right
    sent,            \* per socket: the frames the display has sent
    received,        \* per socket: how many of their bytes the server has been given
    fin,             \* per socket: after which byte the display has ended, or NotEnded
    written,         \* per socket: the frames the server has written
    clients,         \* per branch: its sockets (no entry and an empty one are the same)
    socketBranches,  \* a map from sockets to their branches
    socketBuffers,   \* a map from sockets to how many bytes wait for the rest of a frame
    listening,       \* the sockets to which the listeners of registerClient are attached
    latestSnapshots, \* per branch: a number in the order of publication
    publishes, faults

displays == <<request, sent, fin>>
registry == <<clients, socketBranches, socketBuffers, listening>>
counters == <<publishes, faults>>
cfdVars == <<phase, displays, received, written, registry, latestSnapshots,
             counters>>

NotEnded == -1

\* A snapshot is its number: the items, amounts and length of it decide nothing here.
NoSnapshot == 0

\* "halfOpen": the display has ended its side and the server has not, nor ever will,
\* as the HTTP server allows half-open sockets; "ending": the other way round.
Phase == {"closed", "asked", "unanswered", "open", "halfOpen", "ending"}

NoRequest == [branch |-> NoBranch, valid |-> FALSE]

Init ==
    /\ phase = [s \in Sockets |-> "closed"]
    /\ request = [s \in Sockets |-> NoRequest]
    /\ sent = [s \in Sockets |-> <<>>]
    /\ received = [s \in Sockets |-> 0]
    /\ fin = [s \in Sockets |-> NotEnded]
    /\ written = [s \in Sockets |-> <<>>]
    /\ clients = [b \in Branches |-> {}]
    /\ socketBranches = <<>>
    /\ socketBuffers = <<>>
    /\ listening = {}
    /\ latestSnapshots = [b \in Branches |-> NoSnapshot]
    /\ publishes = 0 /\ faults = 0

-----------------------------------------------------------------------------
(* What a display has sent, as bytes.                                      *)

\* A display masks its frames: the mask bit, and four bytes before the payload.
DisplayHeader(frame) == [Header(frame.opcode, frame.len) EXCEPT ![2] = @ + 128]

PayloadFrom(frame) == Len(DisplayHeader(frame)) + 4

FrameSize(frame) == PayloadFrom(frame) + frame.len

\* Where the n-th frame starts.
Start(frames, n) ==
    FoldLeft(LAMBDA sum, frame : sum + FrameSize(frame), 0, SubSeq(frames, 1, n - 1))

Total(frames) == Start(frames, Len(frames) + 1)

\* The byte at a position; those of masks and payloads do not matter.
ByteAt(frames, at) ==
    LET inHeader == {n \in 1 .. Len(frames) :
                        at - Start(frames, n) \in 0 .. Len(DisplayHeader(frames[n])) - 1}
    IN  IF inHeader = {} THEN 0
        ELSE LET n == CHOOSE n \in inHeader : TRUE
             IN  DisplayHeader(frames[n])[at - Start(frames, n) + 1]

\* How many bytes of what s has sent will ever arrive.
Arriving(s) == IF fin[s] = NotEnded THEN Total(sent[s]) ELSE fin[s]

\* Where a chunk may end: in each frame after the first byte, in the extended length,
\* before the mask, before the last byte and at the end.
Cuts(s) ==
    {at \in UNION {{Start(sent[s], n) + k : k \in
                       {1, 3, Len(DisplayHeader(sent[s][n])),
                        FrameSize(sent[s][n]) - 1, FrameSize(sent[s][n])}} :
                   n \in 1 .. Len(sent[s])} :
        at \in received[s] + 1 .. Arriving(s)}

-----------------------------------------------------------------------------
(* The displays.                                                           *)

\* A display, or something else, asks the HTTP server for an upgrade.
Connect(s) ==
    /\ phase[s] = "closed"
    /\ phase' = [phase EXCEPT ![s] = "asked"]
    /\ \E asked \in {NoRequest} \cup [branch : Branches, valid : BOOLEAN] :
          request' = [request EXCEPT ![s] = asked]
    /\ UNCHANGED <<sent, received, fin, written, registry, latestSnapshots, counters>>

FramesSent == FoldFunction(LAMBDA frames, sum : sum + Len(frames), 0, sent)

\* Only what a display does whose request is right matters.
Send(s) ==
    /\ phase[s] \in {"asked", "open"} /\ request[s].valid
    /\ fin[s] = NotEnded
    /\ FramesSent < MaxFrames
    /\ \E frame \in DisplayFrames : sent' = [sent EXCEPT ![s] = Append(@, frame)]
    /\ UNCHANGED <<phase, request, received, fin, written, registry,
                   latestSnapshots, counters>>

\* The display ends its side, after its last frame or in the middle of one.
HangUp(s) ==
    /\ phase[s] \in {"asked", "open", "ending"} /\ request[s].valid
    /\ fin[s] = NotEnded
    /\ \E at \in {received[s], Total(sent[s])} : fin' = [fin EXCEPT ![s] = at]
    /\ UNCHANGED <<phase, request, sent, received, written, registry,
                   latestSnapshots, counters>>

-----------------------------------------------------------------------------
(* The handlers of the server.                                             *)

\* Frames that the server writes begin with Header(opcode, len).
Frame(opcode, len, body) == [opcode |-> opcode, len |-> len, body |-> body]

\* sendJson(): the body is the number of the snapshot.
SnapshotFrame(snapshot) == Frame(TextOpcode, 0, snapshot)

CloseFrame == Frame(CloseOpcode, 0, 0)

PongFrame_AsPing(from, len) == Frame(PingOpcode, len, from)

\* A pong carries the payload of its ping: where that starts in what was sent.
PongFrame(from, len) == Frame(PongOpcode, len, from)

Closing_GoesOn(rest) == [rest EXCEPT !.writes = <<CloseFrame>> \o @, !.closed = TRUE]

\* It answers a close frame, ends its side and returns, whatever the rest holds.
Closing(rest) == [writes |-> <<CloseFrame>>, closed |-> TRUE, held |-> 0]

\* The loop of handleSocketData() over the bytes from .. to - 1 of what was sent:
\* which frames it writes, whether it met a close frame, and what it keeps.
Drain(frames, from, to) ==
    LET drained[at \in from .. to] ==
            LET frame == Decode(to - at, [k \in 0 .. 9 |-> ByteAt(frames, at + k)])
                rest == drained[at + frame.bytesRead]
            IN  CASE frame = NoFrame ->
                        [writes |-> <<>>, closed |-> FALSE, held |-> to - at]
                  [] frame.opcode = CloseOpcode -> Closing(rest)
                  [] frame.opcode = PingOpcode ->
                        [rest EXCEPT !.writes =
                            <<PongFrame(at + frame.from, frame.len)>> \o @]
                  [] OTHER -> rest
    IN  drained[from]

\* The connections of S are over, and with them what was on its way.
Close(S) ==
    /\ phase' = [s \in Sockets |-> IF s \in S THEN "closed" ELSE phase[s]]
    /\ request' = [s \in Sockets |-> IF s \in S THEN NoRequest ELSE request[s]]
    /\ sent' = [s \in Sockets |-> IF s \in S THEN <<>> ELSE sent[s]]
    /\ received' = [s \in Sockets |-> IF s \in S THEN 0 ELSE received[s]]
    /\ fin' = [s \in Sockets |-> IF s \in S THEN NotEnded ELSE fin[s]]
    /\ written' = [s \in Sockets |-> IF s \in S THEN <<>> ELSE written[s]]

\* Map.set and Map.delete.
Put(map, key, value) ==
    [k \in DOMAIN map \cup {key} |-> IF k = key THEN value ELSE map[k]]

Drop(map, keys) == [k \in DOMAIN map \ keys |-> map[k]]

Unregister_KeepsBuffer(S) ==
    /\ clients' = [b \in Branches |->
           clients[b] \ {s \in S \cap DOMAIN socketBranches : socketBranches[s] = b}]
    /\ socketBranches' = Drop(socketBranches, S)
    /\ UNCHANGED socketBuffers
    /\ listening' = listening \ (S \cap DOMAIN socketBranches)

\* unregisterClient() for each socket of S; it does nothing for one it does not know.
Unregister(S) ==
    LET known == S \cap DOMAIN socketBranches
    IN  /\ clients' = [b \in Branches |->
                          clients[b] \ {s \in known : socketBranches[s] = b}]
        /\ socketBranches' = Drop(socketBranches, known)
        /\ socketBuffers' = Drop(socketBuffers, known)
        /\ listening' = listening \ known

\* The maps after registerClient(), and a first chunk that leaves `held` bytes.
Register(s, b, held) ==
    /\ clients' = [clients EXCEPT ![b] = @ \cup {s}]
    /\ socketBranches' = Put(socketBranches, s, b)
    /\ socketBuffers' = Put(socketBuffers, s, held)
    /\ listening' = listening \cup {s}

Greeting_Silent(b) == <<>>

\* The snapshot that registerClient() sends, if there is one.
Greeting(b) ==
    IF latestSnapshots[b] = NoSnapshot THEN <<>>
    ELSE <<SnapshotFrame(latestSnapshots[b])>>

\* handleUpgrade() leaves a socket that is not for it alone: no one answers it.
UpgradeOther(s) ==
    /\ phase[s] = "asked"
    /\ request[s].branch = NoBranch
    /\ phase' = [phase EXCEPT ![s] = "unanswered"]
    /\ UNCHANGED <<displays, received, written, registry, latestSnapshots, counters>>

\* It answers 400 and destroys the socket.
UpgradeRefused(s) ==
    /\ phase[s] = "asked"
    /\ request[s].branch # NoBranch
    /\ ~request[s].valid
    /\ Close({s})
    /\ UNCHANGED <<registry, latestSnapshots, counters>>

\* It answers 101, registers the socket, greets it, and handles what has arrived with
\* the request.
Upgrade(s) ==
    /\ phase[s] = "asked"
    /\ request[s].branch # NoBranch
    /\ request[s].valid
    /\ \E to \in Cuts(s) \cup {0} :
          LET head == Drain(sent[s], 0, to)
          IN  /\ received' = [received EXCEPT ![s] = to]
              /\ written' = [written EXCEPT ![s] = Greeting(request[s].branch) \o head.writes]
              /\ \/ /\ ~head.closed
                    /\ Register(s, request[s].branch, head.held)
                    /\ phase' = [phase EXCEPT ![s] = "open"]
                 \/ /\ head.closed
                    /\ UNCHANGED registry
                    /\ phase' = [phase EXCEPT ![s] = "ending"]
    /\ UNCHANGED <<displays, latestSnapshots, counters>>

\* handleSocketData()
Data(s) ==
    /\ s \in listening
    /\ \E to \in Cuts(s) :
          LET chunk == Drain(sent[s], received[s] - socketBuffers[s], to)
          IN  /\ received' = [received EXCEPT ![s] = to]
              /\ written' = [written EXCEPT ![s] = @ \o chunk.writes]
              /\ \/ /\ ~chunk.closed
                    /\ socketBuffers' = Put(socketBuffers, s, chunk.held)
                    /\ UNCHANGED <<phase, clients, socketBranches, listening>>
                 \/ /\ chunk.closed
                    /\ phase' = [phase EXCEPT ![s] = "ending"]
                    /\ Unregister({s})
    /\ UNCHANGED <<displays, latestSnapshots, counters>>

\* The display's end has been read, and everything before it: 'end'.
End(s) ==
    /\ fin[s] = received[s]
    /\ \/ /\ phase[s] = "open"
          /\ phase' = [phase EXCEPT ![s] = "halfOpen"]
          /\ UNCHANGED <<displays, received, written>>
       \/ phase[s] = "ending" /\ Close({s})
    /\ Unregister({s})
    /\ UNCHANGED <<latestSnapshots, counters>>

\* The process ends, by onModuleDestroy() or without, and is started again: its
\* connections and its memory are gone.
Restart ==
    /\ Close(Sockets)
    /\ clients' = [b \in Branches |-> {}]
    /\ socketBranches' = <<>>
    /\ socketBuffers' = <<>>
    /\ listening' = {}
    /\ latestSnapshots' = [b \in Branches |-> NoSnapshot]

\* A connection breaks: 'error', then 'close'.  The listener of registerClient()
\* unregisters the socket; where it is not attached (an upgrade that was left alone,
\* a socket that was unregistered before) nothing handles the error, and Node ends.
Reset(s) ==
    /\ phase[s] \in {"unanswered", "open", "halfOpen", "ending"}
    /\ faults < MaxFaults
    /\ faults' = faults + 1
    /\ \/ s \in listening /\ Close({s}) /\ Unregister({s}) /\ UNCHANGED latestSnapshots
       \/ s \notin listening /\ Restart
    /\ UNCHANGED publishes

Stop ==
    /\ faults < MaxFaults
    /\ faults' = faults + 1
    /\ Restart
    /\ UNCHANGED publishes

\* The sockets that broadcast() writes to.
Broadcast(b) == {s \in clients[b] : phase[s] = "open"}

\* publishCartState(), called by POST /cfd/:branchId/cart-state or for an order by
\* publishOrderSnapshot(): the snapshot is kept and broadcast, and broadcast() drops
\* the sockets that can no longer be written to.
PublishCartState(b) ==
    /\ publishes < MaxPublishes
    /\ publishes' = publishes + 1
    /\ latestSnapshots' = [latestSnapshots EXCEPT ![b] = publishes']
    /\ written' = [s \in Sockets |->
           IF s \in Broadcast(b) THEN Append(written[s], SnapshotFrame(publishes'))
           ELSE written[s]]
    /\ Unregister(clients[b] \ Broadcast(b))
    /\ UNCHANGED <<phase, displays, received, faults>>

Serve(s) == UpgradeOther(s) \/ UpgradeRefused(s) \/ Upgrade(s) \/ Data(s) \/ End(s)

Next ==
    \/ \E s \in Sockets : Connect(s) \/ Send(s) \/ HangUp(s) \/ Serve(s) \/ Reset(s)
    \/ \E b \in Branches : PublishCartState(b)
    \/ Stop

Spec == Init /\ [][Next]_cfdVars

-----------------------------------------------------------------------------
(* Properties.                                                             *)

ServerFrame == [opcode : {TextOpcode, CloseOpcode, PongOpcode}, len : Nat, body : Nat]

\* Every map of the gateway and every connection has its type, and a buffer never
\* holds more than has arrived.
CfdTypeOK ==
    /\ phase \in [Sockets -> Phase]
    /\ request \in [Sockets -> [branch : Branches \cup {NoBranch}, valid : BOOLEAN]]
    /\ sent \in [Sockets -> Seq(DisplayFrames)]
    /\ received \in [Sockets -> Nat]
    /\ fin \in [Sockets -> Nat \cup {NotEnded}]
    /\ written \in [Sockets -> Seq(ServerFrame)]
    /\ clients \in [Branches -> SUBSET Sockets]
    /\ socketBranches \in [DOMAIN socketBranches -> Branches]
    /\ \A s \in DOMAIN socketBuffers : socketBuffers[s] \in 0 .. received[s]
    /\ listening \subseteq Sockets
    /\ latestSnapshots \in [Branches -> 0 .. MaxPublishes]
    /\ publishes \in 0 .. MaxPublishes
    /\ faults \in 0 .. MaxFaults

\* However connections open, say goodbye, end half-way or break, the three maps of the
\* gateway and the listeners agree: a socket is in exactly the set of its branch, has a
\* buffer, and has someone to handle its errors, or is in none of them; and the sockets
\* in them are open, so a broadcast drops no one (registerClient, unregisterClient,
\* handleSocketData, which returns before it stores a buffer for a closed socket).
RegistriesAgree ==
    /\ \A s \in Sockets : \A b \in Branches :
          s \in clients[b] <=> s \in DOMAIN socketBranches /\ socketBranches[s] = b
    /\ DOMAIN socketBranches = {s \in Sockets : phase[s] = "open"}
    /\ DOMAIN socketBuffers = DOMAIN socketBranches
    /\ listening = DOMAIN socketBranches
    /\ \A s \in DOMAIN socketBranches : socketBranches[s] = request[s].branch

\* The last snapshot among some frames.
LastSnapshot(frames) ==
    LET snapshots == {n \in DOMAIN frames : frames[n].opcode = TextOpcode}
    IN  IF snapshots = {} THEN NoSnapshot ELSE frames[Max(snapshots)].body

\* Whenever a display joins, between any two publications for any branch, the last
\* snapshot written to it is the one that GET /cfd/:branchId/cart-state returns for its
\* branch (registerClient sends the latest, publishCartState keeps and broadcasts).
ShowsLatest ==
    \A s \in Sockets : \A b \in Branches :
        s \in clients[b] => LastSnapshot(written[s]) = latestSnapshots[b]

Pings(s) ==
    {n \in 1 .. Len(sent[s]) :
        /\ sent[s][n].opcode = PingOpcode
        /\ Start(sent[s], n + 1) <= received[s]
        /\ \A m \in 1 .. n : sent[s][m].opcode # CloseOpcode}

Pongs(s) == {n \in DOMAIN written[s] : written[s][n].opcode = PongOpcode}

\* However the bytes of a display are cut into chunks, every ping that has arrived in
\* full before a close frame has been answered by one pong with its payload, in order:
\* there are the same payloads on either side, and those of the pongs start one after
\* the other.
PongsMatchPings ==
    \A s \in Sockets :
        /\ {[from |-> written[s][n].body, len |-> written[s][n].len] : n \in Pongs(s)}
               = {[from |-> Start(sent[s], n) + PayloadFrom(sent[s][n]),
                   len |-> sent[s][n].len] : n \in Pings(s)}
        /\ \A m \in Pongs(s) : \A n \in Pongs(s) :
              m < n => written[s][m].body < written[s][n].body

\* Goodbyes are heard and kept: wherever the chunks are cut, no connection stays open once
\* a close frame has arrived in full, and nothing follows the server's close frame, neither
\* a pong for what came behind the display's close frame nor a broadcast.
GoodbyeIsFinal ==
    \A s \in Sockets :
        /\ phase[s] = "open" =>
              \A n \in 1 .. Len(sent[s]) :
                  sent[s][n].opcode = CloseOpcode => received[s] < Start(sent[s], n + 1)
        /\ \A n \in 1 .. Len(written[s]) - 1 : written[s][n].opcode # CloseOpcode
=============================================================================
