-------------------------- MODULE ConnectionProofs --------------------------
(***************************************************************************)
(* Safety of one connection for any set of workers, any number of pieces   *)
(* of a request and of complications: the events asked for, what becomes   *)
(* of a socket in two places, and the safety part of the exchange.         *)
(***************************************************************************)
EXTENDS Connection, FiniteSetTheorems, TLAPS

\* Where the connection is as a socket, and where as a job.
Has(w) == events[w] # {} \/ lst_done[w] > 0

Serves(w) == serving[w] # "no"

Nobody == \A w \in Workers : ~Has(w)

NoJob == lstSvc = 0 /\ lstSvcLow = 0 /\ \A w \in Workers : ~Serves(w)

\* As a socket it is in one place at most, whatever else is going on.
OneSocket ==
  /\ \A w, v \in Workers : Has(w) /\ Has(v) => w = v
  /\ \A w \in Workers : events[w] # {} => lst_done[w] = 0

\* Except while the PipeServer waits for more, it is in one place at most as a socket
\* or as a job.
OnePlace ==
  toRead_ # 1 =>
    /\ Nobody \/ NoJob
    /\ lstSvc + lstSvcLow <= 1
    /\ \A w, v \in Workers : Serves(w) /\ Serves(v) => w = v
    /\ \A w \in Workers : Serves(w) => lstSvc + lstSvcLow = 0

\* A pending operation asks for what its TLS negotiation or else the operation needs.
Needed == IF handshake # "none" THEN {handshake}
          ELSE IF state = "Reading" THEN {"in"} ELSE {"out"}

Awaiting ==
  /\ handshake # "none" => tls
  /\ \A w \in Workers :
       events[w] # {} => /\ state \in {"Reading", "Writing"}
                         /\ events[w] = Needed
                         /\ rc_ => Needed = {rccode_}
                         /\ ~rc_ => handshake = "none"

\* The segments on their way from the client to the buffer of the service, which
\* Default has not.
InHand == IF kind # "Default" /\ state = "Reading" /\ \E w \in Workers : lst_done[w] > 0
          THEN rd_buf ELSE 0

Segments ==
  /\ rd_buf <= sent
  /\ buf_ + InHand + unread <= sent
  /\ split => unread < sent
  /\ ~split => unread = sent \/ (unread = 0 /\ sent = total)
  /\ rd_buf = total => unread = 0 /\ ~split
  /\ \A w \in Workers : kind # "Default" /\ state = "Reading" /\ lst_done[w] > 0
                       => rd_buf > 0

\* There has been a request, for WebServer a complete one; Default needs none.
Requested == CASE kind = "Default"   -> TRUE
               [] kind = "WebServer" -> rd_buf = total
               [] OTHER              -> rd_buf > 0

\* Services that answer by themselves do not use toRead_ or the queues.
Immediate ==
  kind \notin PipeKinds =>
    /\ toRead_ = 0 /\ performed = 0 /\ NoJob /\ buf_ = 0
    /\ state = "Writing" => Requested

\* PipeService by the value of toRead_: the request is read and queued, the PipeServer
\* waits for more (for ever, since it looks at a copy), the request is performed, which
\* may panic, it is answered.  After the answer toRead_ is zero again and the connection is over.
Protocol ==
  kind \in PipeKinds =>
    /\ toRead_ = 0 =>
         /\ lstSvcLow = 0
         /\ \A w \in Workers : serving[w] # "performing"
         /\ \/ performed = 0 /\ state # "Writing"
            \/ performed = 1 /\ Nobody /\ NoJob
         /\ ~NoJob => rd_buf > 0 /\ buf_ = rd_buf
    /\ toRead_ = 1 =>
         /\ kind = "WebServer" /\ copy # total /\ performed = 0
         /\ state # "Writing" /\ lstSvcLow = 0
         /\ \A w \in Workers : serving[w] # "performing"
    /\ toRead_ = -1 =>
         /\ Nobody /\ lstSvc = 0 /\ Requested
         /\ performed \in {0, 1}
         /\ \A w \in Workers : /\ serving[w] = "performing" => performed = 1
                               /\ serving[w] = "taken" => performed = 0
         /\ lstSvcLow > 0 => performed = 0
    /\ toRead_ = -4 =>
         /\ NoJob /\ performed = 1 /\ Requested
         /\ state \notin {"Connected", "Reading"}

\* An answer has been given by a connection that is over.
Over == client = "answered" => Nobody /\ NoJob

IInv == /\ TypeOK /\ OneSocket /\ OnePlace /\ Awaiting
        /\ Segments /\ Immediate /\ Protocol /\ Over

-----------------------------------------------------------------------------
(* What Attempt does.                                                      *)

LEMMA Ranges ==
  ASSUME TypeOK
  PROVE  /\ total \in Nat \ {0} /\ sent \in Nat /\ unread \in Nat /\ rd_buf \in Nat
         /\ buf_ \in Nat /\ copy \in Nat /\ sent <= total
  <1>1. /\ total \in 1..MaxSegments /\ sent \in 0..total /\ unread \in 0..total
        /\ rd_buf \in 0..total /\ buf_ \in 0..total /\ copy \in 0..total
    BY Zenon DEF TypeOK
  <1> QED
    BY <1>1, BoundsAssumption

\* Nobody but w has the socket registered or done.
Alone(w) == \A v \in Workers \ {w} : ~Has(v)

\* The socket is registered for what it waits for, or pushed.
LEMMA AttemptOutcome ==
  ASSUME TypeOK, Awaiting, NEW w \in Workers, NEW op \in {"Reading", "Writing"},
         NEW done \in {0}, Attempt(w, op, done)
  PROVE  /\ handshake' # "none" => tls
         /\ sent' = sent
         /\ \/ /\ Accept(w, op, IF handshake' # "none" THEN handshake'
                                ELSE IF op = "Reading" THEN "in" ELSE "out")
               /\ lst_done' = [lst_done EXCEPT ![w] = 0]
               /\ UNCHANGED <<rd_buf, unread, split>>
            \/ /\ PushDone(w, op, 0)
               /\ op = "Reading" /\ unread > 0 /\ rd_buf' = unread /\ unread' = 0
               /\ split' = (split \/ unread < total)
            \/ /\ op = "Writing" /\ PushDone(w, op, 0)
               /\ UNCHANGED <<rd_buf, unread, split>>
            \/ /\ Gone /\ \E st \in {"PeerClosed", "Error"} : PushDone(w, st, 0)
               /\ UNCHANGED <<rd_buf, unread, split>>
  <1> USE DEF TypeOK
  <1>1. PICK h \in {"none", "in", "out"}, f \in BOOLEAN :
          /\ h # "none" => tls
          /\ \/ /\ Stuck(h, f) /\ Accept(w, op, h) /\ handshake' = h
                /\ lst_done' = [lst_done EXCEPT ![w] = done]
                /\ UNCHANGED <<rd_buf, unread, split>>
             \/ /\ handshake' = "none"
                /\ Accept(w, op, IF op = "Reading" THEN "in" ELSE "out")
                /\ lst_done' = [lst_done EXCEPT ![w] = done]
                /\ UNCHANGED <<rd_buf, unread, split>>
             \/ /\ op = "Reading" /\ unread > 0 /\ handshake' = "none"
                /\ PushDone(w, op, done)
                /\ rd_buf' = unread /\ unread' = 0
                /\ split' = (split \/ unread < total)
             \/ /\ op = "Writing" /\ handshake' = "none"
                /\ PushDone(w, op, done)
                /\ UNCHANGED <<rd_buf, unread, split>>
             \/ /\ Gone /\ UNCHANGED handshake
                /\ \E st \in IF op = "Reading" THEN {"PeerClosed", "Error"} ELSE {"Error"} :
                      PushDone(w, st, done)
                /\ UNCHANGED <<rd_buf, unread, split>>
    BY DEF Attempt, Awaiting
  <1>2. sent' = sent
    BY DEF Attempt
  <1> QED
    BY <1>1, <1>2 DEF Stuck, Awaiting

\* The same, spelled out.
LEMMA AttemptLists ==
  ASSUME TypeOK, Awaiting, NEW w \in Workers, NEW op \in {"Reading", "Writing"},
         NEW done \in {0}, Attempt(w, op, done)
  PROVE  \/ /\ lst_done' = [lst_done EXCEPT ![w] = 0]
            /\ events' = [events EXCEPT ![w] = Needed']
            /\ rc_' => Needed' = {rccode_'}
            /\ ~rc_' => handshake' = "none"
            /\ state' = op
            /\ UNCHANGED <<rd_buf, unread, split>>
         \/ /\ lst_done' = [lst_done EXCEPT ![w] = 1]
            /\ events' = [events EXCEPT ![w] = {}]
            /\ \/ /\ state' = "Reading" /\ op = "Reading"
                  /\ unread > 0 /\ rd_buf' = unread /\ unread' = 0
                  /\ split' = (split \/ unread < total)
               \/ /\ \/ state' = op /\ op = "Writing"
                     \/ state' \in {"PeerClosed", "Error"} /\ Gone
                  /\ UNCHANGED <<rd_buf, unread, split>>
  <1> DEFINE want == IF handshake' # "none" THEN handshake'
                     ELSE IF op = "Reading" THEN "in" ELSE "out"
  <1>1. ASSUME Accept(w, op, want), handshake' # "none" => tls
        PROVE  /\ events' = [events EXCEPT ![w] = Needed'] /\ state' = op
               /\ rc_' => Needed' = {rccode_'}
               /\ ~rc_' => handshake' = "none"
    <2>1. /\ state' = op /\ rc_' = tls
          /\ events' = [events EXCEPT ![w] = AskedEvents(op, rc_', rccode_')]
          /\ rccode_' = IF tls THEN want ELSE rccode_
      BY <1>1, Zenon DEF Accept
    <2>2. Needed' = {want}
      BY <2>1, Zenon DEF Needed
    <2>3. CASE tls
      <3>1. rc_' /\ rccode_' = want
        BY <2>1, <2>3, Zenon
      <3>2. AskedEvents(op, rc_', rccode_') = {rccode_'}
        BY <3>1, Zenon DEF AskedEvents
      <3> HIDE DEF want
      <3> QED
        BY <2>1, <2>2, <3>1, <3>2, Zenon
    <2>4. CASE ~tls
      <3>1. ~rc_' /\ handshake' = "none"
        BY <1>1, <2>1, <2>4, Zenon
      <3>2. AskedEvents(op, rc_', rccode_') = IF op = "Reading" THEN {"in"} ELSE {"out"}
        BY <3>1, Zenon DEF AskedEvents
      <3> QED
        BY <2>1, <2>2, <3>1, <3>2
    <2> QED
      BY <2>3, <2>4
  <1>2. ASSUME NEW st, PushDone(w, st, 0)
        PROVE  /\ lst_done' = [lst_done EXCEPT ![w] = 1]
               /\ events' = [events EXCEPT ![w] = {}] /\ state' = st
    BY <1>2 DEF PushDone
  <1> HIDE DEF want
  <1> QED
    BY <1>1, <1>2, AttemptOutcome DEF want

\* As a socket the connection stays with w, which waits for what is needed.
LEMMA AttemptPlaces ==
  ASSUME TypeOK, Awaiting, NEW w \in Workers, NEW op \in {"Reading", "Writing"},
         NEW done \in {0}, Attempt(w, op, done), Alone(w), tls' = tls
  PROVE  OneSocket' /\ Awaiting' /\ Alone(w)'
  <1>1. \A v \in Workers \ {w} : events'[v] = {} /\ lst_done'[v] = 0
    BY AttemptLists DEF TypeOK, Alone, Has
  <1>2. /\ events'[w] # {} => lst_done'[w] = 0
        /\ lst_done'[w] \in {0, 1}
        /\ events'[w] # {} => /\ state' = op /\ events'[w] = Needed'
                              /\ rc_' => Needed' = {rccode_'}
                              /\ ~rc_' => handshake' = "none"
    BY AttemptLists DEF TypeOK
  <1>3. handshake' # "none" => tls
    BY AttemptOutcome
  <1> QED
    BY <1>1, <1>2, <1>3 DEF OneSocket, Alone, Has, Awaiting

\* It ends in the operation or its failure, and only a read changes rd_buf.
LEMMA AttemptState ==
  ASSUME TypeOK, Awaiting, NEW w \in Workers, NEW op \in {"Reading", "Writing"},
         NEW done \in {0}, Attempt(w, op, done)
  PROVE  /\ state' \in {op, "PeerClosed", "Error"}
         /\ op = "Writing" => UNCHANGED <<rd_buf, unread, split>>
  BY AttemptLists

\* It takes the segments in the kernel to the socket, or leaves them where they are.
LEMMA AttemptSegments ==
  ASSUME TypeOK, Awaiting, Segments, NEW w \in Workers,
         NEW op \in {"Reading", "Writing"}, NEW done \in {0}, Attempt(w, op, done),
         Alone(w), NEW b \in Nat, buf_' = b, b + unread <= sent, total' = total
  PROVE  Segments'
  <1> DEFINE Stays == rd_buf' = rd_buf /\ unread' = unread /\ (split' <=> split)
             Reads == /\ unread > 0 /\ rd_buf' = unread /\ unread' = 0
                      /\ split' <=> (split \/ unread < total)
  <1>1. /\ sent' = sent
        /\ Stays \/ Reads
        /\ Stays /\ state' = "Reading" => lst_done' = [lst_done EXCEPT ![w] = 0]
    <2>1. sent' = sent
      BY AttemptOutcome
    <2>2. \/ lst_done' = [lst_done EXCEPT ![w] = 0] /\ Stays
          \/ Reads
          \/ state' # "Reading" /\ Stays
      BY AttemptLists, Zenon
    <2>3. Reads => ~Stays
      BY DEF TypeOK
    <2> HIDE DEF Stays, Reads
    <2> QED
      BY <2>1, <2>2, <2>3
  <1>2. /\ sent \in Nat /\ unread \in Nat /\ rd_buf \in Nat /\ total \in Nat /\ sent <= total
    BY Ranges
  <1>3. CASE Stays
    <2>1. \A v \in Workers : state' = "Reading" => ~(lst_done'[v] > 0)
      BY <1>1, <1>3 DEF TypeOK, Alone, Has
    <2>2. InHand' = 0
      BY <2>1 DEF InHand
    <2>3. /\ split' => unread' < sent'
          /\ ~split' => unread' = sent' \/ (unread' = 0 /\ sent' = total')
          /\ rd_buf' = total' => unread' = 0 /\ ~split'
      BY <1>1, <1>3, Zenon DEF Segments
    <2>4. rd_buf' <= sent' /\ b + InHand' + unread' <= sent'
      <3>1. rd_buf <= sent
        BY Zenon DEF Segments
      <3>2. rd_buf' = rd_buf /\ unread' = unread /\ sent' = sent
        BY <1>1, <1>3, Zenon
      <3> QED
        BY <1>2, <2>2, <3>1, <3>2
    <2> QED
      BY <2>1, <2>3, <2>4, Zenon DEF Segments
  <1>4. CASE Reads
    <2>0. unread > 0 /\ rd_buf' = unread /\ unread' = 0 /\ sent' = sent
      BY <1>1, <1>4, Zenon
    <2>1. InHand' = 0 \/ InHand' = unread
      BY <2>0 DEF InHand
    <2>2. unread' < sent' /\ unread' = 0 /\ rd_buf' > 0
      BY <1>2, <2>0
    <2>3. ASSUME ~split'
          PROVE  unread = total /\ sent = total
      <3>1. ~(unread < total) /\ ~split
        BY <1>4, <2>3, Zenon
      <3>2. unread = sent \/ (unread = 0 /\ sent = total)
        BY <3>1, Zenon DEF Segments
      <3> QED
        BY <1>2, <2>0, <3>1, <3>2
    <2>4. ASSUME rd_buf' = total', split'
          PROVE  FALSE
      <3>1. unread = total
        BY <2>0, <2>4, Zenon
      <3>2. split
        <4>1. ~(unread < total)
          BY <1>2, <3>1
        <4> QED
          BY <1>4, <2>4, <4>1, Zenon
      <3>3. unread < sent
        BY <3>2, Zenon DEF Segments
      <3> QED
        BY <1>2, <3>1, <3>3
    <2>5. rd_buf' <= sent' /\ b + InHand' + unread' <= sent'
      <3>1. CASE InHand' = 0
        BY <1>2, <2>0, <3>1
      <3>2. CASE InHand' = unread
        BY <1>2, <2>0, <3>2
      <3> QED
        BY <2>1, <3>1, <3>2
    <2>6. ~split' => unread' = 0 /\ sent' = total'
      BY <2>0, <2>3, Zenon
    <2> QED
      BY <2>2, <2>4, <2>5, <2>6, Zenon DEF Segments
  <1> QED
    BY <1>1, <1>3, <1>4

\* Whatever it changes keeps its range.
LEMMA AttemptTypes ==
  ASSUME TypeOK, Awaiting, NEW w \in Workers, NEW op \in {"Reading", "Writing"},
         NEW done \in {0}, Attempt(w, op, done)
  PROVE  /\ state' \in {"Connected", "Reading", "Writing", "PeerClosed", "Error"}
         /\ events' \in [Workers -> SUBSET {"in", "out"}]
         /\ lst_done' \in [Workers -> 0..1]
         /\ rc_' \in BOOLEAN /\ rccode_' \in {"none", "in", "out"}
         /\ rd_buf' \in 0..total /\ unread' \in 0..total /\ sent' = sent
         /\ split' \in BOOLEAN /\ full' \in BOOLEAN /\ record' \in BOOLEAN
         /\ handshake' \in {"none", "in", "out"} /\ turns' \in 0..MaxTurns
  <1>1. state' \in {"Connected", "Reading", "Writing", "PeerClosed", "Error"}
    BY AttemptState
  <1>2. handshake' \in {"none", "in", "out"} /\ turns' \in 0..MaxTurns
    BY BoundsAssumption DEF Attempt, TypeOK
  <1>3. Needed' \in SUBSET {"in", "out"}
    BY <1>2 DEF Needed
  <1>4. events' \in [Workers -> SUBSET {"in", "out"}]
    BY <1>3, AttemptLists DEF TypeOK
  <1>5. lst_done' \in [Workers -> 0..1]
    BY AttemptLists DEF TypeOK
  <1>6. rd_buf' \in 0..total /\ unread' \in 0..total /\ sent' = sent
    BY BoundsAssumption, AttemptLists, AttemptOutcome DEF TypeOK
  <1>7. rccode_' \in {"none", "in", "out"}
    BY <1>2, AttemptOutcome DEF Accept, PushDone, TypeOK
  <1>8. rc_' \in BOOLEAN
    BY AttemptOutcome, Zenon DEF Accept, PushDone, TypeOK
  <1>9. split' \in BOOLEAN
    BY AttemptLists, Zenon DEF TypeOK
  <1>10. full' \in BOOLEAN /\ record' \in BOOLEAN
    BY Zenon DEF Attempt, TypeOK
  <1> QED
    BY <1>1, <1>2, <1>4, <1>5, <1>6, <1>7, <1>8, <1>9, <1>10

-----------------------------------------------------------------------------
(* Where the connection is as a socket.                                    *)

LEMMA DoneAlone ==
  ASSUME TypeOK, OneSocket, NEW w \in Workers, lst_done[w] > 0
  PROVE  lst_done[w] - 1 = 0 /\ Has(w) /\ Alone(w)
  <1>1. lst_done[w] \in 0..1
    BY DEF TypeOK
  <1> QED
    BY <1>1 DEF OneSocket, Has, Alone

LEMMA PendingAlone ==
  ASSUME OneSocket, NEW w \in Workers, events[w] # {}
  PROVE  lst_done[w] = 0 /\ Has(w) /\ Alone(w)
  BY DEF OneSocket, Has, Alone

\* A socket that nobody has is free for a job to write to.
LEMMA FreeAlone ==
  ASSUME TypeOK, Nobody, NEW w \in Workers
  PROVE  lst_done[w] = 0 /\ Alone(w)
  <1>1. lst_done[w] \in 0..1 /\ ~(lst_done[w] > 0)
    BY DEF TypeOK, Nobody, Has
  <1> QED
    BY <1>1 DEF Alone, Nobody

\* A dropped socket is nowhere.
LEMMA DropPlaces ==
  ASSUME TypeOK, Awaiting, NEW w \in Workers, NEW done \in {0}, Drop(w, done), Alone(w),
         tls' = tls
  PROVE  OneSocket' /\ Awaiting' /\ Nobody'
  <1>1. \A v \in Workers : events'[v] = {} /\ lst_done'[v] = 0
    BY DEF Drop, TypeOK, Alone, Has
  <1>2. handshake' = handshake
    BY DEF Drop, tcp
  <1> QED
    BY <1>1, <1>2 DEF OneSocket, Nobody, Has, Awaiting

LEMMA DropSegments ==
  ASSUME TypeOK, Segments, NEW w \in Workers, NEW done \in {0}, Drop(w, done), Alone(w),
         NEW b \in Nat, buf_' = b, b + unread <= sent, total' = total
  PROVE  Segments'
  <1>1. \A v \in Workers : lst_done'[v] = 0
    BY DEF Drop, TypeOK, Alone, Has
  <1>2. InHand' = 0
    BY <1>1 DEF InHand
  <1>3. /\ rd_buf' = rd_buf /\ unread' = unread /\ sent' = sent
        /\ split' = split
    BY DEF Drop, socket, tcp
  <1>4. b + InHand' + unread' <= sent'
    BY <1>2, <1>3, Ranges
  <1>5. \A v \in Workers : ~(lst_done'[v] > 0)
    BY <1>1
  <1>6. /\ rd_buf' <= sent'
        /\ split' => unread' < sent'
        /\ ~split' => unread' = sent' \/ (unread' = 0 /\ sent' = total')
        /\ rd_buf' = total' => unread' = 0 /\ ~split'
    BY <1>3, Zenon DEF Segments
  <1> QED
    BY <1>4, <1>5, <1>6, Zenon DEF Segments

\* The segments a service may take from the socket.
LEMMA Taken ==
  ASSUME TypeOK, Segments
  PROVE  /\ buf_ + unread <= sent
         /\ \A w \in Workers :
              kind # "Default" /\ state = "Reading" /\ lst_done[w] > 0
                => rd_buf + unread <= sent /\ buf_ + rd_buf + unread <= sent
         /\ unread <= sent
  <1>1. InHand \in {0, rd_buf} /\ buf_ + InHand + unread <= sent
    BY Zenon DEF InHand, Segments
  <1>2. \A w \in Workers : kind # "Default" /\ state = "Reading" /\ lst_done[w] > 0
                           => InHand = rd_buf
    BY DEF InHand
  <1> HIDE DEF InHand
  <1> QED
    BY <1>1, <1>2, Ranges

\* Sockets == the three parts of the invariant that are about the socket.
Sockets == OneSocket /\ Awaiting /\ Segments

LEMMA AttemptSockets ==
  ASSUME TypeOK, Sockets, NEW w \in Workers, NEW op \in {"Reading", "Writing"},
         NEW done \in {0}, Attempt(w, op, done), Alone(w), UNCHANGED fixed,
         NEW b \in Nat, buf_' = b, b + unread <= sent
  PROVE  Sockets'
  <1>1. tls' = tls /\ total' = total
    BY DEF fixed
  <1> QED
    BY <1>1, AttemptPlaces, AttemptSegments, Zenon DEF Sockets

LEMMA DropSockets ==
  ASSUME TypeOK, Sockets, NEW w \in Workers, NEW done \in {0}, Drop(w, done), Alone(w),
         UNCHANGED fixed, NEW b \in Nat, buf_' = b, b + unread <= sent
  PROVE  Sockets'
  <1>1. tls' = tls /\ total' = total
    BY DEF fixed
  <1> QED
    BY <1>1, DropPlaces, DropSegments, Zenon DEF Sockets

LEMMA StillSegments ==
  ASSUME Segments, kind' = kind, rd_buf' = rd_buf, total' = total, buf_' = buf_, unread' = unread,
         sent' = sent, split' = split, state' = state, lst_done' = lst_done
  PROVE  Segments'
  <1>1. InHand' = InHand
    BY Zenon DEF InHand
  <1> QED
    BY <1>1, Zenon DEF Segments

\* The steps that leave the socket where it is.
LEMMA StillSockets ==
  ASSUME Sockets, UNCHANGED <<lists, socket, fixed, handshake, buf_, unread, sent, split>>
  PROVE  Sockets'
  <1>1. /\ events' = events /\ lst_done' = lst_done /\ state' = state /\ rc_' = rc_
        /\ rccode_' = rccode_ /\ rd_buf' = rd_buf /\ tls' = tls /\ total' = total
        /\ kind' = kind
        /\ handshake' = handshake /\ buf_' = buf_ /\ unread' = unread /\ sent' = sent
        /\ split' = split
    BY DEF lists, socket, fixed
  <1>2. OneSocket'
    BY <1>1, Zenon DEF Sockets, OneSocket, Has
  <1>3. Awaiting'
    BY <1>1, Zenon DEF Sockets, Awaiting, Needed
  <1>4. Segments'
    BY <1>1, StillSegments DEF Sockets
  <1> QED
    BY <1>2, <1>3, <1>4 DEF Sockets

LEMMA SendSockets == ASSUME IInv, Send PROVE Sockets'
  <1>1. /\ events' = events /\ lst_done' = lst_done /\ state' = state /\ rc_' = rc_
        /\ rccode_' = rccode_ /\ rd_buf' = rd_buf /\ tls' = tls /\ total' = total
        /\ kind' = kind
        /\ handshake' = handshake /\ buf_' = buf_
        /\ unread' = unread + 1 /\ sent' = sent + 1 /\ sent < total /\ split' = split
    BY DEF Send, lists, socket, fixed, service
  <1>2. OneSocket' /\ Awaiting'
    BY <1>1, Zenon DEF IInv, OneSocket, Awaiting, Needed, Has
  <1>3. /\ rd_buf <= sent
        /\ buf_ + InHand + unread <= sent
        /\ split => unread < sent
        /\ ~split => unread = sent \/ (unread = 0 /\ sent = total)
        /\ \A w \in Workers : kind # "Default" /\ state = "Reading" /\ lst_done[w] > 0
                             => rd_buf > 0
    BY Zenon DEF IInv, Segments
  <1>4. TypeOK
    BY DEF IInv
  <1>5. InHand' = InHand /\ InHand \in {0, rd_buf}
    BY <1>1, Zenon DEF InHand
  <1>6. rd_buf' <= sent' /\ buf_' + InHand' + unread' <= sent' /\ rd_buf' # total'
    <2> HIDE DEF InHand
    <2>1. rd_buf <= sent /\ buf_ + InHand + unread <= sent
      BY <1>3, Zenon
    <2>2. InHand \in Nat
      BY <1>4, <1>5, Ranges
    <2> QED
      BY <1>1, <1>4, <1>5, <2>1, <2>2, Ranges
  <1>7. split' => unread' < sent'
    <2>1. unread < sent => unread + 1 < sent + 1
      BY <1>4, Ranges
    <2> QED
      BY <1>1, <1>3, <2>1, Zenon
  <1>8. ~split' => unread' = sent'
    <2>1. sent # total
      BY <1>1, <1>4, Ranges
    <2> QED
      BY <1>1, <1>3, <2>1, Zenon
  <1>9. Segments'
    BY <1>1, <1>3, <1>6, <1>7, <1>8, Zenon DEF Segments
  <1> QED
    BY <1>2, <1>9 DEF Sockets

\* EPoll::lp keeps the socket in one place and does not lose a segment.
LEMMA DispatchSockets ==
  ASSUME IInv, NEW w \in Workers, Dispatch(w)
  PROVE  Sockets'
  <1> DEFINE done == lst_done[w] - 1
  <1>1. TypeOK /\ Sockets /\ OneSocket /\ Awaiting /\ Segments
    BY DEF IInv, Sockets
  <1>2. lst_done[w] > 0 /\ UNCHANGED fixed
    BY DEF Dispatch
  <1>3. done \in {0} /\ Alone(w)
    BY <1>1, <1>2, DoneAlone
  <1>4. buf_ \in Nat /\ buf_ + unread <= sent
    BY <1>1, Ranges, Taken
  <1> HIDE DEF done
  <1>5. CASE DoneConnected(w, done)
    <2>1. Attempt(w, "Reading", done) /\ buf_' = buf_
      BY <1>5 DEF DoneConnected
    <2> QED
      BY <1>1, <1>2, <1>3, <1>4, <2>1, AttemptSockets
  <1>6. CASE SayHello(w, done)
    <2>1. Attempt(w, "Writing", done) /\ buf_' = buf_
      BY <1>6 DEF SayHello, service
    <2> QED
      BY <1>1, <1>2, <1>3, <1>4, <2>1, AttemptSockets
  <1>7. CASE FirstRead(w, done)
    <2>1. Drop(w, done) /\ buf_' = rd_buf /\ state = "Reading" /\ kind # "Default"
      BY <1>7 DEF FirstRead, PipeKinds
    <2>2. rd_buf \in Nat /\ rd_buf + unread <= sent
      BY <1>1, <1>2, <2>1, Ranges, Taken
    <2> QED
      BY <1>1, <1>2, <1>3, <2>1, <2>2, DropSockets
  <1>8. CASE ReadMore(w, done)
    <2>1. /\ Drop(w, done) \/ Attempt(w, "Reading", done)
          /\ buf_' = buf_ + rd_buf /\ state = "Reading" /\ kind # "Default"
      BY <1>8 DEF ReadMore, PipeKinds
    <2>2. buf_ + rd_buf \in Nat /\ (buf_ + rd_buf) + unread <= sent
      BY <1>1, <1>2, <2>1, Ranges, Taken
    <2> QED
      BY <1>1, <1>2, <1>3, <2>1, <2>2, DropSockets, AttemptSockets
  <1>9. CASE DoneWriting(w, done)
    <2>1. Drop(w, done) /\ buf_' = 0
      BY <1>9 DEF DoneWriting
    <2>2. 0 \in Nat /\ 0 + unread <= sent
      BY <1>1, Ranges, Taken
    <2> QED
      BY <1>1, <1>2, <1>3, <2>1, <2>2, DropSockets
  <1>10. CASE DoneClosed(w, done)
    <2>1. Drop(w, done) /\ buf_' = buf_
      BY <1>10 DEF DoneClosed, service
    <2> QED
      BY <1>1, <1>2, <1>3, <1>4, <2>1, DropSockets
  <1> QED
    BY <1>5, <1>6, <1>7, <1>8, <1>9, <1>10 DEF Dispatch, done

\* A job that starts a read or a write finds the socket free.
LEMMA JobAlone ==
  ASSUME IInv, NEW w \in Workers, serving[w] # "no", toRead_ # 1
  PROVE  Nobody /\ lst_done[w] \in {0} /\ Alone(w)
  <1>1. Nobody
    BY DEF IInv, OnePlace, NoJob, Serves
  <1> QED
    BY <1>1, FreeAlone DEF IInv

LEMMA ServeSockets ==
  ASSUME IInv, NEW w \in Workers, TakeJob(w) \/ Serve(w) \/ Panic(w) \/ Event(w)
  PROVE  Sockets'
  <1>1. TypeOK /\ Sockets /\ OneSocket /\ Awaiting /\ Segments
    BY DEF IInv, Sockets
  <1>2. buf_ \in Nat /\ buf_ + unread <= sent
    BY <1>1, Ranges, Taken
  <1>3. CASE TakeJob(w) \/ Perform(w) \/ Nothing(w) \/ Panic(w)
    <2>1. UNCHANGED <<lists, socket, fixed, handshake, buf_, unread, sent, split>>
      BY <1>3 DEF TakeJob, Perform, Nothing, Panic, tcp, service, peer
    <2> QED
      BY <1>1, <2>1, StillSockets
  <1>4. CASE Prepare(w)
    <2>1. buf_' = buf_ /\ serving[w] # "no" /\ toRead_ # 1 /\ UNCHANGED fixed
      BY <1>4 DEF Prepare
    <2>2. CASE UNCHANGED <<lists, socket, tcp, peer>>
      <3>1. UNCHANGED <<lists, socket, fixed, handshake, buf_, unread, sent, split>>
        BY <2>1, <2>2 DEF tcp, peer
      <3> QED
        BY <1>1, <3>1, StillSockets
    <2>3. CASE Attempt(w, "Reading", lst_done[w])
      BY <1>1, <1>2, <2>1, <2>3, JobAlone, AttemptSockets
    <2> QED
      BY <1>4, <2>2, <2>3 DEF Prepare
  <1>5. CASE Performed(w)
    <2>1. /\ buf_' = buf_ /\ serving[w] = "performing" /\ UNCHANGED fixed
          /\ Attempt(w, "Writing", lst_done[w])
      BY <1>5 DEF Performed
    <2>2. toRead_ # 1
      BY <2>1 DEF IInv, Immediate, Protocol, NoJob, Serves
    <2> QED
      BY <1>1, <1>2, <2>1, <2>2, JobAlone, AttemptSockets
  <1>6. CASE Event(w)
    <2>1. /\ buf_' = buf_ /\ events[w] # {} /\ UNCHANGED fixed
          /\ Attempt(w, state, lst_done[w])
      BY <1>6 DEF Event, service
    <2>2. state \in {"Reading", "Writing"}
      BY <1>1, <2>1 DEF Awaiting
    <2>3. lst_done[w] \in {0} /\ Alone(w)
      BY <1>1, <2>1, PendingAlone
    <2> QED
      BY <1>1, <1>2, <2>1, <2>2, <2>3, AttemptSockets
  <1> QED
    BY <1>3, <1>4, <1>5, <1>6 DEF Serve

\* A socket that changes worker is registered with what it waited for.
LEMMA HandoverSockets ==
  ASSUME IInv, NEW w \in Workers, NEW v \in Workers, Handover(w, v)
  PROVE  Sockets'
  <1>1. TypeOK /\ Sockets /\ OneSocket /\ Awaiting /\ Segments
    BY DEF IInv, Sockets
  <1>2. /\ lst_done' = lst_done /\ state' = state /\ rc_' = rc_
        /\ rccode_' = rccode_ /\ rd_buf' = rd_buf /\ tls' = tls /\ total' = total
        /\ kind' = kind
        /\ handshake' = handshake /\ buf_' = buf_ /\ unread' = unread /\ sent' = sent
        /\ split' = split
    BY Zenon DEF Handover, socket, fixed, tcp, service, peer
  <1>3. /\ w # v /\ events[w] # {} /\ events \in [Workers -> SUBSET {"in", "out"}]
        /\ events' = [events EXCEPT ![w] = {}, ![v] = AskedEvents(state, rc_, rccode_)]
    BY <1>1 DEF Handover, TypeOK
  <1>4. AskedEvents(state, rc_, rccode_) = Needed /\ Needed # {}
    BY <1>1, <1>3 DEF Awaiting, AskedEvents, Needed
  <1>5. /\ events'[v] = Needed /\ \A u \in Workers \ {v} : events'[u] = {}
        /\ \A u \in Workers : lst_done'[u] = 0
    <2>1. \A u \in Workers \ {w} : events[u] = {} /\ ~(lst_done[u] > 0)
      BY <1>1, <1>3, PendingAlone, Zenon DEF Alone, Has
    <2>2. \A u \in Workers : lst_done[u] \in 0..1
      BY <1>1 DEF TypeOK
    <2>3. lst_done[w] = 0
      BY <1>1, <1>3, PendingAlone
    <2> QED
      BY <1>2, <1>3, <1>4, <2>1, <2>2, <2>3
  <1>6. OneSocket'
    BY <1>5 DEF OneSocket, Has
  <1>7. Needed' = Needed
    BY <1>2, Zenon DEF Needed
  <1>8. Awaiting'
    <2>1. handshake' # "none" => tls'
      BY <1>1, <1>2, Zenon DEF Awaiting
    <2>2. /\ state' \in {"Reading", "Writing"} /\ (rc_' => Needed' = {rccode_'})
          /\ ~rc_' => handshake' = "none"
      BY <1>1, <1>2, <1>3, <1>7, Zenon DEF Awaiting
    <2>3. \A u \in Workers : events'[u] # {} => events'[u] = Needed'
      BY <1>5, <1>7, Zenon
    <2> QED
      BY <2>1, <2>2, <2>3, Zenon DEF Awaiting
  <1>9. InHand' = InHand
    BY <1>2, Zenon DEF InHand
  <1>10. Segments'
    BY <1>1, <1>2, <1>9, Zenon DEF Segments
  <1> QED
    BY <1>6, <1>8, <1>10 DEF Sockets

\* A tick moves a connection from one list of its worker to the other.
LEMMA TickSockets == ASSUME IInv, NEW w \in Workers, Tick(w) PROVE Sockets'
  <1>1. TypeOK /\ OneSocket /\ Awaiting /\ Segments
    BY DEF IInv
  <1>2. /\ kind = "Default" /\ kind' = kind /\ tls' = tls /\ total' = total
        /\ state' = state /\ rd_buf' = rd_buf /\ handshake' = handshake /\ buf_' = buf_
        /\ unread' = unread /\ sent' = sent /\ split' = split
    BY DEF Tick, fixed, socket, service, tcp
  <1>3. \A v \in Workers : events'[v] = {} /\ (v # w => ~(lst_done'[v] > 0))
    BY <1>1, PendingAlone DEF Tick, TypeOK, Alone, Has
  <1>4. OneSocket' /\ Awaiting'
    BY <1>1, <1>2, <1>3 DEF OneSocket, Awaiting, Has
  <1>5. Segments'
    <2>1. InHand = 0 /\ InHand' = 0
      BY <1>2 DEF InHand
    <2> QED
      BY <1>1, <1>2, <2>1, Zenon DEF Segments
  <1> QED
    BY <1>4, <1>5 DEF Sockets

\* With its worker the socket is gone from both lists.
LEMMA AbandonDrops ==
  ASSUME IInv, NEW w \in Workers, Abandon(w)
  PROVE  Drop(w, 0) /\ Has(w) /\ Alone(w)
  <1>1. Has(w) /\ Drop(w, 0)
    BY DEF Abandon, Has, Drop
  <1> QED
    BY <1>1 DEF IInv, OneSocket, Alone

LEMMA AbandonSockets == ASSUME IInv, NEW w \in Workers, Abandon(w) PROVE Sockets'
  <1>1. TypeOK /\ Sockets /\ Segments
    BY DEF IInv, Sockets
  <1>2. buf_' = buf_ /\ UNCHANGED fixed
    BY DEF Abandon, service
  <1>3. buf_ \in Nat /\ buf_ + unread <= sent
    BY <1>1, Ranges, Taken
  <1> QED
    BY <1>1, <1>2, <1>3, AbandonDrops, DropSockets

LEMMA SocketsNext == ASSUME IInv, [Next]_vars PROVE Sockets'
  <1>1. Sockets
    BY DEF IInv, Sockets
  <1>2. CASE Negotiate \/ Drain \/ Leave \/ UNCHANGED vars
    <2>1. UNCHANGED <<lists, socket, fixed, handshake, buf_, unread, sent, split>>
      BY <1>2 DEF Negotiate, Drain, Leave, vars, tcp, service, peer
    <2> QED
      BY <1>1, <2>1, StillSockets
  <1> QED
    BY <1>2, SendSockets, DispatchSockets, ServeSockets, TickSockets, AbandonSockets,
       HandoverSockets DEF Next

-----------------------------------------------------------------------------
(* The ranges of the variables.                                            *)

\* The part of TypeOK about the variables that Attempt changes.
SocketTypes ==
  /\ state \in {"Connected", "Reading", "Writing", "PeerClosed", "Error"}
  /\ events \in [Workers -> SUBSET {"in", "out"}]
  /\ lst_done \in [Workers -> 0..1]
  /\ rc_ \in BOOLEAN /\ rccode_ \in {"none", "in", "out"}
  /\ rd_buf \in 0..total /\ unread \in 0..total /\ sent \in 0..total
  /\ split \in BOOLEAN /\ full \in BOOLEAN /\ record \in BOOLEAN
  /\ handshake \in {"none", "in", "out"} /\ turns \in 0..MaxTurns

\* The part about the service.
ServiceTypes ==
  /\ lstSvc \in Nat /\ lstSvcLow \in 0..1
  /\ serving \in [Workers -> {"no", "taken", "performing"}]
  /\ toRead_ \in {0, 1, -1, -4}
  /\ buf_ \in 0..total /\ copy \in 0..total
  /\ s_ \in BOOLEAN /\ performed \in Nat
  /\ client \in {"asking", "answered", "gone", "cut", "lost"}

LEMMA TypeParts ==
  TypeOK <=> /\ kind \in {"Default", "Log"} \cup PipeKinds /\ tls \in BOOLEAN
             /\ total \in 1..MaxSegments
             /\ SocketTypes /\ ServiceTypes
  BY Zenon DEF TypeOK, SocketTypes, ServiceTypes

LEMMA AttemptSocketTypes ==
  ASSUME TypeOK, Awaiting, NEW w \in Workers, NEW op \in {"Reading", "Writing"},
         NEW done \in {0}, Attempt(w, op, done), total' = total
  PROVE  SocketTypes'
  <1>1. sent \in 0..total
    BY Zenon DEF TypeOK
  <1> QED
    BY <1>1, AttemptTypes, Zenon DEF SocketTypes

LEMMA DropSocketTypes ==
  ASSUME TypeOK, NEW w \in Workers, NEW done \in {0}, Drop(w, done), total' = total
  PROVE  SocketTypes'
  <1>1. /\ events' \in [Workers -> SUBSET {"in", "out"}]
        /\ lst_done' \in [Workers -> 0..1]
    BY DEF Drop, TypeOK
  <1>2. UNCHANGED <<state, rc_, rccode_, rd_buf, unread, full, handshake, record, turns,
                    sent, split>>
    BY Zenon DEF Drop, socket, tcp
  <1> QED
    BY <1>1, <1>2, Zenon DEF TypeOK, SocketTypes

LEMMA StillSocketTypes ==
  ASSUME TypeOK, UNCHANGED <<events, lst_done, socket, tcp, sent, split, total>>
  PROVE  SocketTypes'
  BY Zenon DEF TypeOK, SocketTypes, socket, tcp

LEMMA SocketTypesNext == ASSUME IInv, [Next]_vars PROVE SocketTypes'
  <1>1. TypeOK /\ OneSocket /\ Awaiting /\ SocketTypes
    BY TypeParts DEF IInv
  <1>2. ASSUME NEW w \in Workers, Dispatch(w)
        PROVE  SocketTypes'
    <2> DEFINE done == lst_done[w] - 1
    <2>1. lst_done[w] > 0 /\ total' = total
      BY <1>2 DEF Dispatch, fixed
    <2>2. done \in {0}
      BY <1>1, <2>1, DoneAlone
    <2> HIDE DEF done
    <2>3. \/ Attempt(w, "Reading", done) \/ Attempt(w, "Writing", done)
          \/ Drop(w, done)
      BY <1>2, Zenon DEF Dispatch, DoneConnected, SayHello, FirstRead, ReadMore, DoneWriting,
                  DoneClosed, done
    <2> QED
      BY <1>1, <2>1, <2>2, <2>3, AttemptSocketTypes, DropSocketTypes
  <1>3. ASSUME NEW w \in Workers, Prepare(w) \/ Performed(w) \/ Event(w)
        PROVE  SocketTypes'
    <2>1. CASE Prepare(w)
      <3>1. serving[w] # "no" /\ toRead_ # 1 /\ total' = total
        BY <2>1 DEF Prepare, fixed
      <3>2. \/ Attempt(w, "Reading", lst_done[w])
            \/ UNCHANGED <<lists, socket, tcp, peer>>
        BY <2>1, Zenon DEF Prepare
      <3>3. CASE UNCHANGED <<lists, socket, tcp, peer>>
        <4>1. UNCHANGED <<events, lst_done, socket, tcp, sent, split, total>>
          BY <3>1, <3>3, Zenon DEF lists, peer
        <4> QED
          BY <1>1, <4>1, StillSocketTypes
      <3> QED
        BY <1>1, <3>1, <3>2, <3>3, JobAlone, AttemptSocketTypes
    <2>2. CASE Performed(w)
      <3>1. serving[w] = "performing" /\ total' = total
            /\ Attempt(w, "Writing", lst_done[w])
        BY <2>2 DEF Performed, fixed
      <3>2. toRead_ # 1
        BY <3>1 DEF IInv, Immediate, Protocol, NoJob, Serves
      <3> QED
        BY <1>1, <3>1, <3>2, JobAlone, AttemptSocketTypes
    <2>3. CASE Event(w)
      <3>1. events[w] # {} /\ total' = total /\ Attempt(w, state, lst_done[w])
        BY <2>3 DEF Event, fixed
      <3>2. state \in {"Reading", "Writing"} /\ lst_done[w] \in {0}
        BY <1>1, <3>1, PendingAlone DEF Awaiting
      <3> QED
        BY <1>1, <3>1, <3>2, AttemptSocketTypes
    <2> QED
      BY <1>3, <2>1, <2>2, <2>3
  <1>4. CASE \/ Leave \/ UNCHANGED vars
             \/ \E w \in Workers : TakeJob(w) \/ Perform(w) \/ Nothing(w) \/ Panic(w)
    <2>1. UNCHANGED <<events, lst_done, socket, tcp, sent, split, total>>
      BY <1>4, Zenon DEF Leave, vars, TakeJob, Perform, Nothing, Panic, fixed, lists, peer
    <2> QED
      BY <1>1, <2>1, StillSocketTypes
  <1>5. CASE Send
    <2>1. /\ sent' = sent + 1 /\ unread' = unread + 1 /\ sent < total
      BY <1>5 DEF Send
    <2>2. UNCHANGED <<lists, socket, split, full, handshake, record, turns, total>>
      BY <1>5 DEF Send, fixed
    <2>3. unread <= sent
      BY <1>1, Taken DEF IInv
    <2>4. sent' \in 0..total /\ unread' \in 0..total
      BY <1>1, <2>1, <2>3, Ranges
    <2> QED
      BY <1>1, <2>2, <2>4, Zenon DEF SocketTypes, lists, socket
  <1>6. CASE Negotiate \/ Drain
    <2>1. /\ UNCHANGED <<lists, socket, split, sent, unread, handshake, turns, total>>
          /\ full' \in {full, FALSE} /\ record' \in {record, TRUE}
      BY <1>6, Zenon DEF Negotiate, Drain, fixed, peer
    <2> QED
      BY <1>1, <2>1, Zenon DEF SocketTypes, lists, socket
  <1>7. ASSUME NEW w \in Workers, NEW v \in Workers, Handover(w, v)
        PROVE  SocketTypes'
    <2>1. UNCHANGED <<lst_done, socket, tcp, sent, split, total>>
      BY <1>7, Zenon DEF Handover, fixed, peer
    <2>2. AskedEvents(state, rc_, rccode_) = Needed /\ events[w] # {}
      BY <1>1, <1>7 DEF Awaiting, AskedEvents, Needed, Handover
    <2>3. Needed \in SUBSET {"in", "out"}
      BY <1>1 DEF Needed, SocketTypes
    <2>4. events' \in [Workers -> SUBSET {"in", "out"}]
      BY <1>1, <1>7, <2>2, <2>3 DEF Handover, SocketTypes
    <2> QED
      BY <1>1, <2>1, <2>4, Zenon DEF SocketTypes, socket, tcp
  <1>8. ASSUME NEW w \in Workers, Tick(w)
        PROVE  SocketTypes'
    <2>1. UNCHANGED <<socket, tcp, sent, split, total>>
      BY <1>8, Zenon DEF Tick, fixed
    <2>2. lst_done[w] = 0
      BY <1>1, <1>8, PendingAlone DEF Tick
    <2>3. /\ events' \in [Workers -> SUBSET {"in", "out"}]
          /\ lst_done' \in [Workers -> 0..1]
      BY <1>1, <1>8, <2>2 DEF Tick, SocketTypes
    <2> QED
      BY <1>1, <2>1, <2>3, Zenon DEF SocketTypes, socket, tcp
  <1>9. ASSUME NEW w \in Workers, Abandon(w)
        PROVE  SocketTypes'
    <2>1. total' = total /\ 0 \in {0}
      BY <1>9 DEF Abandon, fixed
    <2> QED
      BY <1>1, <1>9, <2>1, AbandonDrops, DropSocketTypes
  <1> QED
    BY <1>2, <1>3, <1>4, <1>5, <1>6, <1>7, <1>8, <1>9 DEF Next, Serve

-----------------------------------------------------------------------------
(* The connection as a job.                                                *)

Service == OnePlace /\ Immediate /\ Protocol /\ Over

\* The steps of the peer do not concern the service.
LEMMA StillService ==
  ASSUME ServiceTypes, Service, client' \in {client, "gone"},
         UNCHANGED <<fixed, lists, queues, state, rd_buf, serving, service>>
  PROVE  ServiceTypes' /\ Service'
  <1>1. /\ kind' = kind /\ total' = total /\ events' = events /\ lst_done' = lst_done
        /\ lstSvc' = lstSvc /\ lstSvcLow' = lstSvcLow /\ toRead_' = toRead_ /\ buf_' = buf_
        /\ copy' = copy /\ s_' = s_ /\ performed' = performed /\ serving' = serving
        /\ state' = state /\ rd_buf' = rd_buf
    BY DEF fixed, lists, queues, service
  <1>2. (Nobody' <=> Nobody) /\ (NoJob' <=> NoJob) /\ (Requested' <=> Requested)
    BY <1>1, Zenon DEF Nobody, Has, NoJob, Serves, Requested
  <1>3. ServiceTypes'
    <2>1. client' \in {"asking", "answered", "gone", "cut", "lost"}
      BY DEF ServiceTypes
    <2> QED
      BY <1>1, <2>1, Zenon DEF ServiceTypes
  <1>4. OnePlace'
    BY <1>1, <1>2, Zenon DEF Service, OnePlace, Serves
  <1>5. Immediate'
    BY <1>1, <1>2, Zenon DEF Service, Immediate
  <1>6. Protocol'
    BY <1>1, <1>2, Zenon DEF Service, Protocol
  <1>7. Over'
    BY <1>2, Zenon DEF Service, Over
  <1> QED
    BY <1>3, <1>4, <1>5, <1>6, <1>7 DEF Service

\* A worker that has the socket, while the PipeServer does not wait for more, knows
\* that there is no job.
LEMMA HolderKnows ==
  ASSUME IInv, NEW w \in Workers, Has(w)
  PROVE  /\ client # "answered"
         /\ toRead_ # 1 => NoJob
         /\ kind \notin PipeKinds => NoJob /\ toRead_ = 0
         /\ kind \in PipeKinds /\ toRead_ = 0 => performed = 0 /\ state # "Writing"
         /\ toRead_ \in {0, 1, -4}
  <1>1. ~Nobody
    BY DEF Nobody
  <1>2. kind \in PipeKinds => toRead_ # -1
    BY <1>1, Zenon DEF IInv, Protocol
  <1>3. kind \notin PipeKinds => NoJob /\ toRead_ = 0
    BY Zenon DEF IInv, Immediate
  <1>4. client # "answered" /\ (toRead_ # 1 => NoJob)
    BY <1>1, Zenon DEF IInv, Over, OnePlace
  <1>5. kind \in PipeKinds /\ toRead_ = 0 => performed = 0 /\ state # "Writing"
    BY <1>1, Zenon DEF IInv, Protocol
  <1>6. toRead_ \in {0, 1, -1, -4}
    BY Zenon DEF IInv, TypeOK
  <1> QED
    BY <1>2, <1>3, <1>4, <1>5, <1>6

\* The steps of a worker that has the socket, if they leave the service alone: the
\* answer begins only after the request.
LEMMA MovesService ==
  ASSUME IInv, NEW w \in Workers, Has(w),
         UNCHANGED <<fixed, queues, serving, toRead_, buf_, copy, performed>>,
         client' \in {client, "cut", "lost"}, s_' \in BOOLEAN,
         state' = "Writing" => Requested' /\ (kind \in PipeKinds => toRead_ = -4),
         toRead_ = -4 => Requested' /\ state' \notin {"Connected", "Reading"}
  PROVE  ServiceTypes' /\ Service'
  <1>1. /\ kind' = kind /\ total' = total
        /\ lstSvc' = lstSvc /\ lstSvcLow' = lstSvcLow /\ toRead_' = toRead_ /\ buf_' = buf_
        /\ copy' = copy /\ performed' = performed /\ serving' = serving
    BY DEF fixed, queues
  <1>2. NoJob' <=> NoJob
    BY <1>1, Zenon DEF NoJob, Serves
  <1>3. ServiceTypes'
    <2>1. ServiceTypes
      BY TypeParts, Zenon DEF IInv
    <2>2. client' \in {"asking", "answered", "gone", "cut", "lost"}
      BY <2>1 DEF ServiceTypes
    <2> QED
      BY <1>1, <2>1, <2>2, Zenon DEF ServiceTypes
  <1>4. OnePlace'
    <2> SUFFICES ASSUME toRead_' # 1 PROVE OnePlace'
      BY DEF OnePlace
    <2>1. NoJob'
      BY <1>1, <1>2, HolderKnows
    <2> QED
      BY <2>1 DEF OnePlace, NoJob
  <1>5. Immediate'
    BY <1>1, <1>2, Zenon DEF IInv, Immediate
  <1>6. Protocol'
    <2> SUFFICES ASSUME kind \in PipeKinds PROVE Protocol'
      BY <1>1 DEF Protocol
    <2>1. Protocol
      BY DEF IInv
    <2>2. CASE toRead_ = 0
      <3>1. NoJob' /\ performed' = 0 /\ state' # "Writing" /\ lstSvcLow' = 0
        BY <1>1, <1>2, <2>2, HolderKnows DEF NoJob
      <3>2. \A v \in Workers : serving'[v] # "performing"
        BY <3>1 DEF NoJob, Serves
      <3> QED
        BY <1>1, <2>2, <3>1, <3>2 DEF Protocol
    <2>3. CASE toRead_ = 1
      <3>1. state' # "Writing"
        BY <2>3
      <3>2. /\ kind' = "WebServer" /\ copy' # total' /\ performed' = 0 /\ lstSvcLow' = 0
            /\ \A v \in Workers : serving'[v] # "performing"
        BY <1>1, <2>1, <2>3, Zenon DEF Protocol
      <3> QED
        BY <1>1, <2>3, <3>1, <3>2 DEF Protocol
    <2>4. CASE toRead_ = -4
      <3>1. NoJob' /\ performed' = 1
        BY <1>1, <1>2, <2>1, <2>4 DEF Protocol
      <3> QED
        BY <1>1, <2>4, <3>1 DEF Protocol
    <2> QED
      BY <2>2, <2>3, <2>4, HolderKnows
  <1>7. Over'
    BY <1>1, HolderKnows DEF Over
  <1> QED
    BY <1>3, <1>4, <1>5, <1>6, <1>7 DEF Service

\* Data arrives for the service: it becomes a job, and was none.
LEMMA FirstReadService ==
  ASSUME IInv, NEW w \in Workers, NEW done \in {0}, FirstRead(w, done), Has(w), Alone(w),
         lst_done[w] > 0, UNCHANGED <<fixed, lstSvcLow, serving>>
  PROVE  ServiceTypes' /\ Service'
  <1>1. /\ state = "Reading" /\ kind \in PipeKinds /\ toRead_ <= 0 /\ buf_' = rd_buf
        /\ Drop(w, done) /\ Call(w) /\ UNCHANGED <<toRead_, copy, s_, performed, client>>
    BY DEF FirstRead
  <1>2. TypeOK /\ Awaiting /\ Segments /\ Protocol
    BY DEF IInv
  <1>3. /\ kind' = kind /\ tls' = tls /\ total' = total /\ toRead_' = toRead_
        /\ lstSvcLow' = lstSvcLow /\ serving' = serving /\ performed' = performed
        /\ state' = state /\ rd_buf' = rd_buf /\ client' = client /\ copy' = copy /\ s_' = s_
    BY <1>1 DEF fixed, Drop, socket
  <1>4. toRead_ = 0
    <2>1. toRead_ # -4
      BY <1>1, <1>2 DEF Protocol
    <2> QED
      BY <1>1, <2>1, HolderKnows
  <1>5. NoJob /\ performed = 0 /\ client # "answered"
    BY <1>1, <1>4, HolderKnows
  <1>6. Nobody'
    BY <1>1, <1>2, <1>3, DropPlaces
  <1>7. lstSvc' = 1 /\ lstSvcLow' = 0 /\ \A v \in Workers : ~Serves(v)'
    <2>1. ~(events'[w] # {})
      BY <1>6 DEF Nobody, Has
    <2>2. lstSvc' = lstSvc + 1
      BY <1>1, <2>1, Zenon DEF Call
    <2> QED
      BY <1>3, <1>5, <2>2 DEF NoJob, Serves
  <1>8. rd_buf > 0
    <2>1. kind # "Default"
      BY <1>1 DEF PipeKinds
    <2> QED
      BY <1>1, <1>2, <2>1, Zenon DEF Segments
  <1>9. ServiceTypes'
    <2>1. lstSvc' \in Nat
      BY <1>7
    <2>2. rd_buf \in 0..total /\ ServiceTypes
      BY <1>2, TypeParts, Zenon DEF SocketTypes
    <2> QED
      BY <1>1, <1>3, <2>1, <2>2, Zenon DEF ServiceTypes
  <1>10. OnePlace'
    BY <1>6, <1>7 DEF OnePlace
  <1>11. Immediate' /\ Over'
    BY <1>1, <1>3, <1>5 DEF Immediate, Over
  <1>12. Protocol'
    BY <1>1, <1>3, <1>4, <1>5, <1>7, <1>8 DEF Protocol, Serves
  <1> QED
    BY <1>9, <1>10, <1>11, <1>12 DEF Service

\* The PipeServer waits for more, and goes on waiting.
LEMMA ReadMoreService ==
  ASSUME IInv, NEW w \in Workers, NEW done \in {0}, ReadMore(w, done), Has(w), Alone(w),
         lst_done[w] > 0, UNCHANGED <<fixed, lstSvcLow, serving>>
  PROVE  ServiceTypes' /\ Service'
  <1>1. /\ state = "Reading" /\ kind \in PipeKinds /\ toRead_ > 0 /\ buf_' = buf_ + rd_buf
        /\ UNCHANGED <<copy, s_, performed, client>>
    BY DEF ReadMore, CopyStays
  <1>2. TypeOK /\ Awaiting /\ Segments /\ Protocol
    BY DEF IInv
  <1>3. toRead_ = 1 /\ client # "answered"
    BY <1>1, HolderKnows
  <1>4. /\ kind = "WebServer" /\ copy # total /\ performed = 0 /\ lstSvcLow = 0
        /\ \A v \in Workers : serving[v] # "performing"
    BY <1>1, <1>2, <1>3, Zenon DEF Protocol
  <1>5. kind' = kind /\ total' = total /\ lstSvcLow' = lstSvcLow /\ serving' = serving
    BY DEF fixed
  <1>6. ~ServerDoneReading(copy')
    BY <1>1, <1>4 DEF ServerDoneReading
  <1>7. toRead_' = 1 /\ Attempt(w, "Reading", done)
    BY <1>3, <1>6 DEF ReadMore
  <1>8. state' # "Writing"
    BY <1>2, <1>7, AttemptState
  <1>9. ServiceTypes'
    <2>1. buf_ + rd_buf + unread <= sent
      BY <1>1, <1>2, <1>4, Taken
    <2>2. buf_' \in 0..total
      BY <1>1, <1>2, <2>1, Ranges
    <2>3. ServiceTypes
      BY <1>2, TypeParts, Zenon
    <2>4. lstSvc' \in {lstSvc, lstSvc + 1}
      BY Zenon DEF ReadMore, Call
    <2>5. lstSvc' \in Nat
      BY <2>3, <2>4 DEF ServiceTypes
    <2>6. toRead_' \in {0, 1, -1, -4}
      BY <1>7
    <2> QED
      BY <1>1, <1>5, <2>2, <2>3, <2>5, <2>6, Zenon DEF ServiceTypes
  <1>10. OnePlace'
    BY <1>7 DEF OnePlace
  <1>11. Immediate' /\ Over'
    BY <1>1, <1>3, <1>5 DEF Immediate, Over
  <1>12. Protocol'
    BY <1>1, <1>4, <1>5, <1>7, <1>8 DEF Protocol
  <1> QED
    BY <1>9, <1>10, <1>11, <1>12 DEF Service

\* The answer has been written: nothing is left.
LEMMA DoneWritingService ==
  ASSUME IInv, NEW w \in Workers, NEW done \in {0}, DoneWriting(w, done), Has(w), Alone(w),
         UNCHANGED <<fixed, lstSvcLow, serving>>
  PROVE  ServiceTypes' /\ Service' /\ Requested
  <1>1. /\ state = "Writing" /\ toRead_' = 0 /\ buf_' = 0 /\ s_' = FALSE
        /\ Drop(w, done) /\ UNCHANGED <<lstSvc, copy, performed>>
        /\ client' \in {client, "answered", "cut"}
    BY DEF DoneWriting, ForgetsItself
  <1>2. TypeOK /\ Awaiting /\ Segments /\ Protocol /\ Immediate
    BY DEF IInv
  <1>3. /\ kind' = kind /\ tls' = tls /\ total' = total
        /\ lstSvc' = lstSvc /\ lstSvcLow' = lstSvcLow /\ serving' = serving
        /\ performed' = performed /\ copy' = copy
        /\ state' = state /\ rd_buf' = rd_buf
    BY <1>1 DEF fixed, Drop, socket
  <1>4. kind \in PipeKinds => toRead_ = -4
    <2>1. kind \in PipeKinds => toRead_ # 1
      BY <1>1, <1>2 DEF Protocol
    <2> QED
      BY <1>1, <2>1, HolderKnows
  <1>5. NoJob
    BY <1>4, HolderKnows
  <1>6. Requested /\ (kind \in PipeKinds => performed = 1)
    BY <1>1, <1>2, <1>4 DEF Protocol, Immediate
  <1>7. Nobody'
    BY <1>1, <1>2, <1>3, DropPlaces
  <1>8. NoJob' /\ (Requested' <=> Requested)
    BY <1>3, <1>5, Zenon DEF NoJob, Serves, Requested
  <1>9. ServiceTypes'
    <2>1. ServiceTypes /\ buf_' \in 0..total /\ toRead_' \in {0, 1, -1, -4}
      BY <1>1, <1>2, TypeParts, Ranges
    <2>2. client' \in {"asking", "answered", "gone", "cut", "lost"}
      BY <1>1, <2>1 DEF ServiceTypes
    <2>3. s_' \in BOOLEAN
      BY <1>1
    <2> QED
      BY <1>3, <2>1, <2>2, <2>3, Zenon DEF ServiceTypes
  <1>10. OnePlace'
    BY <1>7, <1>8 DEF OnePlace, NoJob
  <1>11. Immediate' /\ Over'
    BY <1>1, <1>2, <1>3, <1>6, <1>7, <1>8 DEF Immediate, Over
  <1>12. Protocol'
    <2>1. lstSvcLow' = 0 /\ \A v \in Workers : serving'[v] # "performing"
      BY <1>8 DEF NoJob, Serves
    <2> QED
      BY <1>1, <1>3, <1>6, <1>7, <1>8, <2>1 DEF Protocol
  <1> QED
    BY <1>6, <1>9, <1>10, <1>11, <1>12 DEF Service

LEMMA DispatchService ==
  ASSUME IInv, NEW w \in Workers, Dispatch(w)
  PROVE  ServiceTypes' /\ Service'
  <1> DEFINE done == lst_done[w] - 1
  <1>1. TypeOK /\ OneSocket /\ Awaiting /\ Segments /\ Protocol
    BY DEF IInv
  <1>2. lst_done[w] > 0 /\ UNCHANGED <<fixed, lstSvcLow, serving>>
    BY DEF Dispatch
  <1>3. done \in {0} /\ Has(w) /\ Alone(w)
    BY <1>1, <1>2, DoneAlone
  <1>4. s_ \in BOOLEAN
    BY <1>1, Zenon DEF TypeOK
  <1> HIDE DEF done
  <1>5. CASE DoneConnected(w, done)
    <2>1. /\ state = "Connected" /\ Attempt(w, "Reading", done)
          /\ UNCHANGED <<lstSvc, toRead_, buf_, copy, performed, client>>
      BY <1>5 DEF DoneConnected
    <2>2. s_' \in BOOLEAN
      <3>1. s_' = (kind \in PipeKinds)
        BY <1>5, Zenon DEF DoneConnected
      <3>2. CASE kind \in PipeKinds
        BY <3>1, <3>2
      <3>3. CASE kind \notin PipeKinds
        BY <3>1, <3>3
      <3> QED
        BY <3>2, <3>3
    <2>3. state' # "Writing"
      BY <1>1, <1>3, <2>1, AttemptState
    <2>4. toRead_ # -4
      BY <1>1, <2>1, <1>3, HolderKnows DEF Protocol
    <2>5. UNCHANGED queues
      BY <1>2, <2>1 DEF queues
    <2> QED
      BY <1>2, <1>3, <2>1, <2>2, <2>3, <2>4, <2>5, MovesService
  <1>6. CASE SayHello(w, done)
    <2>1. /\ state = "Reading" /\ kind \notin PipeKinds /\ Attempt(w, "Writing", done)
          /\ UNCHANGED <<lstSvc, toRead_, buf_, copy, s_, performed, client>>
      BY <1>6 DEF SayHello, service
    <2>2. /\ kind # "Default" => rd_buf > 0
          /\ rd_buf' = rd_buf /\ kind' = kind
      BY <1>1, <1>2, <1>3, <2>1, AttemptState DEF Segments, fixed
    <2>3. Requested'
      BY <2>1, <2>2 DEF Requested, PipeKinds
    <2>4. toRead_ # -4
      BY <1>3, <2>1, HolderKnows
    <2>5. UNCHANGED queues /\ s_' \in BOOLEAN
      BY <1>2, <1>4, <2>1, Zenon DEF queues
    <2> QED
      BY <1>2, <1>3, <2>1, <2>3, <2>4, <2>5, MovesService
  <1>7. CASE FirstRead(w, done)
    BY <1>2, <1>3, <1>7, FirstReadService
  <1>8. CASE ReadMore(w, done)
    BY <1>2, <1>3, <1>8, ReadMoreService
  <1>9. CASE DoneWriting(w, done)
    BY <1>2, <1>3, <1>9, DoneWritingService
  <1>10. CASE DoneClosed(w, done)
    <2>1. /\ state \in {"PeerClosed", "Error"} /\ Drop(w, done)
          /\ UNCHANGED <<lstSvc, toRead_, buf_, copy, s_, performed, client>>
      BY <1>10 DEF DoneClosed, service
    <2>2. rd_buf' = rd_buf /\ state' = state /\ kind' = kind /\ total' = total
      BY <1>2, <2>1 DEF Drop, socket, fixed
    <2>3. Requested' <=> Requested
      BY <2>2, Zenon DEF Requested
    <2>4. toRead_ = -4 => Requested
      BY <1>1, <1>3, HolderKnows DEF Protocol
    <2>5. UNCHANGED queues /\ s_' \in BOOLEAN
      BY <1>2, <1>4, <2>1, Zenon DEF queues
    <2> QED
      BY <1>2, <1>3, <2>1, <2>2, <2>3, <2>4, <2>5, MovesService
  <1> QED
    BY <1>5, <1>6, <1>7, <1>8, <1>9, <1>10 DEF Dispatch, done

\* An event of epoll, a tick, or a change of worker.
LEMMA EventService ==
  ASSUME IInv, NEW w \in Workers,
         Event(w) \/ Tick(w) \/ \E v \in Workers : Handover(w, v)
  PROVE  ServiceTypes' /\ Service'
  <1>1. TypeOK /\ OneSocket /\ Awaiting /\ Segments /\ Protocol /\ Immediate
    BY DEF IInv
  <1>2. /\ events[w] # {} /\ UNCHANGED <<fixed, queues, serving, toRead_, buf_, copy, s_,
                                         performed>>
        /\ client' \in {client, "cut", "lost"}
    BY DEF Event, Tick, Handover, service, peer
  <1>3. /\ lst_done[w] \in {0} /\ Has(w) /\ Alone(w) /\ state \in {"Reading", "Writing"}
        /\ s_ \in BOOLEAN
    <2>1. s_ \in BOOLEAN
      BY <1>1, Zenon DEF TypeOK
    <2> QED
      BY <1>1, <1>2, <2>1, PendingAlone DEF Awaiting
  <1>4. /\ state' \in {state, "PeerClosed", "Error"}
        /\ state = "Writing" => rd_buf' = rd_buf
    <2>1. CASE Event(w)
      <3>1. Attempt(w, state, lst_done[w])
        BY <2>1 DEF Event
      <3> QED
        BY <1>1, <1>3, <3>1, AttemptState
    <2>2. CASE Tick(w) \/ \E v \in Workers : Handover(w, v)
      BY <2>2 DEF Tick, Handover, socket
    <2> QED
      BY <2>1, <2>2
  <1>5. state = "Writing" => (Requested' <=> Requested)
    BY <1>2, <1>4, Zenon DEF Requested, fixed
  <1>6. /\ toRead_ = -4 => state = "Writing" /\ Requested
        /\ state = "Writing" => Requested /\ (kind \in PipeKinds => toRead_ = -4)
    <2>1. CASE kind \in PipeKinds
      <3>1. toRead_ = -4 => Requested /\ state \notin {"Connected", "Reading"}
        BY <1>1, <2>1, Zenon DEF Protocol
      <3>2. state = "Writing" => toRead_ # 1 /\ toRead_ # 0
        BY <1>1, <1>3, <2>1, HolderKnows, Zenon DEF Protocol
      <3> QED
        BY <1>3, <3>1, <3>2, HolderKnows
    <2>2. CASE kind \notin PipeKinds
      BY <1>1, <1>3, <2>2, HolderKnows DEF Immediate
    <2> QED
      BY <2>1, <2>2
  <1>7. s_' \in BOOLEAN
    BY <1>2, <1>3, Zenon
  <1> QED
    BY <1>2, <1>3, <1>4, <1>5, <1>6, <1>7, MovesService

\* The socket is lost with its worker: no job is left of it that could still answer.
LEMMA AbandonService ==
  ASSUME IInv, NEW w \in Workers, Abandon(w)
  PROVE  ServiceTypes' /\ Service'
  <1>1. /\ UNCHANGED <<fixed, queues, serving, toRead_, buf_, copy, performed>>
        /\ client' \in {client, "cut", "lost"}
        /\ s_' = s_ /\ state' = state /\ rd_buf' = rd_buf /\ kind \in PipeKinds
    BY DEF Abandon, service, socket, Keep
  <1>2. Has(w) /\ Protocol /\ s_ \in BOOLEAN
    <2>1. Protocol /\ s_ \in BOOLEAN
      BY Zenon DEF IInv, TypeOK
    <2> QED
      BY <2>1, AbandonDrops
  <1>3. Requested' <=> Requested
    BY <1>1, Zenon DEF Requested, fixed
  <1>4. toRead_ = -4 => Requested /\ state \notin {"Connected", "Reading"}
    BY <1>1, <1>2, Zenon DEF Protocol
  <1>5. state = "Writing" => toRead_ = -4
    <2>1. state = "Writing" => toRead_ # 1 /\ toRead_ # 0
      BY <1>1, <1>2, HolderKnows, Zenon DEF Protocol
    <2> QED
      BY <1>2, <2>1, HolderKnows
  <1>6. state' = "Writing" => Requested' /\ (kind \in PipeKinds => toRead_ = -4)
    BY <1>1, <1>3, <1>4, <1>5, Zenon
  <1>7. toRead_ = -4 => Requested' /\ state' \notin {"Connected", "Reading"}
    BY <1>1, <1>3, <1>4, Zenon
  <1>8. s_' \in BOOLEAN
    BY <1>1, <1>2, Zenon
  <1> QED
    BY <1>1, <1>2, <1>6, <1>7, <1>8, MovesService

LEMMA TakeJobService ==
  ASSUME IInv, NEW w \in Workers, TakeJob(w)
  PROVE  ServiceTypes' /\ Service'
  <1>1. ServiceTypes /\ OnePlace /\ Immediate /\ Protocol /\ Over
    BY TypeParts DEF IInv
  <1>2. /\ serving[w] = "no" /\ serving' = [serving EXCEPT ![w] = "taken"]
        /\ \/ lstSvc > 0 /\ lstSvc' = lstSvc - 1 /\ lstSvcLow' = lstSvcLow
           \/ lstSvc = 0 /\ lstSvcLow > 0 /\ lstSvcLow' = lstSvcLow - 1 /\ lstSvc' = lstSvc
        /\ kind' = kind /\ total' = total /\ events' = events /\ lst_done' = lst_done
        /\ toRead_' = toRead_ /\ buf_' = buf_ /\ copy' = copy /\ s_' = s_
        /\ performed' = performed /\ state' = state /\ rd_buf' = rd_buf /\ client' = client
    BY DEF TakeJob, fixed, lists, socket, service, peer
  <1>3. /\ lstSvc \in Nat /\ lstSvcLow \in {0, 1}
        /\ serving \in [Workers -> {"no", "taken", "performing"}]
        /\ toRead_ \in {0, 1, -1, -4}
    BY <1>1 DEF ServiceTypes
  <1>4. ~NoJob /\ kind \in PipeKinds /\ client # "answered"
    <2>1. ~NoJob
      BY <1>2, <1>3 DEF NoJob
    <2> QED
      BY <1>1, <2>1 DEF Immediate, Over
  <1>5. /\ serving'[w] = "taken" /\ \A v \in Workers \ {w} : serving'[v] = serving[v]
        /\ serving' \in [Workers -> {"no", "taken", "performing"}]
    BY <1>2, <1>3
  <1>6. /\ lstSvc' \in Nat /\ lstSvcLow' \in 0..1
        /\ lstSvcLow' = lstSvcLow \/ (lstSvcLow = 1 /\ lstSvcLow' = 0)
    <2>1. CASE lstSvc > 0 /\ lstSvc' = lstSvc - 1 /\ lstSvcLow' = lstSvcLow
      <3>1. lstSvc - 1 \in Nat /\ lstSvcLow \in 0..1
        BY <1>3, <2>1
      <3> QED
        BY <2>1, <3>1, Zenon
    <2>2. CASE lstSvcLow > 0 /\ lstSvcLow' = lstSvcLow - 1 /\ lstSvc' = lstSvc
      <3>1. lstSvcLow = 1
        BY <1>3, <2>2
      <3>2. lstSvcLow' = 0
        BY <2>2, <3>1
      <3>3. lstSvcLow' \in 0..1
        BY <3>2
      <3> QED
        BY <1>3, <2>2, <3>1, <3>2, <3>3, Zenon
    <2> QED
      BY <1>2, <2>1, <2>2
  <1>7. ServiceTypes'
    BY <1>1, <1>2, <1>5, <1>6, Zenon DEF ServiceTypes
  <1>8. (Nobody' <=> Nobody) /\ (Requested' <=> Requested)
    BY <1>2, Zenon DEF Nobody, Has, Requested
  <1>9. OnePlace'
    <2> SUFFICES ASSUME toRead_ # 1 PROVE OnePlace'
      BY <1>2 DEF OnePlace
    <2>1. Nobody /\ lstSvc + lstSvcLow <= 1
      BY <1>1, <1>4 DEF OnePlace
    <2>2. lstSvc + lstSvcLow # 0 /\ lstSvc' + lstSvcLow' = 0
      BY <1>2, <1>3, <2>1
    <2>3. \A v \in Workers : ~Serves(v)
      BY <1>1, <2>2, Zenon DEF OnePlace
    <2>4. \A v \in Workers : Serves(v)' => v = w
      BY <1>5, <2>3 DEF Serves
    <2> QED
      BY <1>8, <2>1, <2>2, <2>4 DEF OnePlace
  <1>10. Immediate' /\ Over'
    BY <1>2, <1>4 DEF Immediate, Over
  <1>11. Protocol'
    <2>1. \A v \in Workers : serving'[v] = "performing" <=> serving[v] = "performing"
      BY <1>2, <1>5
    <2>2. CASE toRead_ = 0
      <3>1. /\ lstSvcLow = 0 /\ performed = 0 /\ state # "Writing" /\ rd_buf > 0 /\ buf_ = rd_buf
            /\ \A v \in Workers : serving[v] # "performing"
        BY <1>1, <1>4, <2>2 DEF Protocol
      <3>2. lstSvcLow' = 0
        BY <1>6, <3>1
      <3> QED
        BY <1>2, <2>1, <2>2, <3>1, <3>2 DEF Protocol
    <2>3. CASE toRead_ = 1
      <3>1. lstSvcLow' = 0
        BY <1>1, <1>4, <1>6, <2>3 DEF Protocol
      <3> QED
        BY <1>1, <1>2, <1>4, <2>1, <2>3, <3>1 DEF Protocol
    <2>4. CASE toRead_ = -1
      <3>1. /\ Nobody /\ lstSvc = 0 /\ Requested
            /\ lstSvcLow > 0 => performed = 0
        BY <1>1, <1>4, <2>4, Zenon DEF Protocol
      <3>2. lstSvc' = 0 /\ performed = 0 /\ lstSvcLow' = 0
        BY <1>2, <1>3, <3>1
      <3>3. \A v \in Workers : ~(serving'[v] = "performing")
        <4>1. lstSvc + lstSvcLow # 0
          BY <1>2, <1>3
        <4>2. \A v \in Workers : ~Serves(v)
          BY <1>1, <2>4, <4>1 DEF OnePlace
        <4> QED
          BY <2>1, <4>2 DEF Serves
      <3> QED
        BY <1>2, <1>8, <2>4, <3>1, <3>2, <3>3 DEF Protocol
    <2>5. CASE toRead_ = -4
      BY <1>1, <1>4, <2>5 DEF Protocol
    <2> QED
      BY <1>3, <2>2, <2>3, <2>4, <2>5
  <1> QED
    BY <1>7, <1>9, <1>10, <1>11 DEF Service

\* prepare_request runs on the request that FirstRead has posted.
LEMMA PrepareService ==
  ASSUME IInv, NEW w \in Workers, Prepare(w)
  PROVE  ServiceTypes' /\ Service'
  <1>1. /\ TypeOK /\ ServiceTypes /\ OnePlace /\ Immediate /\ Protocol /\ Over
        /\ OneSocket /\ Awaiting
    BY TypeParts DEF IInv
  <1>2. /\ serving[w] = "taken" /\ toRead_ = 0 /\ copy' = buf_
        /\ serving' = [serving EXCEPT ![w] = "no"]
        /\ lstSvc' = lstSvc /\ buf_' = buf_ /\ s_' = s_ /\ performed' = performed
        /\ kind' = kind /\ tls' = tls /\ total' = total
    BY DEF Prepare, fixed
  <1>3. Serves(w) /\ ~NoJob
    BY <1>2 DEF NoJob, Serves
  <1>4. kind \in PipeKinds /\ client # "answered"
    BY <1>1, <1>3 DEF Immediate, Over
  <1>5. /\ lstSvcLow = 0 /\ performed = 0 /\ state # "Writing" /\ rd_buf > 0 /\ buf_ = rd_buf
        /\ \A v \in Workers : serving[v] # "performing"
    BY <1>1, <1>2, <1>3, <1>4 DEF Protocol
  <1>6. /\ Nobody /\ lstSvc = 0
        /\ \A v \in Workers \ {w} : ~Serves(v)
    <2>1. lstSvc \in Nat
      BY <1>1 DEF ServiceTypes
    <2> QED
      BY <1>1, <1>2, <1>3, <1>5, <2>1 DEF OnePlace
  <1>7. /\ \A v \in Workers : serving'[v] = "no"
        /\ serving' \in [Workers -> {"no", "taken", "performing"}]
    BY <1>1, <1>2, <1>6 DEF Serves, ServiceTypes
  <1>8. copy' \in 0..total /\ buf_' \in 0..total
    BY <1>1, <1>2, Zenon DEF ServiceTypes
  <1>9. CASE /\ ServerDoneReading(copy') /\ toRead_' = -1 /\ lstSvcLow' = lstSvcLow + 1
             /\ UNCHANGED <<lists, socket, tcp, peer>>
    <2>1. lstSvcLow' = 1
      BY <1>5, <1>9
    <2>2. /\ events' = events /\ lst_done' = lst_done /\ rd_buf' = rd_buf /\ client' = client
          /\ state' = state
      BY <1>9 DEF lists, socket, peer
    <2>3. Requested'
      <3>1. kind = "WebServer" => rd_buf = total
        BY <1>2, <1>5, <1>9 DEF ServerDoneReading
      <3> QED
        BY <1>2, <1>5, <2>2, <3>1 DEF Requested
    <2>4. ServiceTypes'
      <3>1. lstSvcLow' \in 0..1 /\ toRead_' \in {0, 1, -1, -4}
        BY <1>9, <2>1
      <3> QED
        BY <1>1, <1>2, <1>7, <1>8, <2>2, <3>1, Zenon DEF ServiceTypes
    <2>5. Nobody'
      BY <1>6, <2>2, Zenon DEF Nobody, Has
    <2>6. \A v \in Workers : ~Serves(v)'
      BY <1>7 DEF Serves
    <2>7. OnePlace'
      BY <1>2, <1>6, <2>1, <2>5, <2>6 DEF OnePlace
    <2>8. Immediate' /\ Over'
      BY <1>2, <1>4, <2>2 DEF Immediate, Over
    <2>9. Protocol'
      <3>1. ~\E v \in Workers : serving'[v] = "performing"
        BY <1>7
      <3> QED
        BY <1>2, <1>5, <1>6, <1>9, <2>3, <2>5, <3>1 DEF Protocol
    <2> QED
      BY <2>4, <2>7, <2>8, <2>9 DEF Service
  <1>10. CASE /\ ~ServerDoneReading(copy') /\ toRead_' = 1
              /\ Attempt(w, "Reading", lst_done[w]) /\ UNCHANGED <<lstSvcLow, client>>
    <2>1. lst_done[w] \in {0}
      BY <1>2, JobAlone
    <2>2. state' # "Writing"
      BY <1>1, <1>10, <2>1, AttemptState
    <2>3. kind = "WebServer" /\ copy' # total
      BY <1>4, <1>10 DEF ServerDoneReading, PipeKinds
    <2>4. ServiceTypes'
      <3>1. toRead_' \in {0, 1, -1, -4}
        BY <1>10
      <3> QED
        BY <1>1, <1>2, <1>7, <1>8, <1>10, <3>1, Zenon DEF ServiceTypes
    <2>5. OnePlace'
      BY <1>10 DEF OnePlace
    <2>6. Immediate' /\ Over'
      BY <1>2, <1>4, <1>10 DEF Immediate, Over
    <2>7. Protocol'
      <3>1. \A v \in Workers : serving'[v] # "performing"
        BY <1>7
      <3> QED
        BY <1>2, <1>5, <1>10, <2>2, <2>3, <3>1 DEF Protocol
    <2> QED
      BY <2>4, <2>5, <2>6, <2>7 DEF Service
  <1> QED
    BY <1>9, <1>10 DEF Prepare

\* perform() begins on the only worker that has the job, for the first time.
LEMMA PerformService ==
  ASSUME IInv, NEW w \in Workers, Perform(w)
  PROVE  ServiceTypes' /\ Service'
  <1>1. ServiceTypes /\ OnePlace /\ Immediate /\ Protocol /\ Over
    BY TypeParts DEF IInv
  <1>2. /\ serving[w] = "taken" /\ toRead_ = -1
        /\ serving' = [serving EXCEPT ![w] = "performing"] /\ performed' = performed + 1
        /\ lstSvc' = lstSvc /\ lstSvcLow' = lstSvcLow /\ buf_' = buf_ /\ s_' = s_
        /\ copy' = copy /\ toRead_' = toRead_ /\ kind' = kind /\ total' = total
        /\ events' = events /\ lst_done' = lst_done /\ rd_buf' = rd_buf /\ client' = client
        /\ state' = state
    BY DEF Perform, fixed, queues, lists, socket, peer
  <1>3. Serves(w) /\ ~NoJob
    BY <1>2 DEF NoJob, Serves
  <1>4. kind \in PipeKinds /\ client # "answered"
    BY <1>1, <1>3 DEF Immediate, Over
  <1>5. /\ lstSvc = 0 /\ lstSvcLow = 0 /\ \A v \in Workers \ {w} : ~Serves(v)
    <2>1. lstSvc \in Nat /\ lstSvcLow \in 0..1
      BY <1>1 DEF ServiceTypes
    <2> QED
      BY <1>1, <1>2, <1>3, <2>1 DEF OnePlace
  <1>6. Nobody /\ Requested /\ performed = 0
    BY <1>1, <1>2, <1>4, Zenon DEF Protocol
  <1>7. /\ serving' \in [Workers -> {"no", "taken", "performing"}]
        /\ serving'[w] = "performing" /\ \A v \in Workers \ {w} : ~Serves(v)'
    BY <1>1, <1>2, <1>5 DEF Serves, ServiceTypes
  <1>8. performed' = 1
    BY <1>2, <1>6
  <1>9. (Nobody' <=> Nobody) /\ (Requested' <=> Requested)
    BY <1>2, Zenon DEF Nobody, Has, Requested
  <1>10. ServiceTypes'
    <2>1. performed' \in Nat
      BY <1>8
    <2> QED
      BY <1>1, <1>2, <1>7, <2>1, Zenon DEF ServiceTypes
  <1>11. OnePlace'
    BY <1>2, <1>5, <1>6, <1>7, <1>9 DEF OnePlace
  <1>12. Immediate' /\ Over'
    BY <1>2, <1>4 DEF Immediate, Over
  <1>13. Protocol'
    <2>1. \A v \in Workers : serving'[v] # "taken"
      BY <1>7 DEF Serves
    <2> QED
      BY <1>2, <1>5, <1>6, <1>8, <1>9, <2>1 DEF Protocol
  <1> QED
    BY <1>10, <1>11, <1>12, <1>13 DEF Service

\* perform() ends: the answer is written, or the next event will write it.
LEMMA PerformedService ==
  ASSUME IInv, NEW w \in Workers, Performed(w)
  PROVE  ServiceTypes' /\ Service'
  <1>1. /\ TypeOK /\ ServiceTypes /\ OnePlace /\ Immediate /\ Protocol /\ Over
        /\ OneSocket /\ Awaiting
    BY TypeParts DEF IInv
  <1>2. /\ serving[w] = "performing" /\ toRead_' = -4
        /\ serving' = [serving EXCEPT ![w] = "no"] /\ Attempt(w, "Writing", lst_done[w])
        /\ lstSvc' = lstSvc /\ lstSvcLow' = lstSvcLow /\ buf_' = buf_ /\ s_' = s_
        /\ copy' = copy /\ performed' = performed /\ kind' = kind /\ total' = total
        /\ client' = client
    BY DEF Performed, fixed, queues
  <1>3. Serves(w) /\ ~NoJob
    BY <1>2 DEF NoJob, Serves
  <1>4. kind \in PipeKinds /\ client # "answered"
    BY <1>1, <1>3 DEF Immediate, Over
  <1>5. toRead_ = -1
    <2>1. toRead_ \in {0, 1, -1, -4}
      BY <1>1 DEF ServiceTypes
    <2>2. toRead_ # 0 /\ toRead_ # 1 /\ toRead_ # -4
      BY <1>1, <1>2, <1>3, <1>4, Zenon DEF Protocol
    <2> QED
      BY <2>1, <2>2
  <1>6. /\ lstSvc = 0 /\ lstSvcLow = 0 /\ \A v \in Workers \ {w} : ~Serves(v)
    <2>1. lstSvc \in Nat /\ lstSvcLow \in 0..1
      BY <1>1 DEF ServiceTypes
    <2> QED
      BY <1>1, <1>3, <1>5, <2>1 DEF OnePlace
  <1>7. performed = 1 /\ Requested
    BY <1>1, <1>2, <1>4, <1>5, Zenon DEF Protocol
  <1>8. /\ serving' \in [Workers -> {"no", "taken", "performing"}]
        /\ \A v \in Workers : serving'[v] = "no"
    BY <1>1, <1>2, <1>6 DEF Serves, ServiceTypes
  <1>9. NoJob'
    BY <1>2, <1>6, <1>8 DEF NoJob, Serves
  <1>10. lst_done[w] \in {0}
    BY <1>2, <1>5, JobAlone
  <1>11. state' \notin {"Connected", "Reading"} /\ rd_buf' = rd_buf
    BY <1>1, <1>2, <1>10, AttemptState
  <1>12. Requested'
    BY <1>2, <1>7, <1>11, Zenon DEF Requested
  <1>13. ServiceTypes'
    <2>1. toRead_' \in {0, 1, -1, -4}
      BY <1>2
    <2> QED
      BY <1>1, <1>2, <1>8, <2>1, Zenon DEF ServiceTypes
  <1>14. OnePlace'
    BY <1>9 DEF OnePlace, NoJob
  <1>15. Immediate' /\ Over'
    BY <1>2, <1>4 DEF Immediate, Over
  <1>16. Protocol'
    BY <1>2, <1>7, <1>9, <1>11, <1>12 DEF Protocol
  <1> QED
    BY <1>13, <1>14, <1>15, <1>16 DEF Service

\* perform() panics: the request has been performed, and there is nothing left of it.
LEMMA PanicService ==
  ASSUME IInv, NEW w \in Workers, Panic(w)
  PROVE  ServiceTypes' /\ Service'
  <1>1. ServiceTypes /\ OnePlace /\ Immediate /\ Protocol /\ Over
    BY TypeParts DEF IInv
  <1>2. /\ serving[w] = "performing" /\ serving' = [serving EXCEPT ![w] = "no"]
        /\ toRead_' = toRead_ /\ lstSvc' = lstSvc /\ lstSvcLow' = lstSvcLow
        /\ buf_' = buf_ /\ s_' = s_ /\ copy' = copy /\ performed' = performed
        /\ kind' = kind /\ total' = total /\ events' = events /\ lst_done' = lst_done
        /\ rd_buf' = rd_buf /\ state' = state /\ client' \in {client, "lost"}
    BY DEF Panic, fixed, lists, queues, socket, service
  <1>3. Serves(w) /\ ~NoJob
    BY <1>2 DEF NoJob, Serves
  <1>4. kind \in PipeKinds /\ client # "answered"
    BY <1>1, <1>3 DEF Immediate, Over
  <1>5. toRead_ = -1
    <2>1. toRead_ \in {0, 1, -1, -4}
      BY <1>1 DEF ServiceTypes
    <2>2. toRead_ # 0 /\ toRead_ # 1 /\ toRead_ # -4
      BY <1>1, <1>2, <1>3, <1>4, Zenon DEF Protocol
    <2> QED
      BY <2>1, <2>2
  <1>6. /\ lstSvc = 0 /\ lstSvcLow = 0 /\ \A v \in Workers \ {w} : ~Serves(v)
    <2>1. lstSvc \in Nat /\ lstSvcLow \in 0..1
      BY <1>1 DEF ServiceTypes
    <2> QED
      BY <1>1, <1>3, <1>5, <2>1 DEF OnePlace
  <1>7. performed = 1 /\ Requested /\ Nobody
    BY <1>1, <1>2, <1>4, <1>5, Zenon DEF Protocol
  <1>8. /\ serving' \in [Workers -> {"no", "taken", "performing"}]
        /\ \A v \in Workers : serving'[v] = "no"
    BY <1>1, <1>2, <1>6 DEF Serves, ServiceTypes
  <1>9. NoJob'
    BY <1>2, <1>6, <1>8 DEF NoJob, Serves
  <1>10. Nobody' /\ (Requested' <=> Requested)
    BY <1>2, <1>7, Zenon DEF Nobody, Has, Requested
  <1>11. ServiceTypes'
    <2>1. client' \in {"asking", "answered", "gone", "cut", "lost"}
      BY <1>1, <1>2 DEF ServiceTypes
    <2> QED
      BY <1>1, <1>2, <1>8, <2>1, Zenon DEF ServiceTypes
  <1>12. OnePlace'
    BY <1>9 DEF OnePlace, NoJob
  <1>13. Immediate' /\ Over'
    BY <1>2, <1>4 DEF Immediate, Over
  <1>14. Protocol'
    BY <1>2, <1>5, <1>6, <1>7, <1>8, <1>10 DEF Protocol
  <1> QED
    BY <1>11, <1>12, <1>13, <1>14 DEF Service

\* A job of a connection that waits for more has no effect.
LEMMA NothingService ==
  ASSUME IInv, NEW w \in Workers, Nothing(w)
  PROVE  ServiceTypes' /\ Service'
  <1>1. ServiceTypes /\ Immediate /\ Protocol /\ Over
    BY TypeParts DEF IInv
  <1>2. /\ serving[w] = "taken" /\ toRead_ \notin {0, -1}
        /\ serving' = [serving EXCEPT ![w] = "no"]
        /\ lstSvc' = lstSvc /\ lstSvcLow' = lstSvcLow /\ buf_' = buf_ /\ s_' = s_
        /\ copy' = copy /\ toRead_' = toRead_ /\ kind' = kind /\ total' = total
        /\ performed' = performed /\ client' = client /\ state' = state
    BY DEF Nothing, fixed, queues, socket, service, peer
  <1>3. ~NoJob
    BY <1>2 DEF NoJob, Serves
  <1>4. kind \in PipeKinds /\ client # "answered"
    BY <1>1, <1>3 DEF Immediate, Over
  <1>5. toRead_ = 1
    <2>1. toRead_ \in {0, 1, -1, -4}
      BY <1>1 DEF ServiceTypes
    <2>2. toRead_ # -4
      BY <1>1, <1>3, <1>4 DEF Protocol
    <2> QED
      BY <1>2, <2>1, <2>2
  <1>6. /\ serving' \in [Workers -> {"no", "taken", "performing"}]
        /\ \A v \in Workers : serving'[v] \in {"no", serving[v]}
    BY <1>1, <1>2 DEF ServiceTypes
  <1>7. ServiceTypes'
    BY <1>1, <1>2, <1>6, Zenon DEF ServiceTypes
  <1>8. OnePlace' /\ Immediate' /\ Over'
    BY <1>2, <1>4, <1>5 DEF OnePlace, Immediate, Over
  <1>9. Protocol'
    <2>1. /\ kind = "WebServer" /\ copy # total /\ performed = 0
          /\ state # "Writing" /\ lstSvcLow = 0
          /\ \A v \in Workers : serving[v] # "performing"
      BY <1>1, <1>4, <1>5, Zenon DEF Protocol
    <2>2. \A v \in Workers : serving'[v] # "performing"
      BY <1>6, <2>1
    <2> QED
      BY <1>2, <1>5, <2>1, <2>2 DEF Protocol
  <1> QED
    BY <1>7, <1>8, <1>9 DEF Service

LEMMA ServiceNext == ASSUME IInv, [Next]_vars PROVE ServiceTypes' /\ Service'
  <1>1. ServiceTypes /\ Service
    BY TypeParts DEF IInv, Service
  <1>2. CASE Send \/ Negotiate \/ Drain \/ Leave \/ UNCHANGED vars
    <2>1. /\ client' \in {client, "gone"}
          /\ UNCHANGED <<fixed, lists, queues, state, rd_buf, serving, service>>
      BY <1>2 DEF Send, Negotiate, Drain, Leave, vars, socket, peer
    <2> QED
      BY <1>1, <2>1, StillService
  <1> QED
    BY <1>2, DispatchService, EventService, AbandonService, TakeJobService, PrepareService,
       PerformService, PerformedService, NothingService, PanicService DEF Next, Serve

-----------------------------------------------------------------------------
(* The invariant.                                                          *)

LEMMA InitIInv == Init => IInv
  <1> SUFFICES ASSUME Init PROVE IInv
    OBVIOUS
  <1>1. /\ state = "Connected" /\ lstSvc = 0 /\ lstSvcLow = 0 /\ rccode_ = "none"
        /\ rd_buf = 0 /\ toRead_ = 0 /\ buf_ = 0 /\ copy = 0 /\ performed = 0
        /\ client = "asking" /\ sent = 0 /\ unread = 0 /\ handshake = "none" /\ turns = 0
        /\ total \in 1..MaxSegments
        /\ events = [w \in Workers |-> {}] /\ serving = [w \in Workers |-> "no"]
    BY Zenon DEF Init
  <1>2. /\ rc_ \in BOOLEAN /\ s_ \in BOOLEAN /\ split \in BOOLEAN /\ full \in BOOLEAN
        /\ record \in BOOLEAN /\ tls \in BOOLEAN /\ kind \in {"Default", "Log"} \cup PipeKinds
        /\ ~split
    <2>1. /\ rc_ = FALSE /\ s_ = FALSE /\ split = FALSE /\ full = FALSE /\ record = FALSE
          /\ kind \in {"Default", "Log"} \cup PipeKinds
          /\ tls \in (IF kind = "Default" THEN BOOLEAN ELSE {FALSE})
      BY Zenon DEF Init
    <2>2. tls \in BOOLEAN
      BY <2>1
    <2> QED
      BY <2>1, <2>2, Zenon
  <1>3. PICK first \in Workers : lst_done = [w \in Workers |-> IF w = first THEN 1 ELSE 0]
    BY DEF Init
  <1>4. total \in Nat \ {0}
    BY <1>1, BoundsAssumption
  <1>5. TypeOK
    <2>1. /\ events \in [Workers -> SUBSET {"in", "out"}]
          /\ serving \in [Workers -> {"no", "taken", "performing"}]
          /\ lst_done \in [Workers -> 0..1]
      BY <1>1, <1>3
    <2>2. /\ 0 \in 0..total /\ 0 \in 0..1 /\ 0 \in Nat /\ 0 \in {0, 1, -1, -4}
          /\ turns \in 0..MaxTurns
      BY <1>1, <1>4, BoundsAssumption
    <2> QED
      BY <1>1, <1>2, <2>1, <2>2, Zenon DEF TypeOK
  <1>6. /\ \A w \in Workers : events[w] = {} /\ ~Serves(w)
        /\ \A w, v \in Workers : lst_done[w] > 0 /\ lst_done[v] > 0 => w = v
    BY <1>1, <1>3 DEF Serves
  <1>7. OneSocket
    BY <1>6, Zenon DEF OneSocket, Has
  <1>8. NoJob
    BY <1>1, <1>6, Zenon DEF NoJob
  <1>9. OnePlace
    BY <1>8 DEF OnePlace, NoJob
  <1>10. Awaiting
    BY <1>1, <1>6, Zenon DEF Awaiting
  <1>11. Segments
    <2>1. InHand = 0
      BY <1>1 DEF InHand
    <2>2. rd_buf <= sent /\ buf_ + InHand + unread <= sent /\ unread = sent /\ rd_buf # total
      BY <1>1, <1>4, <2>1
    <2>3. state # "Reading"
      BY <1>1
    <2> QED
      BY <1>2, <2>2, <2>3, Zenon DEF Segments
  <1>12. Immediate /\ Over
    BY <1>1, <1>8 DEF Immediate, Over
  <1>13. Protocol
    BY <1>1, <1>6, <1>8 DEF Protocol, Serves
  <1> QED
    BY <1>5, <1>7, <1>9, <1>10, <1>11, <1>12, <1>13 DEF IInv

LEMMA NextIInv == IInv /\ [Next]_vars => IInv'
  <1> SUFFICES ASSUME IInv, [Next]_vars PROVE IInv'
    OBVIOUS
  <1>1. SocketTypes' /\ ServiceTypes' /\ Service' /\ Sockets'
    BY SocketTypesNext, ServiceNext, SocketsNext
  <1>2. UNCHANGED fixed
    BY DEF Next, vars, Send, Negotiate, Drain, Leave, Dispatch, TakeJob, Serve, Prepare,
           Perform, Performed, Nothing, Panic, Event, Tick, Abandon, Handover
  <1>3. TypeOK'
    <2>1. kind' = kind /\ tls' = tls /\ total' = total
      BY <1>2 DEF fixed
    <2>2. TypeOK
      BY DEF IInv
    <2> QED
      BY <1>1, <2>1, <2>2, Zenon DEF TypeOK, SocketTypes, ServiceTypes
  <1> QED
    BY <1>1, <1>3, Zenon DEF IInv, Service, Sockets

\* The inductive invariant holds in every reachable state: the socket is in one place,
\* waits for what it needs, no segment gets lost and the service runs its course.
THEOREM Invariant == Spec => []IInv
  <1>1. Init => IInv
    BY InitIInv
  <1>2. IInv /\ [Next]_vars => IInv'
    BY NextIInv
  <1> QED
    BY <1>1, <1>2, PTL DEF Spec

-----------------------------------------------------------------------------
(* What follows for every number of workers, segments and complications.   *)

\* Every variable keeps its range: in particular PipeService.toRead_.
THEOREM TypeCorrect == Spec => []TypeOK
  <1>1. IInv => TypeOK
    BY DEF IInv
  <1> QED
    BY <1>1, Invariant, PTL

\* EPoll asks for the event that the pending operation waits for, also inside TLS and
\* after a handover.
THEOREM EventsAreAwaited == Spec => []EventAwaited
  <1>1. ASSUME IInv PROVE EventAwaited
    <2> SUFFICES ASSUME NEW w \in Workers, events[w] # {}, MayContinue \/ Gone
                 PROVE  \E x \in events[w] : Ready(x)
      BY DEF EventAwaited
    <2>1. /\ state \in {"Reading", "Writing"} /\ events[w] = Needed
          /\ handshake \in {"none", "in", "out"}
      BY <1>1, Zenon DEF IInv, Awaiting, TypeOK
    <2>2. CASE Gone
      BY <2>2 DEF Ready
    <2>3. CASE MayContinue /\ handshake = "out"
      <3>1. ~full /\ "out" \in events[w]
        BY <2>1, <2>3 DEF MayContinue, Needed
      <3> QED
        BY <3>1, Zenon DEF Ready
    <2>4. CASE MayContinue /\ handshake = "in"
      <3>1. record /\ "in" \in events[w]
        BY <2>1, <2>4 DEF MayContinue, Needed
      <3> QED
        BY <3>1, Zenon DEF Ready
    <2>5. CASE MayContinue /\ handshake = "none" /\ state = "Reading"
      <3>1. unread > 0 /\ "in" \in events[w]
        BY <2>1, <2>5 DEF MayContinue, Needed
      <3> QED
        BY <3>1, Zenon DEF Ready
    <2>6. CASE MayContinue /\ handshake = "none" /\ state = "Writing"
      <3>1. ~full /\ "out" \in events[w]
        BY <2>1, <2>6 DEF MayContinue, Needed
      <3> QED
        BY <3>1, Zenon DEF Ready
    <2> QED
      BY <2>1, <2>2, <2>3, <2>4, <2>5, <2>6
  <1> QED
    BY <1>1, Invariant, PTL

LEMMA AtMostOne ==
  ASSUME NEW S, \A x, y \in S : x = y
  PROVE  Cardinality(S) \in {0, 1} /\ (S = {} => Cardinality(S) = 0)
  <1>1. CASE S = {}
    BY <1>1, FS_EmptySet
  <1>2. CASE S # {}
    <2>1. PICK x \in S : TRUE
      BY <1>2
    <2>2. S = {x}
      BY <2>1
    <2> QED
      BY <1>2, <2>2, FS_Singleton
  <1> QED
    BY <1>1, <1>2

\* A connection is in two places, a socket and a job or two jobs, only while its
\* PipeServer has asked for more: never when a request is performed or answered.
THEOREM OneWorkerAtATime == Spec => []DoubledOnlyWhileReading
  <1>1. ASSUME IInv PROVE DoubledOnlyWhileReading
    <2> SUFFICES ASSUME toRead_ # 1 PROVE ~(Places > 1)
      BY DEF DoubledOnlyWhileReading
    <2> DEFINE pending == {w \in Workers : events[w] # {}}
               done == {w \in Workers : lst_done[w] = 1}
               twice == {w \in Workers : lst_done[w] > 1}
               served == {w \in Workers : serving[w] # "no"}
    <2>1. /\ lst_done \in [Workers -> 0..1] /\ lstSvc \in Nat /\ lstSvcLow \in 0..1
          /\ OneSocket /\ OnePlace
      BY <1>1, Zenon DEF IInv, TypeOK
    <2>2. Cardinality(twice) = 0
      <3>1. twice = {}
        BY <2>1
      <3> QED
        BY <3>1, FS_EmptySet
    <2>3. (\A x, y \in pending : x = y) /\ (\A x, y \in done : x = y)
      BY <2>1 DEF OneSocket, Has
    <2>4. pending = {} \/ done = {}
      BY <2>1 DEF OneSocket, Has
    <2>5. \A x, y \in served : x = y
      BY <2>1 DEF OnePlace, Serves
    <2>6. /\ Cardinality(pending) \in {0, 1} /\ Cardinality(done) \in {0, 1}
          /\ Cardinality(pending) = 0 \/ Cardinality(done) = 0
          /\ Cardinality(served) \in {0, 1}
      <3> HIDE DEF pending, done, served
      <3> QED
        BY <2>3, <2>4, <2>5, AtMostOne
    <2>7. lstSvc + lstSvcLow <= 1 /\ (served # {} => lstSvc + lstSvcLow = 0)
      BY <2>1 DEF OnePlace, Serves
    <2>8. \/ Cardinality(pending) = 0 /\ Cardinality(done) = 0
          \/ lstSvc + lstSvcLow = 0 /\ Cardinality(served) = 0
      <3>1. CASE Nobody
        <4>1. pending = {} /\ done = {}
          BY <3>1 DEF Nobody, Has
        <4> HIDE DEF pending, done
        <4> QED
          BY <4>1, FS_EmptySet
      <3>2. CASE NoJob
        <4>1. served = {} /\ lstSvc + lstSvcLow = 0
          BY <3>2 DEF NoJob, Serves
        <4> HIDE DEF served
        <4> QED
          BY <4>1, FS_EmptySet
      <3> QED
        BY <2>1, <3>1, <3>2 DEF OnePlace
    <2>9. Cardinality(served) = 0 \/ lstSvc + lstSvcLow = 0
      <3> HIDE DEF served
      <3> QED
        BY <2>7, FS_EmptySet
    <2>10. Places = Cardinality(pending) + Cardinality(done) + 2 * Cardinality(twice)
                      + lstSvc + lstSvcLow + Cardinality(served)
      BY Zenon DEF Places
    <2> HIDE DEF pending, done, twice, served
    <2> QED
      BY <2>1, <2>2, <2>6, <2>7, <2>8, <2>9, <2>10
  <1> QED
    BY <1>1, Invariant, PTL

\* No request is performed twice, whichever jobs are posted for it.
THEOREM RequestPerformedOnce == Spec => []PerformedOnce
  <1>1. ASSUME IInv PROVE PerformedOnce
    <2>1. toRead_ \in {0, 1, -1, -4}
      BY <1>1, Zenon DEF IInv, TypeOK
    <2>2. performed = 0 \/ performed = 1
      BY <1>1, <2>1 DEF IInv, Immediate, Protocol
    <2> QED
      BY <2>2 DEF PerformedOnce
  <1> QED
    BY <1>1, Invariant, PTL

-----------------------------------------------------------------------------
(* The exchange: nothing is answered that was not asked, and only once.    *)

\* What a step does to the client's side: it sends, or something is read.
LEMMA RequestStep ==
  ASSUME IInv, [Next]_vars
  PROVE  \/ sent' = sent /\ (split' <=> split)
         \/ sent < total /\ sent' = sent + 1
         \/ sent' = sent /\ unread > 0 /\ (split' <=> (split \/ unread < total))
  <1>1. TypeOK /\ OneSocket /\ Awaiting
    BY DEF IInv
  <1>2. ASSUME NEW w \in Workers, NEW op \in {"Reading", "Writing"}, NEW done \in {0},
               Attempt(w, op, done)
        PROVE  sent' = sent /\ \/ split' <=> split
                               \/ unread > 0 /\ (split' <=> (split \/ unread < total))
    <2>1. sent' = sent
      BY <1>1, <1>2, AttemptOutcome
    <2>2. \/ split' <=> split
          \/ unread > 0 /\ (split' <=> (split \/ unread < total))
      BY <1>1, <1>2, AttemptLists, Zenon
    <2> QED
      BY <2>1, <2>2
  <1>3. ASSUME NEW w \in Workers, Dispatch(w)
        PROVE  sent' = sent /\ \/ split' <=> split
                               \/ unread > 0 /\ (split' <=> (split \/ unread < total))
    <2> DEFINE done == lst_done[w] - 1
    <2>1. done \in {0}
      BY <1>1, <1>3, DoneAlone DEF Dispatch
    <2> HIDE DEF done
    <2>2. \/ Attempt(w, "Reading", done) \/ Attempt(w, "Writing", done)
          \/ Drop(w, done)
      BY <1>3, Zenon DEF Dispatch, DoneConnected, SayHello, FirstRead, ReadMore, DoneWriting,
                  DoneClosed, done
    <2>3. CASE Drop(w, done)
      BY <2>3, Zenon DEF Drop
    <2> QED
      BY <1>2, <2>1, <2>2, <2>3
  <1>4. ASSUME NEW w \in Workers, Prepare(w)
        PROVE  sent' = sent /\ \/ split' <=> split
                               \/ unread > 0 /\ (split' <=> (split \/ unread < total))
    <2>1. \/ Attempt(w, "Reading", lst_done[w])
          \/ UNCHANGED peer
      BY <1>4, Zenon DEF Prepare
    <2>2. lst_done[w] \in {0}
      BY <1>4, JobAlone DEF Prepare
    <2>3. CASE UNCHANGED peer
      BY <2>3, Zenon DEF peer
    <2> QED
      BY <1>2, <2>1, <2>2, <2>3
  <1>5. ASSUME NEW w \in Workers, Performed(w)
        PROVE  sent' = sent /\ \/ split' <=> split
                               \/ unread > 0 /\ (split' <=> (split \/ unread < total))
    <2>1. serving[w] = "performing" /\ Attempt(w, "Writing", lst_done[w])
      BY <1>5 DEF Performed
    <2>2. toRead_ # 1
      BY <2>1 DEF IInv, Immediate, Protocol, NoJob, Serves
    <2> QED
      BY <1>2, <2>1, <2>2, JobAlone
  <1>6. ASSUME NEW w \in Workers, Event(w)
        PROVE  sent' = sent /\ \/ split' <=> split
                               \/ unread > 0 /\ (split' <=> (split \/ unread < total))
    <2>1. events[w] # {} /\ Attempt(w, state, lst_done[w])
      BY <1>6 DEF Event
    <2>2. state \in {"Reading", "Writing"} /\ lst_done[w] \in {0}
      BY <1>1, <2>1, PendingAlone DEF Awaiting
    <2> QED
      BY <1>2, <2>1, <2>2
  <1>7. CASE Send
    BY <1>7 DEF Send
  <1>8. CASE \/ Negotiate \/ Drain \/ Leave \/ UNCHANGED vars
             \/ \E w \in Workers : \/ TakeJob(w) \/ Perform(w) \/ Nothing(w) \/ Panic(w)
                                   \/ Tick(w) \/ Abandon(w)
             \/ \E w, v \in Workers : Handover(w, v)
    BY <1>8, Zenon DEF Negotiate, Drain, Leave, vars, TakeJob, Perform, Nothing, Panic, Tick,
                Abandon, Handover, peer
  <1> QED
    BY <1>3, <1>4, <1>5, <1>6, <1>7, <1>8, Zenon DEF Next, Serve

\* A request once asked stays asked.
LEMMA AskedStays ==
  ASSUME IInv, [Next]_vars, client = "asking", Asked
  PROVE  Asked'
  <1>1. TypeOK /\ Segments /\ kind' = kind /\ total' = total
    BY DEF IInv, Next, vars, Send, Negotiate, Drain, Leave, Dispatch, TakeJob, Serve, Prepare,
           Perform, Performed, Nothing, Panic, Event, Tick, Abandon, Handover, fixed
  <1>2. CASE kind = "WebServer"
    <2>1. sent = total /\ ~split
      BY <1>2, Zenon DEF Asked
    <2>2. ~(sent < total) /\ (unread > 0 => ~(unread < total))
      <3>1. unread = sent \/ (unread = 0 /\ sent = total)
        BY <1>1, <2>1, Zenon DEF Segments
      <3>2. /\ total \in Nat \ {0} /\ sent \in Nat /\ unread \in Nat
        BY <1>1, Ranges
      <3>3. sent = total
        BY <2>1
      <3> QED
        BY <3>1, <3>2, <3>3
    <2>3. sent' = sent /\ ~split'
      BY <2>1, <2>2, RequestStep, Zenon
    <2> QED
      BY <1>1, <1>2, <2>1, <2>3, Zenon DEF Asked
  <1>3. CASE kind # "WebServer"
    <2>1. sent > 0
      BY <1>3 DEF Asked
    <2>2. sent' = sent \/ sent' = sent + 1
      BY RequestStep, Zenon
    <2>3. sent' > 0
      BY <1>1, <2>1, <2>2, Ranges
    <2> QED
      BY <1>1, <1>3, <2>3 DEF Asked
  <1> QED
    BY <1>2, <1>3

\* What the client gets at the end of a write it has asked for, Default's hello apart.
LEMMA RequestAsked ==
  ASSUME TypeOK, Segments, Requested, kind # "Default"
  PROVE  Asked
  <1>1. rd_buf <= sent /\ (rd_buf = total => ~split)
    BY Zenon DEF Segments
  <1>2. CASE kind = "WebServer"
    <2>1. rd_buf = total
      BY <1>2 DEF Requested
    <2>2. ~split
      BY <1>1, <2>1, Zenon
    <2>3. sent = total
      <3>1. rd_buf <= sent
        BY <1>1, Zenon
      <3> QED
        BY <2>1, <3>1, Ranges
    <2> QED
      BY <1>2, <2>2, <2>3, Zenon DEF Asked
  <1>3. CASE kind # "WebServer"
    <2>1. rd_buf > 0
      BY <1>3 DEF Requested
    <2>2. rd_buf <= sent
      BY <1>1, Zenon
    <2>3. sent > 0
      BY <2>1, <2>2, Ranges
    <2> QED
      BY <1>3, <2>3, Zenon DEF Asked
  <1> QED
    BY <1>2, <1>3

\* How the exchange goes on in a step that settles it.
Settled ==
  /\ client = "asking"
  /\ \/ client' = "gone"
     \/ client' = "answered" /\ kind # "WebServer" /\ (kind = "Default" \/ Asked)
     \/ client' = "cut" /\ (kind = "Default" \/ (kind = "WebServer" /\ Asked))
     \/ client' = "lost" /\ kind \in PipeKinds

\* A client is answered at the end of a write only, and only once.
LEMMA ClientStep == ASSUME IInv, [Next]_vars PROVE client' = client \/ Settled
  <1>1. TypeOK /\ OneSocket /\ Awaiting /\ Segments
    BY DEF IInv
  <1>2. ASSUME NEW w \in Workers, Dispatch(w)
        PROVE  client' = client \/ Settled
    <2> DEFINE done == lst_done[w] - 1
    <2>1. lst_done[w] > 0 /\ UNCHANGED <<fixed, lstSvcLow, serving>>
      BY <1>2 DEF Dispatch
    <2>2. done \in {0} /\ Has(w) /\ Alone(w)
      BY <1>1, <2>1, DoneAlone
    <2> HIDE DEF done
    <2>3. \/ UNCHANGED client
          \/ DoneWriting(w, done)
      BY <1>2, Zenon DEF Dispatch, DoneConnected, SayHello, FirstRead, ReadMore, DoneClosed, done
    <2>4. CASE DoneWriting(w, done) /\ client' # client
      <3>1. /\ client = "asking"
            /\ client' = IF kind = "WebServer" THEN "cut" ELSE "answered"
        BY <2>4 DEF DoneWriting
      <3>2. Requested
        BY <2>1, <2>2, <2>4, DoneWritingService
      <3>3. kind = "Default" \/ Asked
        BY <1>1, <3>2, RequestAsked
      <3> QED
        BY <3>1, <3>3 DEF Settled
    <2> QED
      BY <2>3, <2>4
  <1>3. CASE Leave
    BY <1>3 DEF Leave, Settled
  <1>4. ASSUME NEW w \in Workers, Prepare(w)
        PROVE  client' = client
    BY <1>4, Zenon DEF Prepare, peer
  <1>5. ASSUME NEW w \in Workers, Tick(w) \/ Abandon(w) \/ Panic(w)
        PROVE  client' = client \/ Settled
    BY <1>5 DEF Tick, Abandon, Panic, Keep, PipeKinds, Settled
  <1>6. CASE \/ Send \/ Negotiate \/ Drain \/ UNCHANGED vars
             \/ \E w \in Workers : \/ TakeJob(w) \/ Perform(w) \/ Performed(w) \/ Nothing(w)
                                   \/ Event(w) \/ \E v \in Workers : Handover(w, v)
    BY <1>6, Zenon DEF Send, Negotiate, Drain, vars, TakeJob, Perform, Performed, Nothing, Event,
                Handover, peer
  <1> QED
    BY <1>2, <1>3, <1>4, <1>5, <1>6 DEF Next, Serve

\* The connection implements the safety part of the exchange: a client is answered at
\* most once, never after it has left, been cut off or been lost, and only by the
\* services that have answers.  Log and DefaultPipeServer answer only a client that
\* has asked; Default may answer one that has not, when its second is over.
THEOREM ExchangeIsSafe == Spec => Promise!SafeSpec
  <1>1. ASSUME Init PROVE Promise!Init
    <2>1. /\ client = "asking" /\ sent = 0 /\ total \in 1..MaxSegments
          /\ kind \in {"Default", "Log"} \cup PipeKinds
      BY <1>1, Zenon DEF Init
    <2>2. ~Asked
      BY <2>1, BoundsAssumption DEF Asked
    <2>3. Phase = "waiting"
      BY <2>1, <2>2 DEF Phase
    <2> QED
      BY <2>1, <2>3 DEF Promise!Init, PipeKinds, Promise!PipeServers
  <1>2. ASSUME IInv, [Next]_vars PROVE [Promise!Next]_(Promise!vars)
    <2>0. kind' = kind
      BY <1>2 DEF Next, vars, Send, Negotiate, Drain, Leave, Dispatch, TakeJob, Serve, Prepare,
           Perform, Performed, Nothing, Panic, Event, Tick, Abandon, Handover, fixed
    <2>1. CASE client' = client /\ client # "asking"
      <3>1. Phase' = Phase
        BY <2>1 DEF Phase
      <3> QED
        BY <2>0, <3>1 DEF Promise!vars
    <2>2. CASE client' = client /\ client = "asking"
      <3>1. /\ Phase = IF Asked THEN "asked" ELSE "waiting"
            /\ Phase' = IF Asked' THEN "asked" ELSE "waiting"
        BY <2>2 DEF Phase
      <3>2. Asked => Asked'
        BY <1>2, <2>2, AskedStays
      <3> QED
        BY <2>0, <3>1, <3>2 DEF Promise!vars, Promise!Next, Promise!Ask, Promise!Becomes
    <2>3. CASE Settled
      <3>1. /\ Phase = IF Asked THEN "asked" ELSE "waiting"
            /\ Phase' = client'
        BY <2>3 DEF Settled, Phase
      <3> QED
        BY <2>0, <2>3, <3>1 DEF Settled, PipeKinds, Promise!Next, Promise!Leave, Promise!Answer,
             Promise!Hurry, Promise!Cut, Promise!Lose, Promise!PipeServers, Promise!Becomes
    <2> QED
      BY <1>2, <2>1, <2>2, <2>3, ClientStep
  <1> QED
    BY <1>1, <1>2, Invariant, PTL DEF Spec, Promise!SafeSpec

=============================================================================
