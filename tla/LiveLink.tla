------------------------------ MODULE LiveLink ------------------------------
(***************************************************************************)
(* The line between the browser and the engine of a session that has       *)
(* begun: SessionConnection in each open tab (connection.ts) with the      *)
(* transcript of its store, one gateway handler per socket                 *)
(* (runtime.gateway.ts), and the queue, the transport and the replies of   *)
(* the engine (session-engine.ts).  A socket carries messages in order     *)
(* both ways until one side closes it or the network breaks; what is then  *)
(* under way may still arrive or be lost, and each side learns of the end  *)
(* in its own time.  The end of the session is left to EngineFleet, what   *)
(* replies are made of to Conversation; database calls succeed.            *)
(***************************************************************************)
EXTENDS Naturals, Sequences, FiniteSets

CONSTANTS
  Tabs,         \* tabs of the participant, each with a connection of its own
  Durables,     \* durable messages sent: controls, and "other" for the rest
  OutboxLimit,  \* durable messages a tab keeps while it is not connected
  MaxTrouble,   \* bound on connections, restarts and handshakes that time out
  MaxInputs     \* bound on utterances and durable messages

ASSUME LiveLinkAssumption ==
  /\ Durables \subseteq {"pause", "resume", "other"}
  /\ OutboxLimit \in Nat \ {0} /\ MaxTrouble \in Nat /\ MaxInputs \in Nat

VARIABLES
  tab,      \* each tab's SessionConnection and store
  socket,   \* the sockets opened so far, with the gateway handler of each
  engine,   \* the SessionEngine and the rows it keeps
  history   \* what was said, sent, handled and turned away, and the faults

liveVars == <<tab, socket, engine, history>>

-----------------------------------------------------------------------------
(* Data.  The n-th utterance said is the final n, the n-th durable message *)
(* the durable n; a turn's seq is its place in engine.turns.               *)

Final(n) == [type |-> "final", n |-> n]
Durable(n) == [type |-> "durable", n |-> n]
Hello(lastSeq) == [type |-> "hello", n |-> lastSeq]

\* The turn of a reply; an utterance's is its number.
AgentTurn == 0

Member(seq) == {seq[i] : i \in DOMAIN seq}

\* What is left of a sequence without the members of a set.
Without(seq, set) ==
  LET left[i \in 0..Len(seq)] ==
        IF i = 0 THEN << >>
        ELSE IF seq[i] \in set THEN left[i - 1] ELSE Append(left[i - 1], seq[i])
  IN  left[Len(seq)]

ClientMessage == [type: {"hello", "none"}, n: Nat]
                 \cup [type: {"final"}, n: DOMAIN history.said]
                 \cup [type: {"durable"}, n: DOMAIN history.sent]
ServerMessage == [type: {"welcome"}, n: Nat, to: Nat] \cup [type: {"saved"}, n: Nat \ {0}]

TabRecord == [status: {"idle", "live", "superseded", "failed"}, ws: 0..Len(socket),
              welcomed: BOOLEAN, lastSeq: Nat, pending: Seq(DOMAIN history.said),
              outbox: Seq(DOMAIN history.sent), shown: SUBSET Nat]

SocketRecord == [tab: Tabs, phase: {"new", "auth", "queued", "ready", "refused"},
                 open: BOOLEAN, closed: BOOLEAN, gone: BOOLEAN,
                 code: {"none", "superseded", "failed"}, last: Nat,
                 up: Seq(ClientMessage), down: Seq(ServerMessage)]

TaskRecord == [type: {"attach", "message", "detach"}, socket: DOMAIN socket, msg: ClientMessage]

\* The engine, in the course of a step.
EngineRecord == [loaded: BOOLEAN, st: {"ACTIVE", "PAUSED", "RECONNECTING"}, wasPaused: BOOLEAN,
                 queue: Seq(TaskRecord), busy: 0..Len(socket), transport: 0..Len(socket),
                 turns: Seq({AgentTurn} \cup DOMAIN history.said), gen: BOOLEAN,
                 out: Seq(ServerMessage)]

HistoryRecord == [said: Seq(Tabs), sent: Seq([tab: Tabs, type: Durables]),
                  handled: Seq(DOMAIN history.sent), excused: SUBSET DOMAIN history.said,
                  faults: Nat]

\* The records have their types, and what they name exists.
LiveLinkTypeOK ==
  /\ tab \in [Tabs -> TabRecord] /\ socket \in Seq(SocketRecord)
  /\ engine \in EngineRecord /\ engine.out = << >>
  /\ history \in HistoryRecord

\* The session has begun and its page is opened again.
LiveLinkInit ==
  /\ tab = [t \in Tabs |->
             [status |-> "idle", ws |-> 0, welcomed |-> FALSE, lastSeq |-> 0,
              pending |-> << >>, outbox |-> << >>, shown |-> {}]]
  /\ socket = << >>
  /\ engine = [loaded |-> TRUE, st |-> "RECONNECTING", wasPaused |-> FALSE,
               queue |-> << >>, busy |-> 0, transport |-> 0, turns |-> << >>,
               gen |-> FALSE, out |-> << >>]
  /\ history = [said |-> << >>, sent |-> << >>, handled |-> << >>, excused |-> {},
                faults |-> 0]

-----------------------------------------------------------------------------
(* Sockets *)

\* What is sent on a socket that is no longer open goes nowhere.
Up(sockets, s, msgs) ==
  [sockets EXCEPT ![s].up = IF sockets[s].open THEN @ \o msgs ELSE @]

Down(sockets, s, msgs) ==
  IF s = 0 THEN sockets
  ELSE [sockets EXCEPT ![s].down = IF sockets[s].open THEN @ \o msgs ELSE @]

\* close() of the gateway: the code arrives after what was sent before.
Closed(sockets, s, code) ==
  [sockets EXCEPT ![s].closed = TRUE,
                  ![s].open = FALSE,
                  ![s].code = IF sockets[s].open THEN code ELSE @]

Offline == {t \in Tabs : tab[t].status = "live" /\ tab[t].ws = 0}

\* Sockets are left for whoever has lost his, and for n tabs more.
Lost == {t \in Tabs : tab[t].ws # 0 /\ ~socket[tab[t].ws].open /\ socket[tab[t].ws].code = "none"}
RoomFor(n) == Len(socket) + history.faults + Cardinality(Offline \cup Lost) + n <= MaxTrouble

-----------------------------------------------------------------------------
(* The browser: SessionConnection and the store *)

\* connect(), also as takeOver() after SUPERSEDED.
Connect(t) ==
  /\ tab[t].status \in {"idle", "superseded"} /\ RoomFor(1)
  /\ tab' = [tab EXCEPT ![t].status = "live"]
  /\ UNCHANGED <<socket, engine, history>>

\* open() and onopen: the hello asks for the turns after lastSeq.
Open(t) ==
  /\ t \in Offline
  /\ socket' = Append(socket, [tab |-> t, phase |-> "new", open |-> TRUE, closed |-> FALSE,
                               gone |-> FALSE, code |-> "none", last |-> 0,
                               up |-> <<Hello(tab[t].lastSeq)>>, down |-> << >>])
  /\ tab' = [tab EXCEPT ![t].ws = Len(socket) + 1, ![t].welcomed = FALSE]
  /\ UNCHANGED <<engine, history>>

\* upsertTurn(), and the removal of what these turns replace.
Shows(c, seqs) ==
  [c EXCEPT !.lastSeq = CHOOSE n \in seqs \cup {@} : \A i \in seqs \cup {@} : i <= n,
            !.pending = Without(@, {engine.turns[i] : i \in seqs}),
            !.shown = @ \cup seqs]

\* handle("welcome") and flush(): utterances first, then what the outbox holds.
HandleWelcome(t, s, m) ==
  LET c == Shows(tab[t], (m.n + 1)..m.to)
  IN  /\ tab' = [tab EXCEPT ![t] = [c EXCEPT !.welcomed = TRUE, !.outbox = << >>]]
      /\ socket' = Up([socket EXCEPT ![s].down = Tail(@)], s,
                      [i \in DOMAIN c.pending |-> Final(c.pending[i])]
                        \o [i \in DOMAIN c.outbox |-> Durable(c.outbox[i])])

\* handle("turn.saved").
HandleSaved(t, s, m) ==
  /\ tab' = [tab EXCEPT ![t] = Shows(@, {m.n})]
  /\ socket' = [socket EXCEPT ![s].down = Tail(@)]

\* onmessage of the tab's present socket.
ClientReceives(t) ==
  LET s == tab[t].ws
  IN  /\ s # 0 /\ socket[s].down # << >>
      /\ LET m == Head(socket[s].down)
         IN  \/ m.type = "welcome" /\ HandleWelcome(t, s, m)
             \/ m.type = "saved" /\ HandleSaved(t, s, m)
      /\ UNCHANGED <<engine, history>>

\* onclose.  The code of a close by the gateway comes after what it had sent.
ClientNotices(t) ==
  LET s == tab[t].ws
  IN  /\ s # 0 /\ ~socket[s].open
      /\ socket[s].code = "none" \/ socket[s].down = << >>
      /\ tab' = [tab EXCEPT ![t].ws = 0, ![t].welcomed = FALSE,
                            ![t].status = IF socket[s].code = "none" THEN "live"
                                          ELSE socket[s].code]
      /\ socket' = [socket EXCEPT ![s].down = << >>]
      /\ UNCHANGED <<engine, history>>

RoomForInput == Len(history.said) + Len(history.sent) < MaxInputs

\* send() of an utterance: it stays pending until it is acknowledged.
Say(t) ==
  LET n == Len(history.said) + 1
  IN  /\ tab[t].status = "live" /\ RoomForInput
      /\ history' = [history EXCEPT !.said = Append(@, t)]
      /\ tab' = [tab EXCEPT ![t].pending = Append(@, n)]
      /\ socket' = IF tab[t].welcomed THEN Up(socket, tab[t].ws, <<Final(n)>>) ELSE socket
      /\ UNCHANGED engine

\* send() of a durable message: queued, the oldest given up beyond the limit.
Queued(outbox, n) ==
  LET longer == Append(outbox, n)
  IN  IF Len(longer) > OutboxLimit THEN Tail(longer) ELSE longer

\* The call screen offers the controls while it is connected.  A socket that is no
\* longer open is dead and takes the message with it, or closing and does not take it.
SendDurable(t, type) ==
  LET n == Len(history.sent) + 1
  IN  /\ tab[t].status = "live" /\ RoomForInput /\ (tab[t].welcomed \/ type = "other")
      /\ history' = [history EXCEPT !.sent = Append(@, [tab |-> t, type |-> type])]
      /\ \/ /\ tab[t].welcomed
            /\ socket' = Up(socket, tab[t].ws, <<Durable(n)>>)
            /\ UNCHANGED tab
         \/ /\ tab[t].welcomed => ~socket[tab[t].ws].open
            /\ tab' = [tab EXCEPT ![t].outbox = Queued(@, n)]
            /\ UNCHANGED socket
      /\ UNCHANGED engine

-----------------------------------------------------------------------------
(* The gateway *)

Task(type, s, m) == [type |-> type, socket |-> s, msg |-> m]
NoMessage == [type |-> "none", n |-> 0]

\* EngineConnection.receive(): a superseded connection is not listened to.
AcceptsAny(s) == TRUE
Accepts(s) == engine.transport = s

\* onmessage before the handler has a connection, and receive() after.
GatewayReceives(s) ==
  /\ socket[s].up # << >> /\ ~socket[s].gone
  /\ LET m == Head(socket[s].up)
         rest == [socket EXCEPT ![s].up = Tail(@)]
     IN  \/ /\ socket[s].phase = "new" /\ m.type = "hello"
            /\ socket' = [rest EXCEPT ![s].phase = "auth", ![s].last = m.n]
            /\ UNCHANGED <<engine, history>>
         \/ /\ socket[s].phase # "ready" /\ m.type # "hello"   \* auth_required
            /\ history' = [history EXCEPT !.excused = IF m.type = "final" THEN @ \cup {m.n} ELSE @]
            /\ socket' = rest
            /\ UNCHANGED engine
         \/ /\ socket[s].phase = "ready" /\ Accepts(s)
            /\ engine' = [engine EXCEPT !.queue = Append(@, Task("message", s, m))]
            /\ socket' = rest
            /\ UNCHANGED history
         \/ /\ socket[s].phase = "ready" /\ ~Accepts(s)   \* and never again
            /\ socket' = [socket EXCEPT ![s].up = << >>]
            /\ UNCHANGED <<engine, history>>
  /\ UNCHANGED tab

\* authenticate(): the token is verified and the engine found or built again.
Rebuilt(e) ==
  IF e.loaded THEN e
  ELSE [e EXCEPT !.loaded = TRUE, !.st = IF @ = "ACTIVE" THEN "RECONNECTING" ELSE @]

Authenticated(s) ==
  /\ socket[s].phase = "auth"
  /\ socket' = [socket EXCEPT ![s].phase = "queued", ![s].last = 0]
  /\ engine' = [Rebuilt(engine) EXCEPT !.queue = Append(@, Task("attach", s, Hello(socket[s].last)))]
  /\ UNCHANGED <<tab, history>>

\* helloTimer: ten seconds without a connection, whoever is slow.
HelloTimeout(s) ==
  /\ socket[s].phase \in {"new", "auth", "queued"} /\ ~socket[s].closed
  /\ RoomFor(1)
  /\ socket' = Closed(socket, s, "failed")
  /\ history' = [history EXCEPT !.faults = @ + 1]
  /\ UNCHANGED <<tab, engine>>

\* authenticate() fails: an AppError or a call that throws.
Refused(s) ==
  /\ socket[s].phase = "auth" /\ RoomFor(1)
  /\ socket' = [Closed(socket, s, "failed") EXCEPT ![s].phase = "refused", ![s].last = 0]
  /\ history' = [history EXCEPT !.faults = @ + 1]
  /\ UNCHANGED <<tab, engine>>

\* The socket's close event, after everything that reached the server.
GatewayNotices(s) ==
  /\ ~socket[s].open /\ ~socket[s].gone
  /\ socket' = [socket EXCEPT ![s].gone = TRUE, ![s].closed = TRUE, ![s].up = << >>]
  /\ engine' = [engine EXCEPT !.queue = IF socket[s].phase = "ready"
                                        THEN Append(@, Task("detach", s, NoMessage)) ELSE @]
  /\ UNCHANGED <<tab, history>>

-----------------------------------------------------------------------------
(* The engine.  "out" is what the step in hand sends on the transport. *)

Sends(e, m) == [e EXCEPT !.out = Append(@, m)]
SavedMessage(seq) == [type |-> "saved", n |-> seq]

PersistTurn(e, turn) ==
  Sends([e EXCEPT !.turns = Append(@, turn)], SavedMessage(Len(e.turns) + 1))

\* abortGeneration() and commitAborted(): "heard" when part of it was streamed.
AbortGeneration(e, heard) ==
  IF e.gen /\ heard THEN PersistTurn([e EXCEPT !.gen = FALSE], AgentTurn)
  ELSE [e EXCEPT !.gen = FALSE]

ScheduleGeneration(e, heard) ==
  IF e.st # "ACTIVE" THEN e ELSE [AbortGeneration(e, heard) EXCEPT !.gen = TRUE]

\* sendWelcome(): the turns after the lastSeq of the hello.
WelcomeOfLater(e, lastSeq) ==
  [type |-> "welcome", n |-> IF lastSeq = 0 THEN 0 ELSE Len(e.turns), to |-> Len(e.turns)]
Welcome(e, lastSeq) == [type |-> "welcome", n |-> lastSeq, to |-> Len(e.turns)]

NeedsResponse(e) == e.turns # << >> /\ e.turns[Len(e.turns)] # AgentTurn

Saved(e, n) == \E i \in DOMAIN e.turns : e.turns[i] = n
SeqOf(e, n) == CHOOSE i \in DOMAIN e.turns : e.turns[i] = n

\* onParticipantFinal(): a final that was saved is echoed.
OnFinal(e, n, heard) ==
  IF Saved(e, n) THEN Sends(e, SavedMessage(SeqOf(e, n)))
  ELSE IF e.st # "ACTIVE" THEN e
  ELSE ScheduleGeneration(PersistTurn(e, n), heard)

\* onControl(); the other handlers of durable messages leave these records alone.
OnDurable(e, type, heard) ==
  IF type = "pause" /\ e.st = "ACTIVE" THEN [AbortGeneration(e, heard) EXCEPT !.st = "PAUSED"]
  ELSE IF type = "resume" /\ e.st = "PAUSED" THEN [e EXCEPT !.st = "ACTIVE"]
  ELSE e

\* onDetach() of an older, superseded connection changes nothing.
NeverStale(e, s) == FALSE
Stale(e, s) == e.transport # s

OnDetach(e, s) ==
  IF Stale(e, s) THEN e
  ELSE LET off == AbortGeneration([e EXCEPT !.transport = 0], FALSE)
       IN  IF e.st \in {"ACTIVE", "PAUSED"}
           THEN [off EXCEPT !.st = "RECONNECTING", !.wasPaused = (e.st = "PAUSED")]
           ELSE off

\* The step's sends go to the transport it ends with.
Does(e, sockets) ==
  /\ engine' = [e EXCEPT !.out = << >>]
  /\ socket' = Down(sockets, e.transport, e.out)

Taken == [engine EXCEPT !.queue = Tail(@)]

Takes(type) == engine.busy = 0 /\ engine.queue # << >> /\ Head(engine.queue).type = type

\* attach() returns: the gateway has its connection, or has closed meanwhile.
Returns(e, sockets, s) ==
  Does([e EXCEPT !.queue = IF sockets[s].closed THEN Append(@, Task("detach", s, NoMessage)) ELSE @],
       [sockets EXCEPT ![s].phase = "ready"])

\* attach(): the old transport is closed, the session resumed, the welcome sent.
\* With a reply to break off first, attach() returns only after database calls.
Attach ==
  /\ Takes("attach")
  /\ LET s == Head(engine.queue).socket
         old == engine.transport
         sockets == IF old \in {0, s} THEN socket ELSE Closed(socket, old, "superseded")
         e == [Taken EXCEPT !.transport = s,
                            !.st = IF @ # "RECONNECTING" THEN @
                                   ELSE IF engine.wasPaused THEN "PAUSED" ELSE "ACTIVE",
                            !.out = <<Welcome(engine, Head(engine.queue).msg.n)>>]
         answers == e.st = "ACTIVE" /\ NeedsResponse(e)
     IN  \/ answers /\ e.gen /\ Does([e EXCEPT !.busy = s], sockets)
         \/ answers /\ ~e.gen /\ Returns(ScheduleGeneration(e, FALSE), sockets, s)
         \/ ~answers /\ Returns(e, sockets, s)
  /\ UNCHANGED <<tab, history>>

AttachReturns ==
  /\ engine.busy # 0
  /\ \E heard \in BOOLEAN :
       Returns(ScheduleGeneration([engine EXCEPT !.busy = 0], heard), socket, engine.busy)
  /\ UNCHANGED <<tab, history>>

HandleFinal ==
  /\ Takes("message") /\ Head(engine.queue).msg.type = "final"
  /\ LET n == Head(engine.queue).msg.n
     IN  /\ \E heard \in BOOLEAN : Does(OnFinal(Taken, n, heard), socket)
         /\ history' = [history EXCEPT !.excused =
                          IF ~Saved(engine, n) /\ engine.st # "ACTIVE" THEN @ \cup {n} ELSE @]
  /\ UNCHANGED tab

HandleDurable ==
  /\ Takes("message") /\ Head(engine.queue).msg.type = "durable"
  /\ LET n == Head(engine.queue).msg.n
     IN  /\ \E heard \in BOOLEAN : Does(OnDurable(Taken, history.sent[n].type, heard), socket)
         /\ history' = [history EXCEPT !.handled = Append(@, n)]
  /\ UNCHANGED tab

Detach ==
  /\ Takes("detach")
  /\ Does(OnDetach(Taken, Head(engine.queue).socket), socket)
  /\ UNCHANGED <<tab, history>>

\* generate() runs beside the queue and comes back to it to commit.  A commit that
\* has to wait there is dropped if what it waits for breaks the reply off, and
\* otherwise might as well have come later: it comes when nothing is waiting.
ReplyEnds ==
  /\ engine.gen /\ engine.queue = << >> /\ engine.busy = 0
  /\ Does(PersistTurn([engine EXCEPT !.gen = FALSE], AgentTurn), socket)
  /\ UNCHANGED <<tab, history>>

-----------------------------------------------------------------------------
(* Faults *)

\* The network fails, or the tab closes the socket: offline, stale, reconnect.
Drop(s) ==
  /\ socket[s].open /\ RoomFor(1)
  /\ socket' = [socket EXCEPT ![s].open = FALSE]
  /\ UNCHANGED <<tab, engine, history>>

\* The server restarts: the rows and the state they hold are what is left.
Restart ==
  /\ RoomFor(1 + Cardinality({t \in Tabs : tab[t].ws # 0} \ Lost))
  /\ socket' = [s \in DOMAIN socket |->
                  [socket[s] EXCEPT !.phase = "ready", !.open = FALSE, !.closed = TRUE,
                                    !.gone = TRUE, !.up = << >>]]
  /\ engine' = [engine EXCEPT !.loaded = FALSE, !.wasPaused = FALSE, !.queue = << >>,
                              !.busy = 0, !.transport = 0, !.gen = FALSE]
  /\ history' = [history EXCEPT !.faults = @ + 1]
  /\ UNCHANGED tab

-----------------------------------------------------------------------------
Sockets == DOMAIN socket

Browser(t) == Open(t) \/ ClientReceives(t) \/ ClientNotices(t)
Gateway(s) == GatewayReceives(s) \/ Authenticated(s) \/ GatewayNotices(s)
EngineStep == \/ Attach \/ AttachReturns \/ HandleFinal \/ HandleDurable \/ Detach
              \/ ReplyEnds

LiveLinkNext ==
  \/ \E t \in Tabs : Browser(t) \/ Connect(t) \/ Say(t)
  \/ \E t \in Tabs, type \in Durables : SendDurable(t, type)
  \/ \E s \in Sockets : Gateway(s) \/ HelloTimeout(s) \/ Refused(s) \/ Drop(s)
  \/ EngineStep
  \/ Restart

LiveLinkSpec == LiveLinkInit /\ [][LiveLinkNext]_liveVars

-----------------------------------------------------------------------------
(* Properties *)

\* Nothing is under way, whatever sockets were lost before their handshake.
Rest ==
  /\ engine.queue = << >> /\ engine.busy = 0 /\ ~engine.gen /\ Offline = {}
  /\ \A s \in Sockets :
       /\ socket[s].up = << >> /\ socket[s].phase \notin {"auth", "queued"}
       /\ ~socket[s].open => socket[s].gone /\ tab[socket[s].tab].ws # s
       /\ socket[s].open => socket[s].down = << >>

\* An utterance is delivered exactly once, over drops, restarts, half-open sockets
\* and take-overs: until it is saved its tab keeps it, and resends never save it
\* twice.  In a connected tab at rest nothing waits but what was once turned away:
\* while the session was paused, or between the welcome and the end of attach().
FinalsArrive ==
  /\ \A n \in DOMAIN history.said :
       Saved(engine, n) \/ n \in Member(tab[history.said[n]].pending)
  /\ \A i, j \in DOMAIN engine.turns :
       engine.turns[i] # AgentTurn /\ engine.turns[i] = engine.turns[j] => i = j
  /\ Rest => \A t \in Tabs : tab[t].welcomed => Member(tab[t].pending) \subseteq history.excused

\* The durable messages of a tab are handled in the order they were sent, each at
\* most once: what is left in an old socket never comes after what the tab sends
\* on its new one.
DurablesInOrder ==
  \A i, j \in DOMAIN history.handled :
    LET a == history.handled[i]
        b == history.handled[j]
    IN  i < j /\ history.sent[a].tab = history.sent[b].tab => a < b

\* What SessionConnection promises about what a tab sends.
Delivered == FinalsArrive /\ DurablesInOrder

\* A tab shows the transcript without a gap up to its lastSeq, whichever sockets
\* its turns came by, and all of it when it is connected and nothing is under way.
TranscriptIsWhole ==
  \A t \in Tabs :
    /\ tab[t].shown = 1..tab[t].lastSeq /\ tab[t].lastSeq <= Len(engine.turns)
    /\ Rest /\ tab[t].welcomed => tab[t].lastSeq = Len(engine.turns)

\* When nothing is under way, a tab that is connected is the one the engine talks
\* to, and the session stands still exactly when there is none: late hellos, late
\* closes and late detachments of old sockets have not undone a newer connection.
LinkAgrees ==
  Rest /\ engine.loaded =>
    /\ engine.transport = 0 <=> engine.st = "RECONNECTING"
    /\ \A t \in Tabs : tab[t].ws # 0 => tab[t].welcomed /\ engine.transport = tab[t].ws
=============================================================================
