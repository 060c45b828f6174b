--------------------------------- MODULE Stomp ---------------------------------
(***************************************************************************)
(* The STOMP client of js/stomp/stomp.js over one web socket, and a broker *)
(* that speaks the same frames.  A text is a sequence of characters; a     *)
(* command, a header's value and a letter of a body are one character      *)
(* each.  Both ends cut what they send into pieces of the same length, the *)
(* client because of maxWebSocketFrameSize.                                *)
(* Time is counted in ages, which stop growing where nothing depends on    *)
(* them any more.                                                          *)
(***************************************************************************)
EXTENDS Integers, Sequences, FiniteSets, SequencesExt, TLC

CONSTANTS
  LF, NUL,
  Letters,                \* of bodies
  Pieces,                 \* possible values of maxWebSocketFrameSize
  outgoing, incoming,     \* heartbeat: what the client asks for, 0 is never
  Periods,                \* what the broker may ask for
  MaxFrames               \* calls of the client's user and frames of the broker

VARIABLES
  ws,             \* "connecting", "open", "closing" or "closed"
  connected,
  counter,        \* of generated ids
  subscriptions,  \* ids that have a callback
  partialData,
  silence,        \* now() - serverActivity
  pinger, ponger, \* [ttl, left], ttl is 0 when the interval is not set
  handled,        \* frames given to their callbacks
  calls,          \* of the client's user so far
  up, down,       \* pieces on their way to the broker and to the client
  broker          \* maxSize, received text, open subscriptions, frames sent, period, quiet, alive

vars == <<ws, connected, counter, subscriptions, partialData, silence, pinger, ponger,
          handled, calls, up, down, broker>>
link == <<ws, connected, silence, pinger, ponger>>

\* Generated ids.
sub(n) == "sub-" \o ToString(n)
tx(n) == "tx-" \o ToString(n)

\* Commands and values of headers.
Words ==
  {"CONNECT", "CONNECTED", "SUBSCRIBE", "UNSUBSCRIBE", "BEGIN", "SEND", "DISCONNECT", "MESSAGE", "RECEIPT",
   "heart-beat", "destination", "receipt-id", ""}
  \union {sub(n) : n \in 0 .. MaxFrames} \union {tx(n) : n \in 0 .. MaxFrames}

\* Only bodies have line ends, nothing has the end of a frame, ids differ as their numbers
\* do, and a piece is longer than a heart-beat.
StompAssumption ==
  /\ LF # NUL /\ {LF, NUL} \intersect Words = {} /\ NUL \notin Letters
  /\ \A m, n \in 0 .. MaxFrames : sub(m) = sub(n) => m = n
  /\ MaxFrames \in Nat /\ Pieces \subseteq Nat \ {0, 1}

-----------------------------------------------------------------------------
(* Frames *)

Frame(command, header, body) == [command |-> command, header |-> header, body |-> body]

marshall(f) == <<f.command, LF, f.header, LF, LF>> \o f.body \o <<NUL>>

\* Everything before the first empty line, and what follows it.
unmarshallSingle(data) ==
  LET divider == CHOOSE i \in DOMAIN data : data[i] = LF /\ data[i + 1] = LF
                   /\ \A j \in 1 .. i - 1 : ~(data[j] = LF /\ data[j + 1] = LF)
  IN  IF \E i \in 1 .. Len(data) - 1 : data[i] = LF /\ data[i + 1] = LF
      THEN Frame(data[1], data[divider - 1], SubSeq(data, divider + 2, Len(data)))
      ELSE Frame("", "", <<>>)

\* Indices in their order.
inOrder(indices) ==
  CHOOSE order \in [1 .. Cardinality(indices) -> indices] :
    \A k, l \in DOMAIN order : k < l => order[k] < order[l]

\* The frames that end with NUL, empty lines between them dropped, and the rest.
unmarshall(datas) ==
  LET ends     == inOrder({i \in DOMAIN datas : datas[i] = NUL})
      n        == Len(ends)
      start(k) == IF k = 1 THEN 1
                  ELSE CHOOSE i \in ends[k - 1] + 1 .. Len(datas) + 1 :
                         /\ i > Len(datas) \/ datas[i] # LF
                         /\ \A j \in ends[k - 1] + 1 .. i - 1 : datas[j] = LF
  IN  [frames  |-> [k \in 1 .. n |-> unmarshallSingle(SubSeq(datas, start(k), ends[k] - 1))],
       partial |-> SubSeq(datas, start(n + 1), Len(datas))]

\* text in pieces of at most size characters.
Cut(text, size) ==
  [k \in 1 .. (Len(text) + size - 1) \div size |->
     SubSeq(text, (k - 1) * size + 1, IF k * size < Len(text) THEN k * size ELSE Len(text))]

-----------------------------------------------------------------------------
(* The client *)

off == [ttl |-> 0, left |-> 0]
interval(ttl) == [ttl |-> ttl, left |-> ttl]

Init ==
  /\ ws = "connecting" /\ connected = FALSE
  /\ counter = 0 /\ subscriptions = {} /\ partialData = <<>>
  /\ silence = 0 /\ pinger = off /\ ponger = off
  /\ handled = <<>> /\ calls = 0 /\ up = <<>> /\ down = <<>>
  /\ \E size \in Pieces, period \in Periods :
       broker = [size |-> size, period |-> period, text |-> <<>>, subs |-> {}, sent |-> <<>>,
                 quiet |-> 0, alive |-> TRUE]

\* ws.send; nothing is kept for a broker that has stopped.
Send(pieces) == up' = IF broker.alive THEN up \o pieces ELSE <<>>

_transmit(command, header, body) == Send(Cut(marshall(Frame(command, header, body)), broker.size))

onopen ==
  /\ ws = "connecting"
  /\ ws' = "open"
  /\ _transmit("CONNECT", "heart-beat", <<>>)
  /\ UNCHANGED <<connected, counter, subscriptions, partialData, silence, pinger, ponger,
                 handled, calls, down, broker>>

\* A call of the client's user.
Call ==
  /\ connected /\ calls + Len(broker.sent) <= MaxFrames
  /\ calls' = calls + 1
  /\ UNCHANGED <<link, partialData, handled, down, broker>>

subscribe ==
  /\ Call
  /\ counter' = counter + 1
  /\ subscriptions' = subscriptions \union {sub(counter)}
  /\ _transmit("SUBSCRIBE", sub(counter), <<>>)

unsubscribe(id) ==
  /\ Call
  /\ subscriptions' = subscriptions \ {id}
  /\ _transmit("UNSUBSCRIBE", id, <<>>)
  /\ UNCHANGED counter

begin ==
  /\ Call
  /\ counter' = counter + 1
  /\ _transmit("BEGIN", tx(counter), <<>>)
  /\ UNCHANGED subscriptions

\* send, commit, abort, ack and nack only transmit.
send(command, body) ==
  /\ Call
  /\ _transmit(command, "destination", body)
  /\ UNCHANGED <<counter, subscriptions>>

_cleanUp == connected' = FALSE /\ pinger' = off /\ ponger' = off

disconnect ==
  /\ connected
  /\ _transmit("DISCONNECT", "", <<>>)
  /\ ws' = "closed"
  /\ _cleanUp
  /\ UNCHANGED <<counter, subscriptions, partialData, silence, handled, calls, down, broker>>

larger(a, b) == IF a > b THEN a ELSE b

_setupHeartbeat ==
  /\ pinger' = IF outgoing = 0 \/ broker.period = 0 THEN off
               ELSE interval(larger(outgoing, broker.period))
  /\ ponger' = IF incoming = 0 \/ broker.period = 0 THEN off
               ELSE interval(larger(incoming, broker.period))

\* The frames that reach a callback; a message without one is dropped.
Callbacks(frames) ==
  LET called == inOrder({i \in DOMAIN frames :
                           frames[i].command = "MESSAGE" => frames[i].header \in subscriptions})
  IN  [k \in DOMAIN called |-> frames[called[k]]]

\* Fault: the beginning of a frame is forgotten.
onmessageWhole ==
  /\ ws \in {"open", "closing"} /\ down # <<>>
  /\ silence' = 0
  /\ down' = Tail(down)
  /\ LET data == unmarshall(Head(down)) IN
       /\ handled' = handled \o Callbacks(data.frames)
       /\ connected' = (connected \/ \E f \in ToSet(data.frames) : f.command = "CONNECTED")
       /\ IF connected' = connected THEN UNCHANGED <<pinger, ponger>> ELSE _setupHeartbeat
  /\ UNCHANGED <<ws, counter, subscriptions, partialData, calls, up, broker>>

onmessage ==
  /\ ws \in {"open", "closing"} /\ down # <<>>
  /\ silence' = 0
  /\ down' = Tail(down)
  /\ IF Head(down) = <<LF>>
     THEN UNCHANGED <<connected, pinger, ponger, partialData, handled>>
     ELSE LET data == unmarshall(partialData \o Head(down)) IN
          /\ partialData' = data.partial
          /\ handled' = handled \o Callbacks(data.frames)
          /\ connected' = (connected \/ \E f \in ToSet(data.frames) : f.command = "CONNECTED")
          /\ IF connected' = connected THEN UNCHANGED <<pinger, ponger>> ELSE _setupHeartbeat
  /\ UNCHANGED <<ws, counter, subscriptions, calls, up, broker>>

ping ==
  /\ pinger.ttl > 0 /\ pinger.left = 0
  /\ pinger' = interval(pinger.ttl)
  /\ Send(<< <<LF>> >>)
  /\ UNCHANGED <<ws, connected, counter, subscriptions, partialData, silence, ponger,
                 handled, calls, down, broker>>

\* Fault: the connection is given up after one period.
checkPongEarly ==
  /\ ponger.ttl > 0 /\ ponger.left = 0
  /\ ponger' = interval(ponger.ttl)
  /\ ws' = IF silence >= ponger.ttl /\ ws = "open" THEN "closing" ELSE ws
  /\ UNCHANGED <<connected, counter, subscriptions, partialData, silence, pinger,
                 handled, calls, up, down, broker>>

checkPong ==
  /\ ponger.ttl > 0 /\ ponger.left = 0
  /\ ponger' = interval(ponger.ttl)
  /\ ws' = IF silence > ponger.ttl * 2 /\ ws = "open" THEN "closing" ELSE ws
  /\ UNCHANGED <<connected, counter, subscriptions, partialData, silence, pinger,
                 handled, calls, up, down, broker>>

onclose ==
  /\ ws = "closing"
  /\ ws' = "closed"
  /\ _cleanUp
  /\ UNCHANGED <<counter, subscriptions, partialData, silence, handled, calls, up, down, broker>>

-----------------------------------------------------------------------------
(* The broker and the time, external *)

\* A piece arrives; CONNECT is answered and subscriptions are kept.
Receive ==
  /\ up # <<>> /\ broker.alive
  /\ up' = Tail(up)
  /\ LET data == unmarshall(broker.text \o Head(up))
         ids(command) == {f.header : f \in {g \in ToSet(data.frames) : g.command = command}}
         answer == IF ids("CONNECT") = {} THEN <<>> ELSE <<Frame("CONNECTED", "heart-beat", <<>>)>>
     IN  IF Head(up) = <<LF>> THEN UNCHANGED <<down, broker>>
         ELSE /\ broker' = [broker EXCEPT !.text = data.partial, !.sent = @ \o answer,
                              !.subs = (@ \union ids("SUBSCRIBE")) \ ids("UNSUBSCRIBE"),
                              !.quiet = IF answer = <<>> THEN @ ELSE 0]
              /\ down' = IF answer = <<>> THEN down
                         ELSE down \o Cut(marshall(answer[1]), broker.size)
  /\ UNCHANGED <<link, counter, subscriptions, partialData, handled, calls>>

\* A frame, with or without an empty line behind it.
Publish(f, trail) ==
  /\ broker.alive /\ broker.sent # <<>> /\ calls + Len(broker.sent) <= MaxFrames
  /\ f.command = "MESSAGE" => f.header \in broker.subs
  /\ down' = down \o Cut(marshall(f) \o trail, broker.size)
  /\ broker' = [broker EXCEPT !.sent = Append(@, f), !.quiet = 0]
  /\ UNCHANGED <<link, counter, subscriptions, partialData, handled, calls, up>>

Beat ==
  /\ broker.alive /\ broker.sent # <<>> /\ broker.quiet > 0 /\ broker.period > 0
  /\ down' = Append(down, <<LF>>)
  /\ broker' = [broker EXCEPT !.quiet = 0]
  /\ UNCHANGED <<link, counter, subscriptions, partialData, handled, calls, up>>

Die ==
  /\ broker.alive
  /\ broker' = [broker EXCEPT !.alive = FALSE]
  /\ up' = <<>>
  /\ UNCHANGED <<link, counter, subscriptions, partialData, handled, calls, down>>

\* A broker that lives sends something within its period, a piece arrives before
\* the next tick, and a timer fires when it is due.
Tick ==
  /\ connected
  /\ down = <<>> /\ up = <<>>
  /\ pinger.ttl > 0 => pinger.left > 0
  /\ ponger.ttl > 0 => ponger.left > 0
  /\ broker.alive /\ broker.period > 0 => broker.quiet < broker.period
  /\ LET most == 2 * larger(ponger.ttl, 1) + 1
         age(n) == IF n < most THEN n + 1 ELSE n
         run(i) == IF i.ttl > 0 THEN [i EXCEPT !.left = @ - 1] ELSE i
     IN  /\ silence' = age(silence)
         /\ broker' = [broker EXCEPT !.quiet = age(@)]
         /\ pinger' = run(pinger) /\ ponger' = run(ponger)
  /\ UNCHANGED <<ws, connected, counter, subscriptions, partialData, handled, calls, up, down>>

Bodies == {<<>>} \union {<<a, LF>> : a \in Letters}

Next ==
  \/ onopen \/ onmessage \/ onclose \/ ping \/ checkPong \/ disconnect
  \/ subscribe \/ begin \/ \E id \in subscriptions : unsubscribe(id)
  \/ \E body \in Bodies : send("SEND", body)
  \/ Receive \/ Beat \/ Die \/ Tick
  \/ \E f \in [command : {"MESSAGE"}, header : broker.subs, body : Bodies], trail \in {<<>>, <<LF>>} :
       Publish(f, trail)
  \/ \E trail \in {<<>>, <<LF>>} : Publish(Frame("RECEIPT", "receipt-id", <<>>), trail)

Fairness == /\ WF_vars(onopen) /\ WF_vars(onmessage) /\ WF_vars(onclose) /\ WF_vars(ping)
            /\ WF_vars(checkPong) /\ WF_vars(Tick)

Spec == Init /\ [][Next]_vars /\ Fairness

-----------------------------------------------------------------------------
(* Properties *)

\* Frames are handled in the order and with the contents they were sent, however
\* they are cut into pieces and mixed with heart-beats; only a message whose
\* subscription has ended is missing (onmessage, unmarshall, _transmit).
FramesIntact ==
  /\ \E at \in [DOMAIN handled -> DOMAIN broker.sent] :
       /\ \A i, j \in DOMAIN handled : i < j => at[i] < at[j]
       /\ \A i \in DOMAIN handled : handled[i] = broker.sent[at[i]]
  /\ down = <<>> /\ ws = "open" =>
       \A f \in ToSet(broker.sent) :
         (f.command = "MESSAGE" => f.header \in subscriptions) => f \in ToSet(handled)

\* The client gives the connection up only when the broker has stopped, and it
\* does so in the end when heart-beats were agreed (_setupHeartbeat).
HeartbeatWatches ==
  /\ [](ws = "closing" => ~broker.alive)
  /\ (~broker.alive /\ ponger.ttl > 0) ~> (ws = "closed")
=============================================================================
