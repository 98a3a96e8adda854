------------------------------ MODULE Gateway ------------------------------
(***************************************************************************)
(* One client connection of the gateway: the task that reads frames and    *)
(* feeds the session's lane into the Sequencer, the task that forwards     *)
(* execution reports, one task per market data subscription, and the task  *)
(* that writes to the socket.                                              *)
(*   crates/gateway/src: server.rs, session.rs, codec.rs, market_data.rs   *)
(*   crates/core-types/src/commands.rs (TryFrom<Command>)                  *)
(*                                                                         *)
(* Sessions share nothing but broadcast channels, whose senders never      *)
(* wait, so one connection is modelled and the rest is what it receives.   *)
(* A frame is two pieces, the length prefix and the rest; the socket hands *)
(* over any number of pieces at a time.  Frames are                        *)
(*   [type |-> "auth"/"new"/"cancel"/"sub"/"unsub"/"other", arg, valid]    *)
(*   [type |-> "length"]: a length prefix of zero or above MAX_FRAME_LEN   *)
(* where valid says that the payload has its length and its tags.          *)
(***************************************************************************)
EXTENDS Integers, SequencesExt, FiniteSetsExt

CONSTANTS
  Streams,        \* what the client may send: a set of sequences of frames
  Account,        \* the account the client authenticates as
  Instruments,    \* InstrumentIds; the ones in Symbols fit Symbol(u16)
  Symbols,
  ExecEvents,     \* events the engines may report
  LaneCap,        \* capacity of the lane into the Sequencer
  WriteCap,       \* capacity of the writer's channel
  ExecCap, MdCap, \* capacity of the broadcast channels
  MaxPublished    \* bound: events and updates published

VARIABLES
  stream,         \* what the client sends
  pc,             \* handle_connection
  read_buf,       \* pieces read so far
  taken,          \* frames decoded so far
  subscriptions, forwarded,
  lane,           \* commands waiting for the Sequencer
  enqueued,       \* history: all commands put there
  exec_log,       \* events sent on the exec-report channel
  exec,           \* its forwarder: [alive, pos, held]
  first,          \* history: position at which it subscribed
  skipped,        \* history: the events it missed by lagging
  md_log,         \* Instruments -> number of updates sent on the channel
  channels,       \* instruments with a channel
  md,             \* Instruments -> forwarder: [alive, pos, held]
  main_tx,        \* handle_connection still holds md_tx
  chan,           \* the writer's channel
  writer,         \* writer task runs
  written         \* history: frames written to the socket

conn_vars == <<stream, pc, read_buf, taken, subscriptions, forwarded, lane, enqueued, main_tx>>
exec_vars == <<exec_log, exec, first, skipped>>
md_vars   == <<md_log, channels, md>>
out_vars  == <<chan, writer, written>>
vars      == <<conn_vars, exec_vars, md_vars, out_vars>>

NoTask == [alive |-> FALSE, pos |-> 0, held |-> <<>>]

Init ==
  /\ stream \in Streams
  /\ pc = "listen" /\ read_buf = 0 /\ taken = 0
  /\ subscriptions = {} /\ forwarded = {} /\ lane = <<>> /\ enqueued = <<>>
  /\ main_tx = FALSE
  /\ exec_log = <<>> /\ exec = NoTask /\ first = 0 /\ skipped = {}
  /\ md_log = [i \in Instruments |-> 0] /\ channels = {}
  /\ md = [i \in Instruments |-> NoTask]
  /\ chan = <<>> /\ writer = FALSE /\ written = <<>>

(***************************************************************************)
(* Decoding.                                                               *)
(***************************************************************************)
\* Codec::decode: "none", "error" or "frame", for the next frame of buf.
decode ==
  IF read_buf <= 2 * taken THEN "none"
  ELSE IF stream[taken + 1].type = "length" THEN "error"
  ELSE IF read_buf < 2 * taken + 2 THEN "none" ELSE "frame"

NextFrame == stream[taken + 1]

decode_new_order(f) ==
  IF f.valid THEN {[type |-> "NewOrder", account |-> Account, instrument |-> f.arg]} ELSE {}

decode_cancel_order(f) ==
  IF f.valid THEN {[type |-> "Cancel", account |-> Account, order_id |-> f.arg]} ELSE {}

decode_instrument_id(f) == IF f.valid THEN {f.arg} ELSE {}

\* TryFrom<Command>: an instrument beyond Symbol(u16) has no InboundCommand.
try_from(cmd) ==
  IF cmd.type = "Cancel" \/ cmd.instrument \in Symbols THEN {cmd} ELSE {}

\* The InboundCommand of a frame, if it has one.
CommandOf(f) ==
  UNION {try_from(c) : c \in IF f.type = "new" THEN decode_new_order(f)
                            ELSE IF f.type = "cancel" THEN decode_cancel_order(f) ELSE {}}

(***************************************************************************)
(* GatewayServer::serve, serve_tls and read_auth_frame.                    *)
(***************************************************************************)
\* accept: the connection subscribes to the exec reports before anything else.
Accept ==
  /\ pc = "listen"
  /\ pc' = "auth"
  /\ exec' = [exec EXCEPT !.pos = Len(exec_log)] /\ first' = Len(exec_log)
  /\ UNCHANGED <<stream, read_buf, taken, subscriptions, forwarded, lane, enqueued, main_tx,
                 exec_log, skipped, md_vars, out_vars>>

\* The TLS handshake fails.
AcceptFails ==
  /\ pc = "listen" /\ pc' = "done"
  /\ UNCHANGED <<stream, read_buf, taken, subscriptions, forwarded, lane, enqueued, main_tx,
                 exec_vars, md_vars, out_vars>>

\* Faulty variant: the exec reports are subscribed to after the handshake.
ExecStartLate == [alive |-> TRUE, pos |-> Len(exec_log), held |-> <<>>]

ExecStart == [exec EXCEPT !.alive = TRUE]

\* read_auth_frame returns and the tasks are spawned.
AuthDone ==
  /\ pc = "auth" /\ decode = "frame" /\ NextFrame.valid
  /\ pc' = "frames" /\ taken' = taken + 1
  /\ main_tx' = TRUE /\ writer' = TRUE /\ exec' = ExecStart
  /\ UNCHANGED <<stream, read_buf, subscriptions, forwarded, lane, enqueued, exec_log, first,
                 skipped, md_vars, chan, written>>

\* read_auth_frame fails, also at the end of the stream.
AuthFails ==
  /\ pc = "auth"
  /\ decode \in {"error", "none"} \/ ~NextFrame.valid
  /\ pc' = "done"
  /\ UNCHANGED <<stream, read_buf, taken, subscriptions, forwarded, lane, enqueued, main_tx,
                 exec_vars, md_vars, out_vars>>

(***************************************************************************)
(* handle_connection.                                                      *)
(***************************************************************************)
\* read_buf of the socket: one piece or more.
Read ==
  /\ \/ pc = "read" /\ pc' = "spawn"
     \/ pc = "auth" /\ decode = "none" /\ pc' = "auth"
  /\ \E n \in read_buf + 1 .. 2 * Len(stream) : read_buf' = n
  /\ UNCHANGED <<stream, taken, subscriptions, forwarded, lane, enqueued, main_tx, exec_vars,
                 md_vars, out_vars>>

\* The peer closed the connection (the task goes on to wait for the writer),
\* or the read failed (the task returns).
ReadEnds ==
  /\ pc = "read" /\ pc' \in {"closing", "done"}
  /\ main_tx' = FALSE
  /\ UNCHANGED <<stream, read_buf, taken, subscriptions, forwarded, lane, enqueued, exec_vars,
                 md_vars, out_vars>>

\* handle_inbound without a complete frame.
HandleNothing ==
  /\ pc = "frames" /\ decode = "none"
  /\ pc' = "read"
  /\ UNCHANGED <<stream, read_buf, taken, subscriptions, forwarded, lane, enqueued, main_tx,
                 exec_vars, md_vars, out_vars>>

\* Faulty variant: a full lane is overlooked.
enqueue_dropping(cmd) ==
  /\ lane' = IF Len(lane) < LaneCap THEN Append(lane, cmd) ELSE lane
  /\ enqueued' = IF Len(lane) < LaneCap THEN Append(enqueued, cmd) ELSE enqueued
  /\ pc' = "read" /\ UNCHANGED main_tx

\* enqueue; QueueFull is an error and closes the session.
enqueue(cmd) ==
  \/ /\ Len(lane) < LaneCap
     /\ lane' = Append(lane, cmd) /\ enqueued' = Append(enqueued, cmd)
     /\ pc' = "read" /\ UNCHANGED main_tx
  \/ /\ Len(lane) >= LaneCap
     /\ pc' = "closing" /\ main_tx' = FALSE
     /\ UNCHANGED <<lane, enqueued>>

\* handle_inbound of a complete frame (dispatch_frame).  It returns Ok(None),
\* and on None the inner loop ends: the next frame waits for the next read.
HandleCommand ==
  /\ pc = "frames" /\ decode = "frame"
  /\ \E cmd \in CommandOf(NextFrame) : enqueue(cmd)
  /\ taken' = taken + 1
  /\ UNCHANGED <<stream, read_buf, subscriptions, forwarded, exec_vars, md_vars, out_vars>>

HandleSubscription ==
  /\ pc = "frames" /\ decode = "frame" /\ NextFrame.type \in {"sub", "unsub"}
  /\ \E i \in decode_instrument_id(NextFrame) :
       subscriptions' = IF NextFrame.type = "sub" THEN subscriptions \cup {i}
                        ELSE subscriptions \ {i}
  /\ taken' = taken + 1 /\ pc' = "read"
  /\ UNCHANGED <<stream, read_buf, forwarded, lane, enqueued, main_tx, exec_vars, md_vars,
                 out_vars>>

\* A protocol error closes the session.
HandleError ==
  /\ pc = "frames"
  /\ \/ decode = "error"
     \/ /\ decode = "frame" /\ CommandOf(NextFrame) = {}
        /\ NextFrame.type \notin {"sub", "unsub"} \/ decode_instrument_id(NextFrame) = {}
  /\ pc' = "closing" /\ main_tx' = FALSE
  /\ UNCHANGED <<stream, read_buf, taken, subscriptions, forwarded, lane, enqueued, exec_vars,
                 md_vars, out_vars>>

\* MarketDataHub::subscribe for one subscription that has no forwarder yet.
Forward ==
  /\ pc = "spawn"
  /\ \E i \in subscriptions \ forwarded :
       /\ forwarded' = forwarded \cup {i}
       /\ channels' = channels \cup {i}
       /\ md' = [md EXCEPT ![i] = [alive |-> TRUE, pos |-> md_log[i], held |-> <<>>]]
  /\ UNCHANGED <<stream, pc, read_buf, taken, subscriptions, lane, enqueued, main_tx, exec_vars,
                 md_log, out_vars>>

SpawnDone ==
  /\ pc = "spawn" /\ subscriptions \subseteq forwarded
  /\ pc' = "frames"
  /\ UNCHANGED <<stream, read_buf, taken, subscriptions, forwarded, lane, enqueued, main_tx,
                 exec_vars, md_vars, out_vars>>

\* writer_task.await.
Closed ==
  /\ pc = "closing" /\ ~writer /\ pc' = "done"
  /\ UNCHANGED <<stream, read_buf, taken, subscriptions, forwarded, lane, enqueued, main_tx,
                 exec_vars, md_vars, out_vars>>

\* External: the Sequencer takes a command off the lane.
SequencerPop ==
  /\ lane # <<>> /\ lane' = Tail(lane)
  /\ UNCHANGED <<stream, pc, read_buf, taken, subscriptions, forwarded, enqueued, main_tx,
                 exec_vars, md_vars, out_vars>>

(***************************************************************************)
(* Execution reports.                                                      *)
(***************************************************************************)
MayPublish == Len(exec_log) + MapThenSumSet(LAMBDA i : md_log[i], Instruments) < MaxPublished

PublishExec ==
  /\ MayPublish
  /\ \E ev \in ExecEvents : exec_log' = Append(exec_log, ev)
  /\ UNCHANGED <<conn_vars, exec, first, skipped, md_vars, out_vars>>

\* encode_exec_report: Filled is always encoded as the aggressor's, whichever
\* of the two the account is.
encode_exec_report(ev, n) ==
  [type |-> "exec", n |-> n, variant |-> ev.type,
   about |-> IF ev.type = "Filled" THEN ev.aggressor ELSE ev.account]

\* encode_event_for: the report, if the event concerns the account.
encode_event_for(ev, n) ==
  IF \/ ev.type \in {"Accepted", "Canceled", "Rejected", "Modified"} /\ ev.account = Account
     \/ ev.type = "Filled" /\ Account \in {ev.aggressor, ev.resting}
    THEN <<encode_exec_report(ev, n)>> ELSE <<>>

\* Faulty variant: the forwarder returns at an event it has no report for.
ForwarderAfterRelevant(ev) == encode_event_for(ev, 0) # <<>>

\* The forwarder goes on after every event.
ForwarderAfter(ev) == TRUE

\* recv: the next event, or Lagged, which skips to the oldest event kept.
ExecRecv ==
  /\ exec.alive /\ exec.held = <<>> /\ exec.pos < Len(exec_log)
  /\ LET n  == exec.pos + 1
         ev == exec_log[n]
     IN  IF Len(exec_log) - exec.pos > ExecCap
           THEN /\ exec' = [exec EXCEPT !.pos = Len(exec_log) - ExecCap]
                /\ skipped' = skipped \cup (n .. Len(exec_log) - ExecCap)
           ELSE exec' = [alive |-> ForwarderAfter(ev), pos |-> n, held |-> encode_event_for(ev, n)]
                /\ UNCHANGED skipped
  /\ UNCHANGED <<conn_vars, exec_log, first, md_vars, out_vars>>

\* tx.send: waits for room, fails once the writer is gone.
ExecSend ==
  /\ exec.held # <<>>
  /\ \/ /\ writer /\ Len(chan) < WriteCap
        /\ chan' = chan \o exec.held
        /\ exec' = [exec EXCEPT !.held = <<>>]
     \/ /\ ~writer
        /\ exec' = [exec EXCEPT !.alive = FALSE, !.held = <<>>]
        /\ UNCHANGED chan
  /\ UNCHANGED <<conn_vars, exec_log, first, skipped, md_vars, writer, written>>

(***************************************************************************)
(* Market data.                                                            *)
(***************************************************************************)
\* MarketDataHub::publish: without a channel the update is dropped.
PublishMd ==
  /\ MayPublish
  /\ \E i \in channels : md_log' = [md_log EXCEPT ![i] = @ + 1]
  /\ UNCHANGED <<conn_vars, exec_vars, channels, md, out_vars>>

encode_market_data(i, n) == [type |-> "md", n |-> n, instrument |-> i]

\* Faulty variant: a forwarder that lagged goes on with the oldest update kept.
MdLaggedSkips(i) == [md[i] EXCEPT !.pos = md_log[i] - MdCap]

\* A forwarder that lagged ends.
MdLagged(i) == NoTask

MdRecv(i) ==
  /\ md[i].alive /\ md[i].held = <<>> /\ md[i].pos < md_log[i]
  /\ md' = [md EXCEPT ![i] =
              IF md_log[i] - md[i].pos > MdCap THEN MdLagged(i)
              ELSE [@ EXCEPT !.pos = @ + 1, !.held = <<encode_market_data(i, md[i].pos + 1)>>]]
  /\ UNCHANGED <<conn_vars, exec_vars, md_log, channels, out_vars>>

MdSend(i) ==
  /\ md[i].held # <<>>
  /\ \/ /\ writer /\ Len(chan) < WriteCap
        /\ chan' = chan \o md[i].held
        /\ md' = [md EXCEPT ![i].held = <<>>]
     \/ /\ ~writer
        /\ md' = [md EXCEPT ![i] = NoTask]
        /\ UNCHANGED chan
  /\ UNCHANGED <<conn_vars, exec_vars, md_log, channels, writer, written>>

(***************************************************************************)
(* The writer task.                                                        *)
(***************************************************************************)
Senders == main_tx \/ exec.alive \/ \E i \in Instruments : md[i].alive

\* recv and write_all.
Write ==
  /\ writer /\ chan # <<>>
  /\ written' = Append(written, Head(chan)) /\ chan' = Tail(chan)
  /\ UNCHANGED <<conn_vars, exec_vars, md_vars, writer>>

\* write_all fails, or all senders are gone.
WriterEnds ==
  /\ writer /\ (chan # <<>> \/ ~Senders)
  /\ writer' = FALSE /\ chan' = <<>>
  /\ UNCHANGED <<conn_vars, exec_vars, md_vars, written>>

Connection == \/ Accept \/ AcceptFails \/ AuthDone \/ AuthFails \/ Read \/ ReadEnds
              \/ HandleNothing \/ HandleCommand \/ HandleSubscription \/ HandleError
              \/ Forward \/ SpawnDone \/ Closed

Forwarders == \/ ExecRecv \/ ExecSend
              \/ \E i \in Instruments : MdRecv(i) \/ MdSend(i)

Next == Connection \/ Forwarders \/ Write \/ WriterEnds
        \/ PublishExec \/ PublishMd \/ SequencerPop

\* The runtime polls every task that can go on.
Fairness == WF_vars(ExecRecv) /\ WF_vars(ExecSend) /\ WF_vars(Write \/ WriterEnds)

Spec     == Init /\ [][Next]_vars
FairSpec == Spec /\ Fairness

(***************************************************************************)
(* Properties.                                                             *)
(***************************************************************************)
InTransit == written \o chan

Frames(log, type) == SelectSeq(log, LAMBDA f : f.type = type)

\* A frame that ends the session, and the commands before the first of them.
Fatal(f) == CASE f.type \in {"auth", "sub", "unsub"} -> ~f.valid
              [] f.type \in {"new", "cancel"}         -> CommandOf(f) = {}
              [] OTHER                                -> TRUE

Wanted ==
  LET sound == {k \in DOMAIN stream : \A j \in 1 .. k : ~Fatal(stream[j])}
  IN  SelectSeq(SubSeq(stream, 1, Cardinality(sound)), LAMBDA f : CommandOf(f) # {})

\* However the stream is cut into reads, and whenever the lane fills up, the
\* Sequencer gets the client's commands in order, each once, without a hole:
\* a session that cannot understand or enqueue one ends before the next.
CommandsInOrder ==
  /\ Len(enqueued) <= Len(Wanted)
  /\ \A i \in DOMAIN enqueued : enqueued[i] \in CommandOf(Wanted[i])

Concerns(ev) ==
  IF ev.type = "Filled" THEN Account \in {ev.aggressor, ev.resting} ELSE ev.account = Account

\* Events up to position n that the client has to be told of, by number.
Due(n) ==
  SelectSeq([k \in 1 .. n - first |-> first + k],
            LAMBDA k : Concerns(exec_log[k]) /\ k \notin skipped)

Numbers(frames) == [k \in DOMAIN frames |-> frames[k].n]

\* The reports on their way to the client are those of the events that
\* concern its account, in order and each once, from the moment its connection
\* was accepted; when the forwarder lags, those it skips are missing and no
\* other.  (What a report says is the subject of FillsFromOwnSide.)
ReportsComplete ==
  writer /\ exec.alive =>
    Numbers(Frames(InTransit, "exec") \o exec.held) = Due(exec.pos)

\* session.rs: "Encode from the perspective of *this* account ... We pick
\* whichever side matches." - a client's fill report is about its own order.
FillsFromOwnSide ==
  \A k \in DOMAIN InTransit :
    InTransit[k].type = "exec" /\ InTransit[k].variant = "Filled" => InTransit[k].about = Account

\* A client never sees a hole in the updates of an instrument: a forwarder
\* that lost some ends instead of going on.
FeedHasNoHole ==
  \A i \in Instruments :
    LET seen == SelectSeq(Frames(written, "md"), LAMBDA f : f.instrument = i)
    IN  \A k \in 1 .. Len(seen) - 1 : seen[k + 1].n = seen[k].n + 1

\* Every event that concerns the account reaches the client, also after its
\* session was closed by an error, as long as the socket takes writes, except
\* those skipped by a forwarder that lags.
ReportsArrive ==
  <>[](writer => /\ exec.pos = Len(exec_log)
                 /\ Numbers(Frames(written, "exec")) = Due(Len(exec_log)))

\* server.rs: "Process as many complete frames as are already buffered" - the
\* task waits for more bytes only when no complete frame is left.
FramesDrained == pc = "read" => decode = "none"
=============================================================================
