----------------------------- MODULE NotifIter -----------------------------
(***************************************************************************)
(* The CTF notification iterator of                                        *)
(* src/plugins/ctf/common/notif-iter/notif-iter.c.                         *)
(*                                                                         *)
(* The iterator is a resumable state machine: every call of               *)
(* bt_notif_iter_get_next_notification runs handle_state in a loop until   *)
(* one notification is produced, the medium answers AGAIN, the medium      *)
(* ends (EOF), or an error occurs.  One TLA+ step is one iteration of that *)
(* loop: the handler of the current state together with the emission       *)
(* switch that follows it in the loop body.                                *)
(*                                                                         *)
(* Data abstraction.  The binary type reader (BTR) is abstracted to the    *)
(* number of bits each dynamic scope occupies: it consumes                 *)
(* min(available, remaining) bits and reports OK when the scope is         *)
(* complete and EOF ("need more bytes") otherwise.  The values of the      *)
(* fields the iterator reads back (stream_id, stream_instance_id,          *)
(* packet_size, content_size, timestamp_begin/end, event id, event         *)
(* timestamp) are chosen from small sets when their scope completes.  All  *)
(* sizes and positions are in bits, as in the code; -1 stands for the      *)
(* code's -1 / -1ULL "unknown" and SIZE_MAX "no position".                  *)
(***************************************************************************)
EXTENDS Integers, Sequences, FiniteSets, ClockState

CONSTANTS
    HeaderBits,          \* size of the trace packet header, 0 = no header type
    HasStreamIdField,    \* packet header has a "stream_id" field
    HasInstanceIdField,  \* packet header has a "stream_instance_id" field
    CtxBits,             \* size of the stream packet context, 0 = none
    HasPacketSizeField, HasContentSizeField,
    HasTsBeginField,     \* "timestamp_begin", mapped to the clock
    HasTsEndField,       \* "timestamp_end", mapped to the clock (overridden)
    EvHeaderBits,        \* size of the stream event header, 0 = none
    HasEventIdField,     \* event header has an "id" field
    HasEvTsField,        \* event header has a timestamp mapped to the clock
    SecBits,             \* size of the stream event context, 0 = none
    StreamClassIds,      \* IDs of the trace's stream classes
    EventClassIds,       \* IDs of the stream class's event classes
    EcBits,              \* event class ID -> size of its context, 0 = none
    PayloadBits,         \* event class ID -> size of its payload, 0 = none
    StreamIdValues, InstanceIdValues, PacketSizeValues, ContentSizeValues,
    EventIdValues,       \* values the medium's bytes may encode
    TsWidth,             \* bit width of every clock-mapped integer field
    FileSizes,           \* possible lengths (bytes) of the medium
    MaxChunk,            \* largest buffer (bytes) one request_bytes returns
    MaxAgain             \* bound on AGAIN answers of the medium

ASSUME
    /\ \A b \in {HeaderBits, CtxBits, EvHeaderBits, SecBits} : b \in Nat
    /\ HeaderBits = 0 => ~HasStreamIdField /\ ~HasInstanceIdField
    /\ CtxBits = 0 => ~(HasPacketSizeField \/ HasContentSizeField
                        \/ HasTsBeginField \/ HasTsEndField)
    /\ EvHeaderBits = 0 => ~HasEventIdField /\ ~HasEvTsField
    \* asserted by set_current_stream_class / set_current_event_class
    /\ ~HasStreamIdField => Cardinality(StreamClassIds) = 1
    /\ ~HasEventIdField => Cardinality(EventClassIds) = 1
    /\ EcBits \in [EventClassIds -> Nat] /\ PayloadBits \in [EventClassIds -> Nat]
    /\ TsWidth \in 1 .. ClockBits - 1
    /\ FileSizes \subseteq Nat /\ MaxChunk \in Nat \ {0} /\ MaxAgain \in Nat

Unset == -1                      \* -1, -1ULL and SIZE_MAX of the code
NoStream == <<>>
TsValues == 0 .. (2^TsWidth - 1)

MinOf(a, b) == IF a < b THEN a ELSE b

(* enum state *)
States == {"INIT", "DSCOPE_TRACE_PACKET_HEADER_BEGIN",
           "DSCOPE_TRACE_PACKET_HEADER_CONTINUE", "AFTER_TRACE_PACKET_HEADER",
           "DSCOPE_STREAM_PACKET_CONTEXT_BEGIN",
           "DSCOPE_STREAM_PACKET_CONTEXT_CONTINUE",
           "AFTER_STREAM_PACKET_CONTEXT", "EMIT_NOTIF_NEW_STREAM",
           "EMIT_NOTIF_NEW_PACKET", "DSCOPE_STREAM_EVENT_HEADER_BEGIN",
           "DSCOPE_STREAM_EVENT_HEADER_CONTINUE", "AFTER_STREAM_EVENT_HEADER",
           "DSCOPE_STREAM_EVENT_CONTEXT_BEGIN",
           "DSCOPE_STREAM_EVENT_CONTEXT_CONTINUE",
           "DSCOPE_EVENT_CONTEXT_BEGIN", "DSCOPE_EVENT_CONTEXT_CONTINUE",
           "DSCOPE_EVENT_PAYLOAD_BEGIN", "DSCOPE_EVENT_PAYLOAD_CONTINUE",
           "EMIT_NOTIF_EVENT", "EMIT_NOTIF_END_OF_PACKET", "DONE",
           "SKIP_PACKET_PADDING"}

VARIABLES
    state,              \* notit->state
    inCall,             \* a get_next_notification call is running
    status,             \* status the last call returned
    out,                \* notifications handed to the caller, in order
    bufSz,              \* notit->buf.sz (bytes)
    bufAt,              \* notit->buf.at (bits)
    pktOff,             \* notit->buf.packet_offset (bits)
    lastEh,             \* notit->buf.last_eh_at (bits, buffer-relative)
    fileLeft,           \* bytes the medium has not returned yet
    againLeft,          \* AGAIN answers the medium may still give
    curPktSize,         \* notit->cur_packet_size
    curContentSize,     \* notit->cur_content_size
    btrLeft,            \* bits of the current dynamic scope not yet decoded
    metaSc,             \* ID of notit->meta.stream_class, Unset if NULL
    metaEc,             \* ID of notit->meta.event_class, Unset if NULL
    dec,                \* field values read back from the decoded scopes
    tsEnd,              \* value of notit->cur_timestamp_end, Unset if NULL
    clock,              \* clock state in notit->clock_states, Unset if absent
    stream,             \* notit->stream: <<stream class, instance id>>
    packet,             \* notit->packet, 0 if NULL
    prevPacket,         \* notit->prev_packet, 0 if NULL
    prevAvail,          \* notit->prev_packet_avail
    nextPacket,         \* identity of the next packet bt_packet_create makes
    streamBeginEmitted, \* notit->stream_begin_emitted
    ehPos,              \* ghost: packet-relative bit position of the last
                        \* event header of the current packet, Unset if none
    eofs                \* ghost: situations in which the iterator accepted an EOF

bufVars  == <<bufSz, bufAt, pktOff, lastEh, fileLeft, againLeft>>
decVars  == <<dec, tsEnd, clock>>
emitVars == <<out, stream, packet, prevPacket, prevAvail, nextPacket,
              streamBeginEmitted>>
pktVars  == <<curPktSize, curContentSize, metaSc, metaEc, btrLeft>>
vars == <<state, inCall, status, bufVars, decVars, emitVars, pktVars,
          ehPos, eofs>>

NoDec == [streamId |-> Unset, instId |-> Unset, pktSize |-> Unset,
          contentSize |-> Unset, evId |-> Unset]

(* A notification record; fields that do not apply are 0 / Unset.  The  *)
(* ghost field past marks an event that ends beyond the packet's content. *)
Notif(kind, s, p, prev, avail, c, named) ==
    [kind |-> kind, stream |-> s, packet |-> p, prev |-> prev,
     avail |-> avail, clock |-> c, named |-> named, past |-> FALSE]

(* buf_available_bits and packet_at *)
Avail == bufSz * 8 - bufAt
PacketAt == pktOff + bufAt

(* get_cur_stream_instance_id *)
InstanceId == IF HasInstanceIdField THEN dec.instId ELSE Unset

(* update_clock: a clock state is created at 0 on first use *)
UpdateClock(v) ==
    update_clock_state(IF clock = Unset THEN 0 ELSE clock, v, TsWidth)

(* The BTR callbacks of the fields the iterator reads back, applied when  *)
(* their scope is complete: btr_unsigned_int_cb updates the clock of a    *)
(* clock-mapped field; btr_timestamp_end_cb (the override registered for *)
(* "timestamp_end") only records the field, without a clock update.     *)
DecodedHeader ==
    /\ \E sid \in StreamIdValues, iid \in InstanceIdValues :
          dec' = [dec EXCEPT
                    !.streamId = IF HasStreamIdField THEN sid ELSE Unset,
                    !.instId   = IF HasInstanceIdField THEN iid ELSE Unset]
    /\ UNCHANGED clock

DecodedContext ==
    \E ps \in PacketSizeValues, cs \in ContentSizeValues,
       tb \in TsValues, te \in TsValues :
        /\ dec' = [dec EXCEPT
                     !.pktSize = IF HasPacketSizeField THEN ps ELSE Unset,
                     !.contentSize = IF HasContentSizeField THEN cs ELSE Unset]
        /\ clock' = IF HasTsBeginField THEN UpdateClock(tb) ELSE clock
        /\ tsEnd' = IF HasTsEndField THEN te ELSE tsEnd

DecodedEventHeader ==
    /\ \E id \in EventIdValues, ts \in TsValues :
          /\ dec' = [dec EXCEPT !.evId = IF HasEventIdField THEN id ELSE Unset]
          /\ clock' = IF HasEvTsField THEN UpdateClock(ts) ELSE clock
    /\ UNCHANGED tsEnd

Decoded(scope) ==
    CASE scope = "header" -> DecodedHeader /\ UNCHANGED tsEnd
      [] scope = "ctx"    -> DecodedContext
      [] scope = "evhdr"  -> DecodedEventHeader
      [] OTHER            -> UNCHANGED decVars

(* The call returns st to the caller. *)
Return(st) == inCall' = FALSE /\ status' = st

(* Emission of an event: the EMIT_NOTIF_EVENT case of the loop, with     *)
(* set_event_clocks.                                                     *)
NotifyEvent ==
    /\ state' = "EMIT_NOTIF_EVENT"
    /\ out' = Append(out, [Notif("event", stream, packet, 0, "", clock, NoStream)
                             EXCEPT !.past = curContentSize >= 0
                                             /\ PacketAt > curContentSize])
    /\ Return("ok")
    /\ UNCHANGED <<stream, packet, prevPacket, prevAvail, nextPacket,
                   streamBeginEmitted>>

(* Set the next state; the loop emits if it is EMIT_NOTIF_EVENT and      *)
(* goes round otherwise (the other emitting states are never reached    *)
(* through a scope read).                                                *)
Reach(s) ==
    IF s = "EMIT_NOTIF_EVENT" THEN NotifyEvent
    ELSE state' = s /\ UNCHANGED <<inCall, status, emitVars>>

(* Mutant: the bits consumed are not bounded by those available. *)
BtrConsume_unclamped(need, at, sz, off, eh) ==
    /\ bufAt' = at + need /\ bufSz' = sz /\ pktOff' = off /\ lastEh' = eh
    /\ btrLeft' = 0

(* bt_btr_start / bt_btr_continue on a buffer of sz bytes read from bit  *)
(* at, followed by buf_consume_bits.                                     *)
BtrConsume(need, at, sz, off, eh) ==
    LET c == MinOf(sz * 8 - at, need) IN
    /\ bufAt' = at + c /\ bufSz' = sz /\ pktOff' = off /\ lastEh' = eh
    /\ btrLeft' = need - c

BtrDone(need, at, sz) == sz * 8 - at >= need

(* read_dscope_begin_state; a scope whose type is absent goes to done.   *)
(* eh is last_eh_at once the state's handler has run.                     *)
read_dscope_begin_state(scope, bits, eh, done, cont) ==
    IF bits = 0
    THEN /\ Reach(done) /\ lastEh' = eh
         /\ UNCHANGED <<bufSz, bufAt, pktOff, btrLeft, decVars>>
    ELSE /\ BtrConsume(bits, bufAt, bufSz, pktOff, eh)
         /\ IF BtrDone(bits, bufAt, bufSz)
            THEN Decoded(scope) /\ Reach(done)
            ELSE UNCHANGED decVars /\ Reach(cont)

(* The BTR resumes on (at, sz) after buf_ensure_available_bits. *)
BtrResume(scope, done, at, sz, off, eh) ==
    /\ BtrConsume(btrLeft, at, sz, off, eh)
    /\ IF BtrDone(btrLeft, at, sz)
       THEN Decoded(scope) /\ Reach(done)
       ELSE UNCHANGED decVars /\ Reach(state)

(* The EOF test of request_medium_bytes. *)
GracefulEof ==
    \/ curPktSize >= 0 /\ PacketAt = curPktSize
    \/ curPktSize < 0 /\ PacketAt = 0
    \/ curPktSize < 0 /\ lastEh # Unset /\ bufAt = lastEh

ContinueStates == {"DSCOPE_TRACE_PACKET_HEADER_CONTINUE",
                   "DSCOPE_STREAM_PACKET_CONTEXT_CONTINUE",
                   "DSCOPE_STREAM_EVENT_HEADER_CONTINUE",
                   "DSCOPE_STREAM_EVENT_CONTEXT_CONTINUE",
                   "DSCOPE_EVENT_CONTEXT_CONTINUE",
                   "DSCOPE_EVENT_PAYLOAD_CONTINUE"}

(* What the iterator was in the middle of when it accepted an EOF:        *)
(* partial holds when part of a packet's header and context, or part of   *)
(* an event, has been read.                                                *)
EventStates == {"DSCOPE_STREAM_EVENT_HEADER_CONTINUE",
                "DSCOPE_STREAM_EVENT_CONTEXT_CONTINUE",
                "DSCOPE_EVENT_CONTEXT_CONTINUE", "DSCOPE_EVENT_PAYLOAD_CONTINUE"}

EofSituation ==
    [at |-> PacketAt, size |-> curPktSize, eh |-> ehPos,
     partial |-> \/ state \in EventStates /\ PacketAt # ehPos
                 \/ state \in ContinueStates \ EventStates /\ PacketAt # 0]

(* The medium answers AGAIN: request_medium_bytes returns it unchanged   *)
(* and the loop returns it to the caller.                                *)
MediumAgain ==
    /\ againLeft > 0
    /\ againLeft' = againLeft - 1
    /\ Return("again")
    /\ UNCHANGED <<state, bufSz, bufAt, pktOff, lastEh, fileLeft, decVars,
                   emitVars, btrLeft, eofs>>

(* Mutant: a graceful EOF ends the stream without ending the open packet. *)
MediumEof_no_packet_end ==
    /\ UNCHANGED <<bufVars, decVars, btrLeft>>
    /\ IF ~GracefulEof
       THEN Return("error") /\ UNCHANGED <<state, emitVars, eofs>>
       ELSE
         /\ eofs' = eofs \cup {EofSituation}
         /\ \/ /\ stream = NoStream
               /\ Return("error")
               /\ UNCHANGED <<state, emitVars>>
            \/ /\ stream # NoStream
               /\ out' = Append(out, Notif("stream_end", stream, 0, 0, "",
                                           Unset, NoStream))
               /\ state' = "DONE"
               /\ Return("ok")
               /\ UNCHANGED <<stream, packet, prevPacket, prevAvail,
                              nextPacket, streamBeginEmitted>>

(* The medium answers EOF.  request_medium_bytes turns an EOF that is     *)
(* not graceful into an error; on a graceful one the loop of              *)
(* bt_notif_iter_get_next_notification ends the current packet if there  *)
(* is one (state unchanged), and otherwise ends the stream and goes to   *)
(* DONE, which is an error when there is no stream (notify_end_of_stream *)
(* produces no notification).                                            *)
MediumEof ==
    /\ UNCHANGED <<bufVars, decVars, btrLeft>>
    /\ IF ~GracefulEof
       THEN Return("error") /\ UNCHANGED <<state, emitVars, eofs>>
       ELSE
         /\ eofs' = eofs \cup {EofSituation}
         /\ \/ /\ packet # 0
               /\ out' = Append(out, Notif("packet_end", stream, packet, 0,
                                           "", clock, NoStream))
               /\ prevPacket' = packet /\ packet' = 0
               /\ prevAvail' = "AVAILABLE"
               /\ Return("ok")
               /\ UNCHANGED <<state, stream, nextPacket, streamBeginEmitted>>
            \/ /\ packet = 0 /\ stream = NoStream
               /\ Return("error")
               /\ UNCHANGED <<state, emitVars>>
            \/ /\ packet = 0 /\ stream # NoStream
               /\ out' = Append(out, Notif("stream_end", stream, 0, 0, "",
                                           Unset, NoStream))
               /\ state' = "DONE"
               /\ Return("ok")
               /\ UNCHANGED <<stream, packet, prevPacket, prevAvail,
                              nextPacket, streamBeginEmitted>>

(* read_dscope_continue_state: buf_ensure_available_bits requests bytes *)
(* only when none are left; request_medium_bytes rebases the buffer     *)
(* (packet_offset += old size, at = 0, last_eh_at = SIZE_MAX).          *)
read_dscope_continue_state(scope, done) ==
    /\ UNCHANGED <<curPktSize, curContentSize, metaSc, metaEc, ehPos>>
    /\ \/ /\ Avail > 0
          /\ BtrResume(scope, done, bufAt, bufSz, pktOff, lastEh)
          /\ UNCHANGED <<fileLeft, againLeft, eofs>>
       \/ /\ Avail = 0 /\ fileLeft > 0
          /\ \E n \in 1 .. MinOf(MaxChunk, fileLeft) :
                /\ fileLeft' = fileLeft - n
                /\ BtrResume(scope, done, 0, n, pktOff + bufSz * 8, Unset)
          /\ UNCHANGED <<againLeft, eofs>>
       \/ Avail = 0 /\ MediumAgain
       \/ Avail = 0 /\ fileLeft = 0 /\ MediumEof

-----------------------------------------------------------------------------
(* One action per case of handle_state. *)

HandleInit ==
    /\ inCall /\ state = "INIT"
    /\ state' = "DSCOPE_TRACE_PACKET_HEADER_BEGIN"
    /\ UNCHANGED <<inCall, status, bufVars, decVars, emitVars, pktVars,
                   ehPos, eofs>>

(* read_packet_header_begin_state, which first calls                    *)
(* bt_notif_iter_switch_packet.                                          *)
read_packet_header_begin_state ==
    /\ inCall /\ state = "DSCOPE_TRACE_PACKET_HEADER_BEGIN"
    /\ metaEc' = Unset /\ packet' = 0
    /\ UNCHANGED <<out, stream, prevPacket, prevAvail, nextPacket,
                   streamBeginEmitted, metaSc, fileLeft, againLeft, eofs>>
    /\ IF bufAt % 8 # 0
       THEN /\ Return("error") /\ tsEnd' = Unset
            /\ UNCHANGED <<state, bufSz, bufAt, pktOff, lastEh, curPktSize,
                           curContentSize, btrLeft, dec, clock, ehPos>>
       ELSE /\ curPktSize' = Unset /\ curContentSize' = Unset
            /\ ehPos' = Unset
            /\ LET sz == bufSz - bufAt \div 8 IN
               IF HeaderBits = 0
               THEN /\ state' = "AFTER_TRACE_PACKET_HEADER"
                    /\ bufSz' = sz /\ bufAt' = 0 /\ pktOff' = 0
                    /\ tsEnd' = Unset
                    /\ UNCHANGED <<inCall, status, lastEh, btrLeft, dec, clock>>
               ELSE /\ BtrConsume(HeaderBits, 0, sz, 0, lastEh)
                    /\ UNCHANGED <<inCall, status>>
                    /\ IF BtrDone(HeaderBits, 0, sz)
                       THEN /\ DecodedHeader /\ tsEnd' = Unset
                            /\ state' = "AFTER_TRACE_PACKET_HEADER"
                       ELSE /\ tsEnd' = Unset /\ UNCHANGED <<dec, clock>>
                            /\ state' = "DSCOPE_TRACE_PACKET_HEADER_CONTINUE"

read_packet_header_continue_state ==
    /\ inCall /\ state = "DSCOPE_TRACE_PACKET_HEADER_CONTINUE"
    /\ read_dscope_continue_state("header", "AFTER_TRACE_PACKET_HEADER")

(* Variables a dynamic-scope begin state leaves alone. *)
beginFrame == <<fileLeft, againLeft, curPktSize, curContentSize, metaSc,
                metaEc, ehPos, eofs>>

(* Mutant: no check against the stream class of the previous packets. *)
set_current_stream_class_any(sid) == sid \in StreamClassIds

(* set_current_stream_class: the stream class ID (the "stream_id" field, *)
(* 0 without one) must name a stream class of the trace and, once a      *)
(* packet has set one, the same class.                                    *)
set_current_stream_class(sid) ==
    /\ sid \in StreamClassIds
    /\ metaSc = Unset \/ metaSc = sid

after_packet_header_state ==
    /\ inCall /\ state = "AFTER_TRACE_PACKET_HEADER"
    /\ LET sid == IF HasStreamIdField THEN dec.streamId ELSE 0 IN
       IF ~set_current_stream_class(sid)
       THEN Return("error") /\ UNCHANGED <<state, metaSc>>
       ELSE /\ metaSc' = sid
            /\ state' = "DSCOPE_STREAM_PACKET_CONTEXT_BEGIN"
            /\ UNCHANGED <<inCall, status>>
    /\ UNCHANGED <<bufVars, decVars, emitVars, curPktSize, curContentSize,
                   metaEc, btrLeft, ehPos, eofs>>

read_packet_context_begin_state ==
    /\ inCall /\ state = "DSCOPE_STREAM_PACKET_CONTEXT_BEGIN"
    /\ read_dscope_begin_state("ctx", CtxBits, lastEh, "AFTER_STREAM_PACKET_CONTEXT",
                       "DSCOPE_STREAM_PACKET_CONTEXT_CONTINUE")
    /\ UNCHANGED beginFrame

read_packet_context_continue_state ==
    /\ inCall /\ state = "DSCOPE_STREAM_PACKET_CONTEXT_CONTINUE"
    /\ read_dscope_continue_state("ctx", "AFTER_STREAM_PACKET_CONTEXT")

(* set_current_stream: borrow_stream returns the stream of the current    *)
(* stream class and instance ID; a stream other than the one already set *)
(* is an error.                                                           *)
set_current_stream(s) == stream = NoStream \/ s = stream

(* notify_new_stream, then stream_begin_emitted = true in the loop. *)
NotifyNewStream ==
    LET s == <<metaSc, InstanceId>> IN
    /\ state' = "EMIT_NOTIF_NEW_STREAM"
    /\ streamBeginEmitted' = TRUE
    /\ IF ~set_current_stream(s)
       THEN Return("error") /\ UNCHANGED <<out, stream>>
       ELSE /\ stream' = s
            /\ out' = Append(out, Notif("stream_begin", s, 0, 0, "", Unset,
                                        NoStream))
            /\ Return("ok")
    /\ UNCHANGED <<packet, prevPacket, prevAvail, nextPacket>>

(* set_current_packet: bt_packet_create on notit->stream with the         *)
(* previous-packet availability and reference, moved into notit->packet. *)
set_current_packet ==
    /\ packet' = nextPacket /\ nextPacket' = nextPacket + 1

(* notify_new_packet: the packet notification of the new packet. *)
NotifyNewPacket ==
    /\ state' = "EMIT_NOTIF_NEW_PACKET"
    /\ set_current_packet
    /\ out' = Append(out, Notif("packet_begin", stream, nextPacket, prevPacket,
                                prevAvail, clock, <<metaSc, InstanceId>>))
    /\ Return("ok")
    /\ UNCHANGED <<stream, prevPacket, prevAvail, streamBeginEmitted>>

(* content_size > packet_size on uint64_t, where -1ULL is the largest. *)
U64Gt(a, b) == IF b = Unset THEN FALSE ELSE a = Unset \/ a > b

(* set_current_packet_content_sizes: without a packet context nothing is *)
(* set; a packet_size of 0 or not a multiple of 8, or a content_size      *)
(* above it, is an error; the content size defaults to the packet size   *)
(* and the packet size to the content size.                               *)
ContentSizes ==
    LET ps == dec.pktSize
        cs == IF HasContentSizeField THEN dec.contentSize ELSE ps
    IN [valid |-> ~(CtxBits > 0 /\ (\/ HasPacketSizeField /\ (ps = 0 \/ ps % 8 # 0)
                                    \/ U64Gt(cs, ps))),
        pkt |-> IF CtxBits = 0 THEN curPktSize ELSE IF ps # Unset THEN ps ELSE cs,
        content |-> IF CtxBits = 0 THEN curContentSize ELSE cs]

set_current_packet_content_sizes ==
    curPktSize' = ContentSizes.pkt /\ curContentSize' = ContentSizes.content

(* after_packet_context_state, then the EMIT_NOTIF_NEW_STREAM /          *)
(* EMIT_NOTIF_NEW_PACKET case of the loop.                                *)
after_packet_context_state ==
    /\ inCall /\ state = "AFTER_STREAM_PACKET_CONTEXT"
    /\ UNCHANGED <<bufVars, decVars, metaSc, metaEc, btrLeft, ehPos, eofs>>
    /\ IF ~ContentSizes.valid
       THEN /\ Return("error")
            /\ UNCHANGED <<state, emitVars, curPktSize, curContentSize>>
       ELSE /\ set_current_packet_content_sizes
            /\ IF streamBeginEmitted THEN NotifyNewPacket ELSE NotifyNewStream

(* EMIT_NOTIF_NEW_STREAM -> EMIT_NOTIF_NEW_PACKET, which emits. *)
HandleEmitNewStream ==
    /\ inCall /\ state = "EMIT_NOTIF_NEW_STREAM"
    /\ NotifyNewPacket
    /\ UNCHANGED <<bufVars, decVars, pktVars, ehPos, eofs>>

(* The states the loop only passes through. *)
HandleEmitNewPacket ==
    /\ inCall /\ state = "EMIT_NOTIF_NEW_PACKET"
    /\ state' = "DSCOPE_STREAM_EVENT_HEADER_BEGIN"
    /\ UNCHANGED <<inCall, status, bufVars, decVars, emitVars, pktVars,
                   ehPos, eofs>>

HandleEmitEvent ==
    /\ inCall /\ state = "EMIT_NOTIF_EVENT"
    /\ state' = "DSCOPE_STREAM_EVENT_HEADER_BEGIN"
    /\ UNCHANGED <<inCall, status, bufVars, decVars, emitVars, pktVars,
                   ehPos, eofs>>

HandleEmitEndOfPacket ==
    /\ inCall /\ state = "EMIT_NOTIF_END_OF_PACKET"
    /\ state' = "SKIP_PACKET_PADDING"
    /\ UNCHANGED <<inCall, status, bufVars, decVars, emitVars, pktVars,
                   ehPos, eofs>>

(* Mutant: the ended packet is not moved into prev_packet. *)
NotifyEndOfPacket_no_move ==
    /\ state' = "EMIT_NOTIF_END_OF_PACKET"
    /\ clock' = IF tsEnd # Unset THEN UpdateClock(tsEnd) ELSE clock
    /\ IF packet = 0
       THEN Return("error") /\ UNCHANGED <<out, packet, prevPacket, prevAvail>>
       ELSE /\ out' = Append(out, Notif("packet_end", stream, packet, 0, "",
                                        clock', NoStream))
            /\ packet' = 0
            /\ prevAvail' = "AVAILABLE"
            /\ Return("ok")
            /\ UNCHANGED prevPacket
    /\ UNCHANGED <<stream, nextPacket, streamBeginEmitted>>

(* notify_end_of_packet in the EMIT_NOTIF_END_OF_PACKET case of the loop, *)
(* after the deferred timestamp_end clock update.                          *)
NotifyEndOfPacket ==
    /\ state' = "EMIT_NOTIF_END_OF_PACKET"
    /\ clock' = IF tsEnd # Unset THEN UpdateClock(tsEnd) ELSE clock
    /\ IF packet = 0
       THEN Return("error") /\ UNCHANGED <<out, packet, prevPacket, prevAvail>>
       ELSE /\ out' = Append(out, Notif("packet_end", stream, packet, 0, "",
                                        clock', NoStream))
            /\ prevPacket' = packet /\ packet' = 0
            /\ prevAvail' = "AVAILABLE"
            /\ Return("ok")
    /\ UNCHANGED <<stream, nextPacket, streamBeginEmitted>>

(* Mutant: the end of the content is taken to be reached once the cursor *)
(* is at or past it.                                                      *)
ContentEnded_at_or_past == curContentSize >= 0 /\ PacketAt >= curContentSize

(* The cursor is at the end of a known content size: no more events. *)
ContentEnded ==
    curContentSize >= 0 /\ PacketAt = curContentSize

(* The cursor has passed a known content size: an error. *)
ContentOverrun == curContentSize >= 0 /\ PacketAt > curContentSize

(* read_event_header_begin_state: last_eh_at is set first, then the end  *)
(* of the packet's content is checked.                                    *)
read_event_header_begin_state ==
    /\ inCall /\ state = "DSCOPE_STREAM_EVENT_HEADER_BEGIN"
    /\ UNCHANGED <<fileLeft, againLeft, curPktSize, curContentSize, metaSc,
                   metaEc, eofs>>
    /\ \/ /\ ContentEnded
          /\ lastEh' = bufAt
          /\ NotifyEndOfPacket
          /\ UNCHANGED <<bufSz, bufAt, pktOff, btrLeft, dec, tsEnd, ehPos>>
       \/ /\ ContentOverrun
          /\ lastEh' = bufAt
          /\ Return("error")
          /\ UNCHANGED <<state, bufSz, bufAt, pktOff, btrLeft, decVars,
                         emitVars, ehPos>>
       \/ /\ curContentSize < 0 \/ PacketAt < curContentSize
          /\ ehPos' = PacketAt
          /\ read_dscope_begin_state("evhdr", EvHeaderBits, bufAt,
                "AFTER_STREAM_EVENT_HEADER",
                "DSCOPE_STREAM_EVENT_HEADER_CONTINUE")

read_event_header_continue_state ==
    /\ inCall /\ state = "DSCOPE_STREAM_EVENT_HEADER_CONTINUE"
    /\ read_dscope_continue_state("evhdr", "AFTER_STREAM_EVENT_HEADER")

(* set_current_event_class: the "id" field, or 0 without one, must name  *)
(* an event class of the stream class.                                   *)
set_current_event_class(eid) == eid \in EventClassIds

(* after_event_header_state: set_current_event_class, then               *)
(* set_current_event_notification, which cannot fail but on allocation.  *)
after_event_header_state ==
    /\ inCall /\ state = "AFTER_STREAM_EVENT_HEADER"
    /\ LET eid == IF HasEventIdField THEN dec.evId ELSE 0 IN
       IF ~set_current_event_class(eid)
       THEN Return("error") /\ metaEc' = Unset /\ UNCHANGED state
       ELSE /\ metaEc' = eid
            /\ state' = "DSCOPE_STREAM_EVENT_CONTEXT_BEGIN"
            /\ UNCHANGED <<inCall, status>>
    /\ UNCHANGED <<bufVars, decVars, emitVars, curPktSize, curContentSize,
                   metaSc, btrLeft, ehPos, eofs>>

read_stream_event_context_begin_state ==
    /\ inCall /\ state = "DSCOPE_STREAM_EVENT_CONTEXT_BEGIN"
    /\ read_dscope_begin_state("sec", SecBits, lastEh,
          "DSCOPE_EVENT_CONTEXT_BEGIN", "DSCOPE_STREAM_EVENT_CONTEXT_CONTINUE")
    /\ UNCHANGED beginFrame

read_stream_event_context_continue_state ==
    /\ inCall /\ state = "DSCOPE_STREAM_EVENT_CONTEXT_CONTINUE"
    /\ read_dscope_continue_state("sec", "DSCOPE_EVENT_CONTEXT_BEGIN")

read_event_context_begin_state ==
    /\ inCall /\ state = "DSCOPE_EVENT_CONTEXT_BEGIN"
    /\ read_dscope_begin_state("ec", EcBits[metaEc], lastEh,
          "DSCOPE_EVENT_PAYLOAD_BEGIN", "DSCOPE_EVENT_CONTEXT_CONTINUE")
    /\ UNCHANGED beginFrame

read_event_context_continue_state ==
    /\ inCall /\ state = "DSCOPE_EVENT_CONTEXT_CONTINUE"
    /\ read_dscope_continue_state("ec", "DSCOPE_EVENT_PAYLOAD_BEGIN")

read_event_payload_begin_state ==
    /\ inCall /\ state = "DSCOPE_EVENT_PAYLOAD_BEGIN"
    /\ read_dscope_begin_state("payload", PayloadBits[metaEc], lastEh,
          "EMIT_NOTIF_EVENT", "DSCOPE_EVENT_PAYLOAD_CONTINUE")
    /\ UNCHANGED beginFrame

read_event_payload_continue_state ==
    /\ inCall /\ state = "DSCOPE_EVENT_PAYLOAD_CONTINUE"
    /\ read_dscope_continue_state("payload", "EMIT_NOTIF_EVENT")

(* Skip toSkip bits of padding from a buffer of sz bytes read from at. *)
SkipIn(at, sz, off, eh, toSkip) ==
    LET c == MinOf(sz * 8 - at, toSkip) IN
    /\ bufAt' = at + c /\ bufSz' = sz /\ pktOff' = off /\ lastEh' = eh
    /\ state' = IF c = toSkip THEN "DSCOPE_TRACE_PACKET_HEADER_BEGIN" ELSE state
    /\ UNCHANGED <<inCall, status, emitVars>>

(* Mutant: with no padding left the state does not move on. *)
skip_packet_padding_state_stuck ==
    /\ inCall /\ state = "SKIP_PACKET_PADDING"
    /\ UNCHANGED <<decVars, pktVars, ehPos>>
    /\ LET toSkip == curPktSize - PacketAt IN
       \/ /\ toSkip = 0
          /\ UNCHANGED <<state, inCall, status, bufVars, emitVars, eofs>>
       \/ /\ toSkip # 0 /\ Avail > 0
          /\ SkipIn(bufAt, bufSz, pktOff, lastEh, toSkip)
          /\ UNCHANGED <<fileLeft, againLeft, eofs>>
       \/ /\ toSkip # 0 /\ Avail = 0 /\ fileLeft > 0
          /\ \E n \in 1 .. MinOf(MaxChunk, fileLeft) :
                /\ fileLeft' = fileLeft - n
                /\ SkipIn(0, n, pktOff + bufSz * 8, Unset, toSkip)
          /\ UNCHANGED <<againLeft, eofs>>
       \/ toSkip # 0 /\ Avail = 0 /\ MediumAgain
       \/ toSkip # 0 /\ Avail = 0 /\ fileLeft = 0 /\ MediumEof

skip_packet_padding_state ==
    /\ inCall /\ state = "SKIP_PACKET_PADDING"
    /\ UNCHANGED <<decVars, pktVars, ehPos>>
    /\ LET toSkip == curPktSize - PacketAt IN
       \/ /\ toSkip = 0
          /\ state' = "DSCOPE_TRACE_PACKET_HEADER_BEGIN"
          /\ UNCHANGED <<inCall, status, bufVars, emitVars, eofs>>
       \/ /\ toSkip # 0 /\ Avail > 0
          /\ SkipIn(bufAt, bufSz, pktOff, lastEh, toSkip)
          /\ UNCHANGED <<fileLeft, againLeft, eofs>>
       \/ /\ toSkip # 0 /\ Avail = 0 /\ fileLeft > 0
          /\ \E n \in 1 .. MinOf(MaxChunk, fileLeft) :
                /\ fileLeft' = fileLeft - n
                /\ SkipIn(0, n, pktOff + bufSz * 8, Unset, toSkip)
          /\ UNCHANGED <<againLeft, eofs>>
       \/ toSkip # 0 /\ Avail = 0 /\ MediumAgain
       \/ toSkip # 0 /\ Avail = 0 /\ fileLeft = 0 /\ MediumEof

-----------------------------------------------------------------------------
(* Mutant: in DONE the call returns OK with no notification. *)
bt_notif_iter_get_next_notification_done_ok ==
    /\ ~inCall /\ status \notin {"eof", "error"}
    /\ IF state = "DONE" THEN Return("ok")
       ELSE inCall' = TRUE /\ UNCHANGED status
    /\ UNCHANGED <<state, bufVars, decVars, emitVars, pktVars, ehPos, eofs>>

(* The caller: bt_notif_iter_get_next_notification is entered; in DONE it *)
(* returns EOF at once.  A caller stops after an error or the end.        *)
bt_notif_iter_get_next_notification ==
    /\ ~inCall /\ status \notin {"eof", "error"}
    /\ IF state = "DONE" THEN Return("eof")
       ELSE inCall' = TRUE /\ UNCHANGED status
    /\ UNCHANGED <<state, bufVars, decVars, emitVars, pktVars, ehPos, eofs>>

(* The caller has stopped. *)
Stopped ==
    /\ ~inCall /\ status \in {"eof", "error"}
    /\ UNCHANGED vars

(* bt_notif_iter_create followed by bt_notif_iter_reset *)
Init ==
    /\ state = "INIT" /\ inCall = FALSE /\ status = "none" /\ out = <<>>
    /\ bufSz = 0 /\ bufAt = 0 /\ pktOff = 0 /\ lastEh = Unset
    /\ fileLeft \in FileSizes /\ againLeft = MaxAgain
    /\ curPktSize = Unset /\ curContentSize = Unset /\ btrLeft = 0
    /\ metaSc = Unset /\ metaEc = Unset
    /\ dec = NoDec /\ tsEnd = Unset /\ clock = Unset
    /\ stream = NoStream /\ packet = 0 /\ prevPacket = 0
    /\ prevAvail = "NONE" /\ nextPacket = 1 /\ streamBeginEmitted = FALSE
    /\ ehPos = Unset /\ eofs = {}

(* One iteration of the loop of bt_notif_iter_get_next_notification. *)
Step ==
    \/ HandleInit
    \/ read_packet_header_begin_state
    \/ read_packet_header_continue_state
    \/ after_packet_header_state
    \/ read_packet_context_begin_state
    \/ read_packet_context_continue_state
    \/ after_packet_context_state
    \/ HandleEmitNewStream
    \/ HandleEmitNewPacket
    \/ read_event_header_begin_state
    \/ read_event_header_continue_state
    \/ after_event_header_state
    \/ read_stream_event_context_begin_state
    \/ read_stream_event_context_continue_state
    \/ read_event_context_begin_state
    \/ read_event_context_continue_state
    \/ read_event_payload_begin_state
    \/ read_event_payload_continue_state
    \/ HandleEmitEvent
    \/ HandleEmitEndOfPacket
    \/ skip_packet_padding_state

Next == bt_notif_iter_get_next_notification \/ Step \/ Stopped

(* The loop runs without waiting on anything but the medium, and the     *)
(* caller (the source's next method, driven by the graph) keeps calling   *)
(* until it gets the end or an error.                                     *)
Spec == Init /\ [][Next]_vars
             /\ WF_vars(Step) /\ WF_vars(bt_notif_iter_get_next_notification)

-----------------------------------------------------------------------------
(* Properties *)

Kinds == {"stream_begin", "packet_begin", "event", "packet_end", "stream_end"}

TypeOK ==
    /\ state \in States /\ inCall \in BOOLEAN
    /\ status \in {"none", "ok", "again", "eof", "error"}
    /\ \A i \in 1 .. Len(out) : out[i].kind \in Kinds
    /\ bufSz \in Nat /\ bufAt \in 0 .. bufSz * 8 /\ pktOff \in Nat
    /\ lastEh \in Nat \cup {Unset} /\ fileLeft \in Nat /\ againLeft \in Nat
    /\ curPktSize \in Nat \cup {Unset} /\ curContentSize \in Nat \cup {Unset}
    /\ btrLeft \in Nat
    /\ metaSc \in StreamClassIds \cup {Unset}
    /\ metaEc \in EventClassIds \cup {Unset}
    /\ clock \in Nat \cup {Unset} /\ tsEnd \in TsValues \cup {Unset}
    /\ packet \in Nat /\ prevPacket \in Nat /\ nextPacket \in Nat \ {0}
    /\ prevAvail \in {"NONE", "AVAILABLE"}
    /\ streamBeginEmitted \in BOOLEAN

(* Each packet is created with the packet the caller last saw end as its  *)
(* previous packet, available; the first one with none.  This is what     *)
(* notify_end_of_packet (BT_MOVE into prev_packet) and set_current_packet *)
(* must keep in step, on the EOF path as on the content-size path.        *)
PreviousPacketChain ==
    \A i \in 2 .. Len(out) :
        out[i].kind = "packet_begin" =>
            IF out[i - 1].kind = "packet_end"
            THEN out[i].prev = out[i - 1].packet /\ out[i].avail = "AVAILABLE"
            ELSE out[i].prev = 0 /\ out[i].avail = "NONE"

(* The caller's view of the notifications: kinds and packets, and the    *)
(* status returned once the iterator has stopped.                         *)
AbstractNotifs(s) ==
    [k \in 1 .. Len(s) |-> [kind |-> s[k].kind, packet |-> s[k].packet]]

Stream == INSTANCE NotificationStream
              WITH delivered <- AbstractNotifs(out),
                   outcome <- CASE status = "eof" -> "end"
                                [] status = "error" -> "error"
                                [] OTHER -> "running"

(* bt_notif_iter_get_next_notification implements the notification       *)
(* iterator contract: each notification extends a well-formed stream of  *)
(* fresh packets, the end is reported only after the stream end, and an  *)
(* error ends the iteration.                                              *)
ImplementsNotificationStream == Stream!Spec

(* Every packet the iterator delivers names the same stream class: a     *)
(* packet whose stream_id selects another class is a decoding error       *)
(* (set_current_stream_class), never a second stream class.               *)
SingleStreamClass ==
    \A i, j \in 1 .. Len(out) :
        out[i].kind = "packet_begin" /\ out[j].kind = "packet_begin"
            => out[i].named[1] = out[j].named[1]

(* The clock values the caller sees (at packet beginnings, events and     *)
(* packet ends) never go backwards, through timestamp_begin, event        *)
(* timestamps with wrap detection (update_clock_state) and the deferred   *)
(* timestamp_end update at the end of a packet.                           *)
ClockMonotonic ==
    \A i, j \in 1 .. Len(out) :
        i < j /\ out[i].clock # Unset /\ out[j].clock # Unset
            => out[i].clock <= out[j].clock

(* Every call of bt_notif_iter_get_next_notification returns: the loop    *)
(* cannot go round forever without emitting or consuming bytes.          *)
CallReturns == inCall ~> ~inCall

(* A caller that keeps calling reaches the end or an error. *)
EventuallyStops == <>[](~inCall /\ status \in {"eof", "error"})

(* The end of the medium is handled as the spec says.  S1: an empty       *)
(* medium yields no notification and the end status, not an error.  4.4.4 *)
(* and 7: an EOF is a clean end only at the end of a packet of known      *)
(* size, before anything of a packet of unknown size, or where an event   *)
(* header of the current packet of unknown size begins, and never once    *)
(* part of an event, or of a packet's header and context, has been read   *)
(* (the test request_medium_bytes is meant to implement).                 *)
MediumEndAsSpecified ==
    /\ (out = <<>> /\ bufSz = 0 /\ pktOff = 0) => status # "error"
    /\ \A e \in eofs : /\ \/ e.size >= 0 /\ e.at = e.size
                          \/ e.size < 0 /\ (e.at = 0 \/ e.at = e.eh)
                       /\ ~e.partial

(* An event that runs past its packet's content size is emitted (the    *)
(* code finds the overrun only at the next event header), but the packet *)
(* is then never ended as if it were whole: read_event_header_begin_state *)
(* reports the overrun as an error before any packet end.                 *)
OverrunNeverEndsPacket ==
    \A i \in 1 .. Len(out) :
        out[i].past => \A j \in i + 1 .. Len(out) : out[j].kind # "packet_end"

(* Spec 4.4.2: a packet belongs to the stream that borrow_stream returns *)
(* for its own stream class and stream_instance_id.                       *)
PacketOfNamedStream ==
    \A i \in 1 .. Len(out) :
        out[i].kind = "packet_begin" => out[i].stream = out[i].named

(* What the decoder hands its caller is what the medium holds: the medium  *)
(* ends as spec S1, 4.4.4 and 7 say, and every packet is put in the stream *)
(* its header names (4.4.2).                                                *)
DecodesAsSpecified == MediumEndAsSpecified /\ PacketOfNamedStream
====
