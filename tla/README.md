# TLA+ models of babeltrace's CTF decoder, utils filters and metadata passes

These modules model the parts of the repository under `src/` whose
behaviour depends on the order of steps: the CTF notification iterator, the
`utils.fake` source, the `utils.noop` and `utils.trimmer` filters, and the
metadata pass that assigns stored-value indexes.
They are checked with TLC. Every definition that models code is listed in
`PROJECT.json` ("map") with the lines it translates.

## 1. The system

The CTF reader has three parts:

- A **metadata** layer describes field types. The metadata arrives in
  chunks. After each chunk, passes run over the classes not yet translated
  to the trace IR:
  - `ctf-meta-update-in-ir.c` decides which field types go to the IR;
  - `ctf-meta-update-value-storing-indexes.c` gives the integers that
    variants and sequences depend on a slot to store their value in.
- A **notification iterator** (`notif-iter.c`) decodes packets from a
  medium. The medium is a callback object (`request_bytes`) that answers OK
  with a chunk of bytes, AGAIN, or EOF. The iterator turns the packets into
  notifications: stream begin, packet begin, event, packet end and stream
  end.
- A **source component** hands those notifications to the graph.

The `utils` plugin has three components:

- `fake` is a source that synthesises a stream.
- `noop` is a filter that passes on what it reads from its input port.
- `trimmer` is a filter that parses a begin and an end bound from its
  parameters (`YYYY-MM-DD hh:mm:ss.ns`, `hh:mm:ss.ns`, `[-]s.ns` or an
  integer of seconds). A time of day is dated by the first upstream message
  with a default clock snapshot.

The library files (`lib/...`) create packets, streams, event classes and
clock classes, and count references to them.

How the parts interact:

- The graph calls a source's `next` method. The CTF source then calls
  `bt_notif_iter_get_next_notification`.
- The iterator pulls bytes from the medium. It reads back the fields it
  needs (`stream_id`, `stream_instance_id`, `packet_size`, `content_size`,
  `timestamp_begin`/`timestamp_end`, event `id` and timestamp) through the
  binary type reader (BTR) callbacks.
- It keeps one clock state per clock class and updates it from every
  clock-mapped integer.

### Where ordering matters

- The iterator is a **resumable** state machine. AGAIN and EOF can arrive at
  any byte, and a call must resume exactly where the previous one stopped.
  Buffer positions are rebased on every new chunk and again on every packet
  switch.
- The end of the medium is accepted only at certain positions, and the
  iterator must then end the open packet before the stream.
- Narrow clock fields wrap, and the wrap is inferred.
- The trimmer reads upstream batches until one message has a time, and must
  put every message reference it holds on every path out of that loop.
- The fake source delivers notifications in batches that end wherever the
  caller's capacity runs out.

## 2. Modules

| Module | Models | Source |
|---|---|---|
| `NotificationStream` | Abstract: what any notification iterator promises its caller. Each call extends a prefix of `(stream-begin (packet-begin event* packet-end)* stream-end)+`, events belong to the open packet, and every packet is new. End comes only after the stream end, and an error may come at any time. | spec §5, §8.3 |
| `NotifIter` | The CTF notification iterator: one action per `handle_state` case, plus the caller. | `notif-iter.c` |
| `ClockState` | `update_clock_state` on a `ClockBits`-wide register. | `notif-iter.c` 2138–2188 |
| `ClockUpdate` | One clock class sampled by fields of several widths. | `notif-iter.c` `update_clock` |
| `FakeSource` | `do_next`, `switch_packet` and the batching loop of `fake_notif_iter_next`. | `fake.c` |
| `PacketNotif` | Packet beginning and end notifications: creation from the graph's pool (`bt_notification_packet_*_create`, with `bt_get` on the packet), `*_recycle` (back to the pool, or `*_destroy` when `notif->graph` is NULL), and the graph's destruction clearing every notification's graph pointer. `bt_notification_create_from_pool` is spec-modelled (§4.1). | `packet.c`, `graph-internal.h` |
| `FakeGraph` | `FakeSource` in a graph, composed with `PacketNotif`: the packet references `switch_packet` takes and moves, the notifications `do_next` creates, the sink putting what it received, `destroy_fake_notif_iter`, and the graph's destruction. | `fake.c` |
| `NoopFilter` | `noop_port_connected` and `noop_notif_iter_next` for several filter instances sharing the file-scope `g_iter`, over abstract upstream sources. | `noop.c` |
| `NoopOverFake` | One noop filter composed with `FakeSource`: `noop_port_connected` stores the input connection's iterator in `g_iter`, and the filter's call runs the fake source's batching loop on it and copies its batch. | `noop.c`, `fake.c` |
| `Trimmer` | Parameter parsing into bounds (`set_bound_from_str`, `set_bound_from_param`, `init_trimmer_comp_from_params`), `get_msg_ns_from_origin`, `set_trimmer_iterator_bound(s)`, `put_messages` and `trimmer_msg_iter_next`, over an upstream sequence of messages. | `trimmer.c` |
| `TrimmerLifecycle` | `trimmer_init`, `trimmer_msg_iter_init`, the iterator's `next` and `finalize`, and `trimmer_finalize`, with every allocation and port addition that can fail. | `trimmer.c` |
| `MCTrimmer` | Parameter sets and upstream sequences for TLC. | — |
| `UpdateInIr` | `ctf_trace_class_update_in_ir`: `update_field_type_in_ir` (a RECURSIVE operator threading the `in_ir` flags through the tree), the walks over stream and event classes with their `is_translated` tests, run after each metadata chunk and followed by the translation. | `ctf-meta-update-in-ir.c` |
| `StoringIndexes` | `update_field_type_stored_value_index` (a RECURSIVE operator over a field-type tree) and the walk of `ctf_trace_class_update_saving_indexes`. | `ctf-meta-update-value-storing-indexes.c` |
| `MCNotifIter`, `MCStoringIndexes`, `MCNoopFilter`, `MCUpdateInIr` | Give TLC the function-valued constants (event class sizes, the field-type tree). | — |

### NotifIter: how it corresponds to the code

**One TLA+ step is one iteration of the `while (true)` loop** of
`bt_notif_iter_get_next_notification`: `handle_state` for the current state,
then the emission `switch` that follows it. So:

- A handler that reaches `EMIT_NOTIF_EVENT` also emits the event
  (`NotifyEvent`, with `set_event_clocks`).
- `after_packet_context_state` emits the stream begin or the packet begin
  (`NotifyNewStream` / `NotifyNewPacket`).
- `read_event_header_begin_state` at the content end emits the packet end
  (`NotifyEndOfPacket`, after the deferred `timestamp_end` clock update).

The caller action `bt_notif_iter_get_next_notification` enters a call
(`inCall`). In `DONE` it returns EOF. `Return(st)` ends the call with the
status the loop returns.

**State.**

- Variables are the fields of `struct bt_notif_iter` the control flow
  reads: `state`, `buf.sz/at/packet_offset/last_eh_at`, `cur_packet_size`,
  `cur_content_size`, `meta.stream_class/event_class`,
  `cur_timestamp_end`, the clock state, `stream`, `packet`, `prev_packet`,
  `prev_packet_avail` and `stream_begin_emitted`.
- Packets are numbered in creation order, and a stream is named by its
  class and instance ID.
- `out` is the sequence of notifications returned.
- Two ghost variables serve properties only:
  - `ehPos` is the packet position of the current event header;
  - `eofs` records where an EOF was accepted.

**Data abstraction.**

- The BTR is abstracted to the number of bits of each dynamic scope:
  - `BtrConsume` consumes `min(available, remaining)` bits;
  - a scope completes when all its bits are in the buffer, and the values
    of its fields are then chosen from small sets (`Decoded*`);
  - the field values feed the same decisions as in the code.
- The medium is a file of `FileSizes` bytes. It answers with chunks of 1 to
  `MaxChunk` bytes, at most `MaxAgain` AGAINs, and EOF once empty.
- `request_medium_bytes` is modelled inside `read_dscope_continue_state` and
  `skip_packet_padding_state`, as in the code, where
  `buf_ensure_available_bits` calls it only when no bit is left.
- Its OK branch rebases the buffer. The EOF test is `GracefulEof`, and the
  handling of a graceful EOF by the loop is `MediumEof`.

**Errors.** Every `goto end` with an error status in a modelled function is
an error return, including:

- a stream class ID that is unknown or differs from the first packet's;
- a bad `packet_size` or `content_size`;
- a position past the content;
- an unknown event class ID;
- a non-byte-aligned packet switch.

A caller stops after an error or EOF (`Stopped`).

### FakeSource

One step is one `do_next` call of the batching loop. The batch is handed
over when the call returns (`ReturnBatch`).

- `event_count` is chosen from `EventCounts`. `handle_params` asserts
  `count > 0`.
- The literal 5000 is the constant `PacketEvents`.
- The capacity of each call is chosen from `Capacities`, all positive. The
  code's `BT_ASSERT(i > 0)` holds because a call starts only before `DONE`.

### FakeGraph

`refs[p]` counts the references on packet `p`. `EmitPacketBeginning`
applies all of `switch_packet` and the notification's creation in one step:

- `BT_MOVE` puts the old `prev_packet`;
- `bt_packet_create` gives the new packet one reference;
- the notification's `bt_get` adds another.

Notification objects are `Kinds × Objs`. When every object of a kind is
live, creation waits until the sink puts one; this stands in for memory,
which is never exhausted in the model. `destroy_fake_notif_iter` runs
between calls, at any time, as the graph may finalize an iterator whenever
its connection ends. `GraphDestroy` needs the iterator gone first.

### Trimmer

Time is scaled: `NsPerS` = 2 ns per second, `SecPerDay` = 4 seconds per
day, `TzOffset` = 1 (local time minus UTC), and `UIntMod` = 8 stands for
2^32, the range of the `unsigned int` that `sscanf %u` fills. C's `/`
truncates towards zero and is `CDiv`; TLA+'s `\div` floors.

- A parameter is a record: absent, an integer, or a string in one of the
  formats, given by what `sscanf` extracts (day, second of day, ns), never
  as characters.
- `Init` holds a parameter set that `init_trimmer_comp_from_params`
  accepts, and the state `trimmer_msg_iter_init` chooses: `INITIAL_SEEK`
  when both bounds are set, else `SET_BOUNDS_NS_FROM_ORIGIN`.
- `trimmer_msg_iter_next` starts a call; `set_trimmer_iterator_bounds` is
  one upstream `next` of its loop, with AGAIN, END, an error, or a batch.
  `refs` counts the references held on each upstream message; `put_messages`
  puts them and resets the slots.
- `seek_initially` and `trim` are stubs in the code that return OK; they are
  modelled as returning OK.

`TrimmerLifecycle` chooses, with `CanFail`, whether each allocation, port
addition and upstream-iterator creation may fail. A port failure returns an
uninitialized `ret`, any status.

## 3. Runs

| Run | Expect | What it shows |
|---|---|---|
| `iterator` (`MCNotifIter.cfg`) | pass | See below. |
| `iterator_decode` | violation | `DecodesAsSpecified`: the decoder's output differs from what the medium holds. It conjoins `MediumEndAsSpecified` (spec S1, 4.4.4 and 7) and `PacketOfNamedStream` (4.4.2); each instance violates it on its own (set `FileSizes`). TLC reports the empty medium (0 bytes), where the first call returns ERROR and S1 says end. With 6 bytes, an EOF at `packet_size` in the middle of an event is accepted and the partial event dropped. With 7 to 10 bytes, a truncated second packet is accepted as a clean end of stream, because `last_eh_at` is stale. With 12 bytes, the second packet names another `stream_instance_id` and is put in the first packet's stream. |
| `in_ir` | pass | `InIrAsDefined`: after every translation, each declared field type's `in_ir` is what a reference definition (`InIrRef`) gives. A type holds something for the IR when it has an integer, enumeration or array without a meaning, a string or a float. Every option of a variant that holds something is in the IR too. 20,736 states, about 25 s. |
| `clock_update` | pass | `ClockTracksTime`: once a full-width value has been seen, the clock state equals the true clock after every sample of 2, 3 or 6 bits. 672 states. |
| `fake_graph` | pass | See below. 41,953 states. |
| `fake_leak` | violation | `PacketRefsBalanced`: after `destroy_fake_notif_iter`, the packet in `prev_packet` keeps a reference nothing holds, because line 306 puts `packet` only. |
| `noop_shared` | violation | `PassesOwnUpstream`: two noop filters on two sources; after both input ports connect, `g_iter` holds the second connection's iterator and the first filter forwards the second source's notifications. |
| `noop_over_fake` | pass | `FilterImplementsNotificationStream` (the filter's output refines `NotificationStream`) and `FilterEventuallyEnds` (under `FairSpec`, the filter's downstream eventually gets END). 384 states. |
| `storing_indexes` | violation | `StoredIndexesConsistent`: three dependents on three integers all read slot 0. |
| `trimmer` | pass | `MessagesReleased` (no upstream message reference is left held or put twice, on the loop, error, double-put and found paths) and `CallReturns` (every call of `next` returns). 209 states. |
| `trimmer_bounds` | violation | `BoundsAsIntended`: a bound the trimmer sets differs from the one its parameter stands for (`IntendedBound`, a reference definition). See below. |
| `trimmer_abort` | violation | `NeverAborts`: with no failure at all, the first `next` aborts, because `trimmer_msg_iter_init` never sets the iterator's data. |

**`iterator`** passes with 145,016 states in about 30 s. It checks:

- `TypeOK`;
- `ImplementsNotificationStream`: the iterator refines `NotificationStream`;
- `PreviousPacketChain`: every packet is created with the packet that ended
  before it, marked AVAILABLE, and the first with NONE, on both the
  content-size path and the EOF path;
- `SingleStreamClass`;
- `ClockMonotonic`: clock values seen by the caller never decrease;
- `OverrunNeverEndsPacket`: an event that runs past its packet's content
  size is emitted (the overrun is found only at the next event header,
  line 1417), but the packet is then never ended as if it were whole;
- `CallReturns`: every call returns;
- `EventuallyStops`: the caller reaches EOF or an error.

**`fake_graph`** (`FakeGraph`, `MCFakeGraph.cfg`) checks:

- `ImplementsNotificationStream`: the fake source refines
  `NotificationStream`;
- `PacketsCutAtPacketEvents`: at the end, all `event_count` events were
  delivered, in packets of `PacketEvents`, with the rest in the last one;
- `PreviousPacketChain`;
- `PacketNeverFreedEarly`: no packet has fewer references than the
  iterator's `packet` and `prev_packet` and the notifications holding it;
- `NoRecycleAfterGraph`: once the graph is gone, no notification is
  pooled, and every notification the sink holds is live.

Each property of a passing run has a mutant in `PROJECT.json`: a plausible
bug in the mapped code that TLC finds. They are:

- the BTR consumes bits it does not have;
- EOF ends the stream without ending the packet;
- the ended packet is not moved into `prev_packet`;
- the stream-class check is dropped;
- the end of the content is taken as reached once the cursor is at or past
  it;
- the clock wrap is not detected;
- padding never finishes;
- DONE returns OK;
- the packet boundary is tested before `at++`;
- the availability is set without a previous packet;
- the packet notification keeps the packet without `bt_get`;
- `recycle` returns the notification to the pool without checking `notif->graph`;
- END is returned one state early;
- the noop filter passes on one notification fewer than it received;
- the fake source's `next` has no STATE_DONE early return, so it returns
  empty OK batches forever;
- the in-IR pass skips the event classes of a translated stream class;
- `put_messages` does not reset the slots it put;
- an upstream status other than OK keeps the loop going.

**`trimmer_bounds`** lumps four bugs of `trimmer.c` into one reference
invariant. `MCTrimmer.tla` defines one instance per bug, and each violates
`BoundsAsIntended` on its own (swap the names in `MCTrimmer_bounds.cfg`):

- `WrappingInteger`: integers of 2^32 seconds and more wrap through
  `sscanf %u` (line 270). With the full instance this is the counterexample
  TLC reports, at the initial state.
- `AbsentEnd` over `PacketFirst`: an absent end is set to midnight of the
  first message's day instead of staying open (line 680).
- `TimesOfDay` over `PacketFirst`: the packet beginning's clock class is
  borrowed but never assigned, so the packet is skipped and a later event
  dates the bounds (line 503).
- `TimesOfDay` over `BeforeOriginOnly`: an event half a second before the
  origin is truncated to day 0 instead of day −1 (line 611).

## 4. Bounds, and why they are enough

**`MCNotifIter.cfg`.**

- Header: 8 bits, with `stream_id`.
- Packet context: 16 bits, with `packet_size`, `content_size`,
  `timestamp_begin` and `timestamp_end`.
- Event header: 8 bits, with `id` and a timestamp.
- Stream event context: 8 bits.
- Event classes 0 and 1: payload 8 bits each. Class 1 also has an 8-bit
  context.
- Two stream classes. `packet_size` 48, `content_size` 24, 40 or 48. With
  40 an event of 24 bits from bit 24 ends past the content.
- Timestamps are 1 bit wide on a 16-bit register, so every second sample
  wraps.
- Media of 0, 6 or 12 bytes (zero, one or two packets), chunks of 1 to
  3 bytes, one AGAIN.

These bounds reach the cases that matter:

- every scope split across chunks, and AGAIN in every continue state;
- EOF at and away from boundaries;
- padding (content 24 of 48) and an event overrunning the content (40 of 48);
- a second packet with another stream class;
- events of both classes;
- clock wraps at events, packet begin and packet end.

**Violation runs.** `iterator_decode` changes only what its cases need: the
instance-ID field, and media of 0, 6 to 10 and 12 bytes. 0 is empty, 6 ends
exactly at the first packet's `packet_size`, 7 to 10 end inside the second
packet's header or context, and 12 holds two whole packets.

**In-IR pass.** `MCUpdateInIr` is a CTF trace of the usual shape:
- a packet header with `magic` and a `uuid` array;
- a packet context with `content_size`, `packet_size` and `cpu_id`;
- an event header with `id` and the compact / extended variant;
- event classes with a plain payload, an empty payload, and a variant
  payload with an empty-structure option;
- a second stream class with one event class.

The seven fields that CTF may give a meaning each have one or not (2^7
choices). The classes are split over two chunks in every way that keeps a
stream class no later than its event classes. The interesting cases are:
- a structure that is all meaning fields, so out of the IR;
- a variant option forced into the IR;
- an empty payload;
- an event class added, in the second chunk, to a stream class translated
  in the first.

`ctf-meta.h`, which creates field types, is not in `src/`. The model
creates them with `in_ir` set. That is the only value under which an
integer without a meaning, which the pass never sets, reaches the IR.

**Fake source.** `PacketEvents` = 2 with 1 to 5 events covers:

- a single partial packet;
- an exact multiple, where `at % 5000` and `at == event_count` coincide;
- several packets.

Capacities 1 to 3 cut batches at every position. `FakeGraph` adds two
objects per notification kind and packets 1 to 3, the most that 5 events in
packets of 2 create. With two objects, one can be pooled while another is
live. The iterator and the graph can be destroyed in every state between
calls.

**Noop filter.** `noop_over_fake` uses the fake-source bounds with 1 to 4
events. The graph connects every port before it runs anything, so the model
calls `next` only once both ports are connected. `noop_shared` needs only
two filters, two sources and batches of up to 2: connecting both input ports
and one call of the first filter show the shared `g_iter`.

**Trimmer.** Batches of up to 2 messages and one AGAIN reach every path of
`set_trimmer_iterator_bounds`: a batch with no timed message (loop), a
failing `get_msg_ns_from_origin` (unknown snapshot, no conversion), a bound
that fails before the origin (second `put_messages`), AGAIN and END. Four
seconds a day make the day arithmetic cross day boundaries and the origin
with single-digit numbers.

## 5. Fairness

`NotifIter` assumes weak fairness of `Step` and of the caller action. The
loop body never waits on anything but the medium, which is modelled. The
CTF source components call `bt_notif_iter_get_next_notification` again until
they get EOF or an error.

`Trimmer` assumes weak fairness of `trimmer_msg_iter_next` and of
`set_trimmer_iterator_bounds`: the loop waits only on the upstream's `next`,
which answers at once in the model, and the graph keeps calling the filter
until it gets END or an error.

`NoopOverFake` (`FairSpec`) assumes weak fairness of connecting each port,
of the filter's call and return, and of the fake source's steps. Spec 4.5
says the graph connects the ports and then keeps running the sink, which
calls the filter, until it gets END. The fake source's loop waits on
nothing. Under this fairness the filter's downstream eventually gets END.
If the fake source's `next` lost its STATE_DONE early return, it would
return empty OK batches forever, and the property would fail.

`FakeSource`, `FakeGraph`, `NoopFilter` and `TrimmerLifecycle` have no
liveness property.

## 6. What is not modelled, and why

The components table in `PROJECT.json` lists every part.

- **Trace IR objects** (`src/lib/trace-ir/stream.c`, `event-class.c`,
  `src/lib/ctf-writer/clock-class.c`). Nothing under `src/` calls this
  generation of the API: `fake.c` and the tests use older constructors such
  as `bt_event_class_create(name)`. The files' collaborators are not in the
  repository (`stream-class.c`, `trace.c`, `object.h`, the freezing code).
  Their setters change only fields guarded by `BT_ASSERT_PRE_HOT`, which
  production builds compile out. A model would follow guesses, not the code.
- **Tests** (`test_trace_ir_ref.c`, `test_bin_info.c`). They are test
  programs, not the system. The first exercises the trace IR objects above;
  the second checks debug-info lookups on fixed binaries, which is I/O.
- **`bt_notif_iter_seek` and reset.** Nothing in `src/` calls them. The CTF
  source components that would are absent, so the hazard that reset keeps
  `clock_states` has no property.
- **Events of zero bits** (`notif-iter.c:1400`). With no event header and
  empty scopes the iterator would emit events forever. The checked
  configuration gives every event a header, and no bounded run of this case
  exists.
- **The order of `timestamp_end` and the bit accounting across AGAIN.**
  Field values are chosen freely when a scope completes, and the model
  does not keep each event's true time. So `ClockMonotonic` cannot tell
  whether `timestamp_end` was applied early (line 3200). The grammar
  properties also cannot tell whether bits were lost or repeated after an
  AGAIN (line 641).
- **A caller that retries after an error** (`notif-iter.c:3162`). The
  model's caller stops, as the CTF source components do.
- **The graph's sink scheduling** (spec S6). Only its headers are in
  `src/`.
- **`trimmer.c`'s `seek_initially` and `trim`.** They are stubs that return
  OK. The iterator state is never advanced, so with both bounds absolute
  `next` returns OK forever. Nothing is trimmed, so no property is stated
  about trimming.
