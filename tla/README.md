# Verification of http-sniffer

TLA+ models of http-sniffer, a multi-threaded program that reads packets from an
interface or a capture file, groups those on the HTTP ports into TCP flows, orders
their segments, and reports the HTTP requests and responses of each flow. The models
are checked with TLC on small instances. Proved with TLAPS, for every size: the queues and
the hash table as refinements of what the threads assume of them, the ownership of flows
and packets among the four threads, the life of a flow record, the ordered list of a
stream, what is recognised and kept as an HTTP header, and what is extracted from a
conversation.
Paths are those of the repository; `flow.c:253` is `src/src/flow.c`, line 253.

## The system

| component | code | state | operations |
| --- | --- | --- | --- |
| threads | `main.c` | `GP_CAP_FIN` | `capture_main` (main thread), `process_packet_queue`, `process_flow_queue`, `scrubbing_flow_htbl` |
| packet queue | `packet_queue.c` | a linked list, its length, a mutex | enqueue, dequeue, clear |
| flow queue | `flow_queue.c` | the same over `flow_t` | the same |
| flow hash table | `hash_table.c` | 10007 buckets, each a doubly linked list with a mutex; `flow_cnt` | find, new, delete, add packet, scrub, clear |
| flow record | `flow.c:35-372` | packet chains, counters, `http`, `close`, `last_action_sec` | `flow_add_packet`, `flow_reset`, `flow_free` |
| TCP ordering | `tcp.c`, `order.c` | two ordered lists of `seq_t` per flow | `seq_pkt`, `tcp_order`, `tcp_order_check` |
| HTTP extraction | `flow.c:375-745` | the chain of `http_pair_t` of a flow | `flow_extract_http` |
| packet preprocessing | `main.c:48-152`, `packet.c` | none | header parsing, recognition of HTTP |
| HTTP header parser | `http.c` | none | lines, tokens, header fields |
| output | `io.c` | files | `save_flow_json`, `flow_print` |
| utilities | `util.c` | none | `ip_ntos`, `ip_ston`, `check_malloc` |

The main thread captures and puts packets into the packet queue. The packet worker takes
them out, looks the flow up (the opposite direction first), makes one for a SYN, and calls
`flow_add_packet`, which counts, orders, hooks or frees the packet and, on a FIN or a RST,
moves the flow from the table to the flow queue. The scrubber walks the buckets every
second and moves flows that have been idle for ten minutes. The flow worker takes flows
out, extracts the HTTP pairs, prints and frees them. `GP_CAP_FIN` tells all three that a
capture file has ended. The threads share the two queues (one mutex each), the buckets
(one mutex each), the flow records, and that flag without a mutex.

What is hard: a flow is looked up under one lock and used under another; ownership of a
flow passes from the table to the queue to the flow worker while the packet worker may
still hold a pointer; the end of the capture is seen by each thread on its own; segments
arrive late, repeated or overlapping with 32-bit numbers that wrap; two data structures
(packet chains and order lists) refer to the same packets and are freed apart; responses
are matched to requests by position.

What makes each component correct:

- queue: an atomic first-in first-out buffer, whose mutex is always released;
- threads: every flow and packet has one owner, nothing is freed twice, the program ends,
  and what was captured was processed;
- hash table: lookups, insertions and deletions are those of a set, one flow per
  connection; idle flows leave;
- flow record: chains, counters, order lists and flags agree in every branch;
- ordering: sorted, complete, without repetition;
- extraction: the k-th request gets the k-th response, with the lengths of the messages;
- preprocessing and parser: the header, the whole header and nothing else is kept of a
  message, what was recognised is parsed as what it was recognised as, and reported so.

## Modules

| module | models | lines of code |
| --- | --- | --- |
| `Fifo` | what the queues promise | `flow_queue.c` (its operations as atomic steps) |
| `LinkedQueue` | the queue as written, each call several steps | `packet_queue.c:16-95`; `flow_queue.c` is the same code |
| `LinkedQueueProofs` | theorems about `LinkedQueue` | |
| `FlowTable` | what the hash table promises: a set of flows | `hash_table.c` (as atomic steps) |
| `HashTable`, `MCHashTable` | the linked lists of the buckets, two threads | `hash_table.c:18-175, 251-284` |
| `HashTableProofs` | theorems about `HashTable` | |
| `Flow` | the flow record as pure operators | `flow.c:35-148, 253-372` |
| `Sniffer`, `MCSniffer` | the four threads over table, queues and records | `main.c:157-402`, `hash_table.c`, `flow.c:201-230` |
| `SnifferProofs` | theorems about `Sniffer` | |
| `TcpOrder` | the ordered list as pure operators | `tcp.c`, `order.c` |
| `TcpOrderProofs` | theorems about a single `tcp_order` on any list | |
| `TcpStream`, `MCTcpStream` | a sender, a network and the list they produce | `flow.c:137-145` |
| `TcpStreamProofs` | theorems about `TcpStream` | |
| `FlowLife` | one flow: record and order lists together | `flow.c:253-372` with `tcp.c` |
| `FlowLifeProofs` | theorems about `FlowLife` | |
| `HttpText` | `http.c` as pure operators over symbols | `http.c`, `http.h` |
| `Preprocess`, `MCPreprocess` | a segment from the frame to the JSON line | `main.c:48-152`, `packet.c:49-118`, `tcp.c:79-135`, `flow.c:468-498`, `io.c:113-182` |
| `PreprocessProofs` | theorems about `Preprocess` | |
| `HttpExtract` | `flow_extract_http` as pure operators | `flow.c:151-168, 375-745` |
| `HttpConversation` | clients, servers, the lists `tcp_order` makes of their packets, and what is extracted from them | `flow.c:110-148`, `order.c:49-69` |
| `HttpConversationProofs` | theorems about `HttpConversation` | |

`Sniffer` and `FlowLife` both use `Flow`: the first with what a thread sees of a record,
the second with the order lists added. `FlowLife`, `TcpStream` and `HttpConversation` (through `HttpExtract`) all use `TcpOrder`.
`Preprocess` uses `HttpText`. `Sniffer` takes each queue call as one step, which
`LinkedQueue` implementing `Fifo` justifies, and the table as a set, which `HashTable`
implementing `FlowTable` justifies. In all modules the mutated definitions (commented "Mutant") stand before the
definition they vary and are used by nothing; they show that a property notices the
mistake.

### State and code

**LinkedQueue.** `que_len`, `first`, `last`, `next` and `mutex` are the C variables, `pc`,
`arg` and `ret` are where each thread is in its call and its argument and result. `next`
belongs to the objects and survives a dequeue, as in the code. `chain` is a history
variable: what should be in the queue. Lock, the two groups of assignments of enqueue and
of dequeue, each turn of the clear loop, and unlock are steps of their own.

**Sniffer.** `rec[f]` is the `flow_t` (module `Flow`), `live` what is allocated, `table`
the flows linked into the buckets, `idle` the age of `last_action_sec`. A step is what a
thread does under one mutex, cut where the code takes the mutex anew: `PktFindReverse`,
`PktFind` and `PktNew` each lock and unlock within, while `PktLock`, `PktAdd` and
`PktUnlock` are apart, because the flow may be given to the flow worker in `PktAdd` and is
reached once more in `PktUnlock`. The table is a set and not a list: the links are in
`HashTable`. An access to freed memory has two outcomes: the process dies
(`PktUseAfterFree` sets `fault`) or it goes on with the memory as it was left. A second
unlinking of a flow (`PktUnlinkTwice`) also ends the behaviour: the pointers it follows
are those of a different list. The trace contains only packets that `packet_preprocess`
keeps. `flow_extract_http`, `save_flow_json` and `flow_print` are one step that only reads.

**HashTable.** `first`, `last`, `elm_cnt` and `mutex` are the four fields of a `hash_mb_t`,
`next`, `prev`, `hmb` and `socket` those of a `flow_t`, `cur` and `flow` the local pointers
of the packet worker and the scrubber. A step of a walk is a step of the model, and
`flow_cnt++` is a load and a store, since the counter is shared by all buckets and guarded
by none of their mutexes. What decides whether a flow is deleted (its flags, its age) is a
free choice here; `Flow` and `Sniffer` have it. `chain` (what each list should be) and
`raced` (two changes of `flow_cnt` have overlapped) are history variables. `MaxDrift` bounds
the error of `flow_cnt` with which another packet arrives, or lost updates would add up for
ever. When the packet worker deletes a flow the scrubber has deleted before it
(`AddDeleteAgain`, the `PktUnlinkTwice` of `Sniffer`), the links it follows are those of
the flow queue, and the behaviour ends there.

**TcpOrder.** A list is a sequence of nodes and a pointer an index. Comparisons and
subtractions are those of `u_int32_t` and, for `tcp_dl`, `u_int16_t`, over the word sizes
`SeqWord` and `LenWord`.

**FlowLife.** `place` says whether the flow is in the table, with the flow queue or its
worker, or freed. A segment is any set of flags that occurs with no data, other data or the
beginning of an HTTP message, since `packet_preprocess` looks for HTTP whatever the flags
are; the SYN a flow begins with is one of them. `given`, `freed` and `unhooked` are history:
which packets were passed, freed, and which HTTP packets were freed by the call that had put
them on an order list. A packet with an HTTP header has the header's length as `tcp_dl`
(`main.c:128`, `main.c:135`), and its follower may begin later.

**HttpExtract.** The four loops of `flow_extract_http` (requests and responses, with a FIN
and without) are one set of operators: `Visited` is how far a loop gets, `Starts` where
messages begin, `Last` where the length is assigned. The tests for a negative
`rsp_body_len` are on an unsigned field and never true, so they do not appear.

**HttpConversation.** A packet becomes a node as `seq_pkt` makes it, and `tcp_order` puts it
into `order`, which is what is extracted from. Each side begins with its SYN, the client's
with the ACK of the handshake too (a request in that ACK would be freed and is left out).
`capture` says what the capture is like: `exact` gives every packet a time of its own,
`coarse` may give two packets the same time, and `lossy` may miss the header of a message,
because the segment was dropped or the header is split over two segments and neither is
taken for HTTP, or may have an interim response. Any segment with data may be captured
again. `src` and `dst` are history: the packets of either side in the order of their
capture, the repeated ones left out. So are `sent` (how many numbers a side has used),
`again` (a packet was repeated behind a gap or beyond the end of the sequence space), `asked`
and `answered` (what the two sides meant), and `intact` and `ahead` (how many exchanges came
before the first message missed, and whether it was one that moves requests behind
responses). A side is `Plain` while `tcp_order` must keep the order of the capture: it has
used less than all sequence numbers, it has no gap if it has passed their end, and nothing
was repeated behind a gap or beyond that end. The properties speak of conversations
`InSequence`, both sides of which are `Plain`. The model goes on outside of it, and there
`tcp_order` puts packets before earlier ones: where the first message leaves a gap and the
third begins at number 0, the list is first, third, second (`tcp.c:56-59`, `tcp.c:115-122`),
and the pairs and lengths are those of that list.

**HttpText and Preprocess.** A payload is a sequence of symbols: the characters the parser
looks at, and words (a method, a version, a field name with its colon, ...) that it compares
as a whole. Lengths count symbols, so that a word has length 1; the lengths the code tests
(eight characters of a version, one character of a line) are tests on the kind of symbol.
The null pointer is position 0. `Preprocess` builds a payload piece by piece, may capture it
in any frame at any point, may have `tcp_order` take something of `tcp_dl` (the copied header
stays), extracts the header as `flow_extract_http` does, up to `tcp_odata + tcp_dl`, and
compares with what `save_flow_json` writes. Where the header has lost its end, its length and
the range that is searched for fields come from what is left of an address: any number. A
text is recognised twice, in `packet_preprocess` and in `http_parse_request` or
`http_parse_response`, by different functions; both are in the model.

## Runs

Every property is explained where it is defined.

| run | configuration | bounds | shows |
| --- | --- | --- | --- |
| `queue` | `MCLinkedQueue` | 3 threads, 3 objects | `ImplementsFifo`, `MutexReleased`, and the invariants that the proof uses |
| `hash_table` | `MCHashTable` | 3 flows, 6 sockets, 2 buckets, drift of `flow_cnt` at most 1 | `ImplementsTable`, well linked lists, the counter, and the invariant of the proof |
| `sniffer` | `MCSniffer` | 5 captures of 5 packets, 2 flow objects, 2 buckets | ownership, one flow per connection, order of chains, what happens to a flow that left the table, termination, and the invariant of the proof |
| `sniffer_live` | `MCSnifferLive` | 2 captures of 5 packets | a quiet flow leaves |
| `tcp` | `MCTcpStream` | 10 segments, 3 of them pure acknowledgements, in every order; 5 arrivals out of all segments within 5 bytes, with repetitions and one gap at a time; 5 arrivals in order from 7 first numbers | the list is sorted and complete, overlaps are cut, lengths fit, repetitions dropped, `tcp_order_check` is right; in order and without gaps, the wrap does no harm |
| `flow_life` | `MCFlowLife` | 5 packets of 15 shapes (5 sets of flags; no data, data, an HTTP header) on either side, or 4 of which any may be repeated | record, chains and lists stay in step, every packet is freed once, which freed packets the lists refer to, and the invariant of the proof |
| `preprocess` | `MCPreprocess` | 10 beginnings, 8 pieces, 11 symbols, 5 frames, 1, 2 or 11 taken of `tcp_dl` | the header and only the header is kept; bytes behind it change nothing; recognised as parsed, but for two cases; the JSON line says what the message says, but for 307 and the fields of a header that lost its end |
| `http` | `MCHttp` | 5 packets behind the handshake, or 4 whose times may be equal, or 5 with headers missed, any of them captured again; segments that are a header or have a body too; a word of 32 and a first number 6 before its end | in sequence: pairs and lengths; with equal times, no wrong pair; a loss shifts what follows it and nothing before |

The bounds are the smallest at which each interesting case occurs. Three threads let one
own the mutex while two wait on opposite calls. Three flows in one bucket give a first, a
middle and a last one to delete, under a walk that stands on any of them; all clients hash
into one bucket and the server's side into the other, so that both lookups of a packet take
different mutexes. In `sniffer` two flow objects let an address be used again and two
connections be alive; the hash puts the two directions of a connection into different
buckets, so that each lookup visits another one. The captures of `MCSniffer` are
an exchange closed by the server, two connections of which one is reset early, a repeated
SYN after a request, a reset after two requests, and a connection opened again after it was
closed. `Timeout` is 0 ticks: the ages that matter are "not idle longer than the timeout"
and "longer", and they saturate there; `Word` only needs to be larger than any age. The TCP
runs use words of 1000 and 200 in place of 2^32 and 2^16, far from any length in the run,
and the wrap is reached through the first number. Five packets suffice for a SYN, an ACK, two
requests and a RST after them, the client's fifth packet; five packets behind the
handshake for two pipelined requests, their responses, and a FIN. In `http` the
second message of a side may end at number 0 and the third lie beyond it, with gaps before
it or without. Eleven symbols hold a
request line, one field with a value, a blank line and a few symbols of a body with a blank
line of its own; what is taken of `tcp_dl` is one symbol, which the search forgives, two,
or more than the header has, so that `tcp_dl` wraps or ends at 0.

Deadlock is checked in `LinkedQueue`, `HashTable`, `Preprocess` and `Sniffer`; `Sniffer` may
stop only when the program has ended, `HashTable` only after a second unlinking. `TcpStream`,
`FlowLife` and `HttpConversation` describe one finite conversation and stop with it, so
`MCTcpStream`, `MCTcpRetransmission`, `MCFlowLife` and `MCHttp` say `CHECK_DEADLOCK FALSE`.

### Fairness

`LinkedQueue`: a thread that owns the mutex keeps running (`WF` of `Inside`); nothing is
assumed of its coming back or of who gets the mutex. `Sniffer`: each thread is scheduled
again and again, the clock goes on, and a thread that waits for a bucket gets it in the end
(`WF` per thread). The last needs no fair mutex: a thread waits only for one other, which
holds a bucket for a bounded number of steps and then sleeps or turns to other buckets, so
that the mutex stays free until the waiting thread runs. Nothing is assumed of the network.

### What the code does and its comments do not say

Each of these runs checks one sentence of the repository and finds it violated.

| run | sentence | what happens |
| --- | --- | --- |
| `flows_left` | `main.c:224` "Flow processing finished." | the flow worker ends while the other two can still add flows |
| `cleanse` | `main.c:239` "cleanse all flows" | an unsigned long is compared with -1 and no flow is removed |
| `stale_flow` | `flow.h:113` "Add a packet to one of the flow records in hash table" | the scrubber takes the flow between lookup and lock; a new flow, with time 0, at once |
| `tcp_retransmission` | `tcp.c:76` "retransmission" | after a gap, or a wrap, a repeated segment is inserted again |

`tcp_retransmission` is not a rare case: since `tcp_dl` ends with the HTTP header
(`main.c:128`, `main.c:135`), every message with a body leaves a gap in the list.

Smaller disagreements that the models follow and no run is spent on:

- `flow.c:141` "The packet without http payload will NOT be stored.": a packet with one is
  stored in the order list even where the same call frees it, so that the list refers to
  freed memory: an HTTP header in a SYN (`flow.c:331`, `flow.c:339`), in the client's second
  packet (`flow.c:296`), in a FIN (`flow.c:311`) or a RST (`flow.c:279`).
  `DanglingOnlyUnhooked` says that these are all: no packet that was hooked dangles, after a
  repeated SYN neither.
- A segment that is captured again behind a gap is listed with what `tcp_order` leaves it for
  a length, 0 for one that is there already. `flow_extract_http` parses up to `tcp_odata +
  tcp_dl` (`flow.c:490`, `flow.c:629`), `find_header_end` then finds no end, and the length of
  the header and the fields are lost (`Reaches` in `ParsedAsRecognised` and `Reported`).
- `flow.c:303` "The flow will be closed if the both fins are detected": one FIN closes it
  (`flow.c:313`, where a comment asks "&& or ||").
- `main.c:165`: the packet worker, like the flow worker, reads `GP_CAP_FIN` after a dequeue
  that found nothing; what was captured in between stays in the queue.
- `order.h:28` calls `num` the "number of packet in queue"; a segment appended in order
  returns without counting (`tcp.c:113`, the disjuncts of `Place` without `Linked`).
- `flow.c:259` "We make sure that the flow is not a HTTP flow": the branch cannot be reached,
  which is what `HttpIffHooked` says.
- `flow.c:272` "Flow with uncomplete information. Drop it.": a RST before the client's fourth
  packet also drops a flow that holds a request and its response (`Kind`, "incomplete").
- `README.md:93` and `:100` of the repository show `bdylen` equal to `conlen`: a body in the
  segment of its header, with no packet of the server after it, is reported with length 0
  (`Length`, in `LengthsMatch`, says exactly when).
- `http_request_method` skips a CR LF before the method, so that `IsRequest` takes such a
  segment for a request; `http_parse_request` then sees an empty first line and returns -1
  (`http.c:857`), a result nobody reads, and the JSON line has version 0, method NONE and no
  field. `ParsedAsRecognised` says that no other request is given up.
- A response whose status is no known code is reported with status 600 and version 0
  (`http.c:902`, `Unparsed`).
- The value of an empty field is reported as a CR or a LF (`http.c:823`, `FieldLine`).
- A line of one character ends the header like a blank one (`http.c:433`, `Blank`;
  `NoShortLine` in `HeaderWhole` excludes it).
- The enumeration has no 306 and 307 gets its number (`http.h:18-76`, `StatusOf`): a 307 is
  reported as 306, which `StatusLine` in `Reported` states as the exception it is.
- `Connection` is parsed and not written (`io.c:121-146`, `save_flow_json`).
- `tcp_dl` has 16 bits and IP fragments are not told apart from whole packets
  (`main.c:96`, `packet.c:84`): a later fragment is read as if it began with a TCP header.
- `ip_ntos` converts an address that is in host order already (`util.c:32`, `packet.c:88`),
  `rtt` keeps 8 bits of a number of microseconds (`flow.h:68`, `flow.c:293`), and the
  `-r capture.pcap` of `README.md:45` is not an option (`main.c:323`). Not modelled.

## Proofs

Most modules of proofs show that an invariant `IInv`, which TLC checks in the component's
run, holds initially and is kept by every action, and take the other theorems from it.

**LinkedQueueProofs**, for any sets of threads and objects, from the one assumption
that the null pointer and "no result" are no object or thread (`NullAssumption`):

| theorem | states |
| --- | --- |
| `Invariance` | `Spec => []IInv` |
| `TypeCorrect`, `MutualExclusion`, `NoSharing`, `WellFormed` | `[]TypeOK`, `[]MutexInv`, `[]Distinct`, `[]QueueWellFormed` |
| `Refinement` | `Spec => ImplementsFifo`: the pointer code implements `Fifo` |

`QueueWellFormed` is not inductive: it says nothing while a thread is half way through a
call, and the next step starts from there. `IInv` adds `Shape`, which says at each such
point what the list looks like (an object hung behind the last one but not yet ended; a
`pkt_last` already cleared), and `Private`, which says who holds an object, so that an
enqueue cannot add one that is in the list already. Each conjunct has its lemma: `TypeNext`,
`MutexNext`, `DistinctNext`, `ShapeNext`, `PrivateNext`; `Removal` and `Addition` say how a
step changes `chain` and carry the facts about sequences. `StepSimulation` maps each step to
one of `Fifo` or to none: `EnqSeal` to `Put`, `DeqUnlink` to `Take`, `DeqEmpty` to
`TakeNothing`, `ClrLoop` to `Discard`.

**HashTableProofs**, for any finite set of flows, any sockets, any number of buckets and any
hash (`HashTableAssumption`: a socket and its reverse differ, and the constants that stand
for "none" are nothing else):

| theorem | states |
| --- | --- |
| `Invariance`, `TypeCorrect` | `[]IInv`, `[]TypeOK` |
| `ListsWellLinked` | `[]WellLinked`: the links pass every flow once in either direction |
| `CountCorrect` | `[]CountExact`: `flow_cnt` is right until two changes of it overlap |
| `Refinement` | `Spec => ImplementsTable`: the lists implement the set of `FlowTable` |

`WellLinked` alone is not inductive: a deletion writes through the links of a flow that must
be in the list of its own bucket and in no other (`Apart`, `Home`), the writer must hold that
bucket's mutex (`Exclusion`), the pointer of a walk must be on the list or past its end
(`Walking`, `Scrubbing`). `Insertion` and `Deletion` say what `flow_hash_new` and the four
cases of `flow_hash_delete` do to a well linked list; `Steps` and `OutsideFrame` sort the
actions by what they leave alone. For the refinement, `Walking` has the fact that a lookup
passed no flow with its socket, so that a walk off the end is a `Miss` at that moment.

**SnifferProofs**, for any number of flow objects and buckets, any hash, any captures of any
length and any timeout (`SnifferAssumption`: reversing a socket twice gives it back, packets
are numbered, the timeout is less than the largest age):

| theorem | states |
| --- | --- |
| `Invariance` | `[]IInv` |
| `FlowsHaveOneOwner` | `[]OnePlace`: table, flow queue or flow worker |
| `PacketsHaveOneOwner` | `[]PacketOnePlace`: packet queue, packet worker or a flow |
| `ConnectionsAreUnique` | `[]UniqueConnection`, over the three separate locks of an insertion |
| `StaleIsForced` | `[]StaleOnlyIfForced`: under the packet worker's hands a flow leaves only by force |
| `ChainsStayInOrder` | `[]ChainsInOrder` |
| `ClosedStays` | `ClosedIsFinal`, an action property |

`IInv` adds to `TypeOK`, `OnePlace`, `UniqueConnection` and `StaleOnlyIfForced`: `Arrival`
(what is in the packet queue is the end of what was captured), `Holding` (what the packet
worker has in its hands when), `Lookup` (no flow of the table has the packet's socket after
the lookup that failed; only the packet worker inserts, so the scrubber cannot make it
false), `Locking` (who holds which bucket) and `Chains` (the hooked packets are older than
those still to come, ascending, and of the flow's connection). `Frames` lists what each
action leaves alone, and each conjunct has a lemma with a step per action that disturbs it.
These theorems hold up to the first access to freed memory, where `Sniffer` sets `fault`:
they speak of what the code keeps true before it.

**TcpOrderProofs**, for any word sizes, any list and any segment:

| theorem | states |
| --- | --- |
| `Insertion` | the list is the same, or has one more node, of the packet given, at one place, with `last` inside |
| `KeepsOrder` | an ordered list stays so unless the segment begins before it or inside a node behind a gap |
| `CoversBytes` | the list covers the bytes it covered and those of the segment, and no others |
| `NodesAfter` | every node is an old one or a piece of the segment of the right length |
| `KnownDropped` | a segment of which every byte is there already leaves the list alone |
| `GoesLast` | a segment at or behind the end becomes the last node |

`ContinuousSegment` unfolds the choice in `tcp_cont_seq`, `Branches` sorts the paths of
`tcp_order` into the three ways `Place` is called, and `Placed` follows each of its outcomes.
The condition of `KeepsOrder` is the exact complement of what run `tcp_retransmission` finds.
`CoversBytes`, `NodesAfter` and `KnownDropped` have the stronger `Fits`: what of the segment
reaches into a node behind a gap must be in the list, since `Place` compares it with the two
nodes beside its place and with no other.

**TcpStreamProofs**, for streams of any length cut in any way (`StreamAssumption`):

| theorem | states |
| --- | --- |
| `TypeCorrect` | `[]TypeOK`, for any sender and any order, loss and repetition |
| `ListSorted`, `ListComplete` | `[](Plain => Sorted)`, `[](Plain => Complete)` |
| `ListLengthsFit`, `ListCheckAgrees` | `[](Plain => LengthsFit)`, `[](Plain => CheckAgrees)` |
| `Dropped` | `Spec /\ []Nonempty => RetransmissionDropped` |

`Plain` excludes a stream that wraps, and a sender that cuts its stream anew while segments
overtake each other. Both are needed: after a wrap a list loses its order when a segment is
repeated, and different cuts that overtake each other do not satisfy `Fits`. In order and
without gaps, the wrap does no harm; for these properties that is checked (the first numbers
994 to 999 of run `tcp`) and not proved, because every comparison then means something else on
either side of the wrap. With gaps it does: see `HttpConversation`, where both are treated.
`Nonempty` is needed too: an acknowledgement without data is put on the list like any other
segment (`flow.c:137`), and at a number that the list has passed it may become one more
empty node each time it comes. The invariant
(`IInv`: `TypeOK`, `HasEnd`, and `Kept` while the stream is `Plain`) relates the list to the
set of cuts that have arrived: the first node is at the first number, the nodes are
`Monotone`, their lengths are right (`Whole`), they cover the bytes that arrived and no others (`Listed`),
and no segment begins in a gap that is not its own (`NoneInGap`). `MendsFits` and `ApartFits`
show `Fits` for the two kinds of arrival, and the theorems on `tcp_order` do the rest.

**FlowLifeProofs**, for flows of any number of packets, any first number and any word sizes
(`FlowLifeAssumption`):

| theorem | states |
| --- | --- |
| `Invariance` | `[]IInv` |
| `HttpMarksHooked` | `[]HttpIffHooked`, so that the branch at `flow.c:257` is dead |
| `PacketsFreedOnce` | `[]FreedOnce`: every packet is freed exactly once |
| `DanglingBounded` | `[]DanglingOnlyUnhooked`: a list refers to a freed packet only if it is an HTTP packet freed by the call that ordered it |
| `HookedInOrder` | `[]HookedIsOrdered`, if `ISN > 0` and `ISN + 6 * MaxPackets < SeqWord` |

`IInv` adds `Numbered` (a new packet is no old one), `Referred` (a node of an order list is of
a hooked packet or of one freed as soon as it was ordered; `DanglingOnlyUnhooked` follows
from this and `FreedOnce`), and that a packet of the client was counted. `Kinds` and `RecordStep` treat the
branches of `flow_add_packet` one by one, `OrderedStep` rests on `Insertion`.

The hypothesis of `HookedInOrder` says that the numbers of the flow do not wrap, and it is
needed: TLC finds `HookedIsOrdered` violated when `ISN` is 0 or close to `SeqWord`, because
`tcp_order` then takes a new packet for a retransmission and leaves it out of the list though
it is hooked. Its invariant `InOrder` holds each direction (`Direction`) to a list that is
`Monotone`, as long as the count of its packets, and below the number of the next segment, so
that `GoesLast` applies, and the packets hooked to nodes of it (`Hooks`).

**PreprocessProofs**, for any set of texts of at most 1000 symbols in any frames and whatever
`tcp_order` takes of `tcp_dl` (`PreprocessAssumption`; the bound keeps `tcp_dl` in its 16 bits):

| theorem | states |
| --- | --- |
| `Invariance` | `[]IInv`: `pkt` is what `Store` makes of `payload`, `header` what the parser makes of `pkt` |
| `TypeCorrect` | `[]TypeOK` |
| `RecognisedKept` | `RecognisedStays`: bytes behind a header change neither what it is taken for nor its end |
| `HeaderStored` | `[]HeaderWhole`: the header, the whole header and nothing else is kept |
| `ParsersAgree` | `[]ParsedAsRecognised`: the second parser takes a text for what the first did, but for a request after CR LF, and finds the same end of the header while `tcp_dl` reaches it |
| `MessageReported` | `[]Reported`: what is written of a message in lines is what the message says, but for the status 307; its fields while `tcp_dl` reaches the end of the header |

`LeastKept`, `HeaderEndKept` and `MethodKept` say that a search that has found something in a
text finds the same in a longer one, or in a shorter one that still holds it; `BlankLine` ties
the two ways of saying where a header ends. `TypeCorrect` needs what the recursive search for
a field returns: a function that satisfies the recursion is shown to exist, and the last
line with a wrong result is shown not to.

`MessageReported` compares two readings of a header: the parser's, which goes from line end
to line end with offsets, and the sender's (`LineAt`, `Words`), which cuts lines and words.
`LineShape` says where `find_line_end` ends a line (one symbol too far when an LF is followed
by a CR), `WordAfter` where the next token is, `ValueBounds` where the value of a field lies;
`SearchFirst`, again by the last line with a wrong result, that the search stops at the
first line that begins with the name, and `BlankLast` that nothing but the last line is empty.

**HttpConversationProofs**, for any payloads, header lengths, word sizes, first numbers and
any number of exchanges and repetitions, captured exactly, with equal times, or with messages
missed (`ConversationAssumption`, `WordAssumption`):

| theorem | states |
| --- | --- |
| `Invariance`, `TypeCorrect` | `[]IInv`, `[]TypeOK` |
| `EveryPair` | `[]AllPaired`: every request captured before the FIN has the response the server gave to it |
| `NoMismatch` | `[]NeverMismatched`: equal times may cost messages, and never make a wrong pair |
| `OnlyShifted` | `[]LossesShiftOnly`: a missed header leaves the pairs before it alone |
| `LengthsExact` | `[]LengthsMatch`: the lengths are those of the messages |
| `LastByteExact` | `[]LastByteIsLast`: the last byte time is that of the last packet before the FIN |

All of them but the first two speak of conversations `InSequence`. The properties speak of the
result of four loops over two lists, so the invariant describes the lists and not the loops.
`Ordered` is about `tcp_order`: a side has used the numbers from its first on and none twice
(`Along`), and while it is `Plain`, what `tcp_order` has made of it is the packets in the order
of their capture (`Kept`). A new packet then goes last, either because it joins the last node
or because every number of the list is below its own (`PutJoined`, `PutBelow`), and a repeated
one is dropped because the list has no gap (`KeptRepeat`). The rest
describes the packets of the capture: `Lists` (what each side holds, in order of time),
`Found` (which headers are on them), `Lengths` (the numbers of the segments between two
headers), `Answers` (a response is behind the request it answers, and the counts differ by what
is still under way) and `Losses` (from where on messages may be missing). Lemmas on `Visited`
and `Starts` turn these into what each loop passes: the k-th start of a list is its k-th
header, as far as the loop gets, and `InOrderAre` says that it is this list the loops pass. No
message of a side in sequence is as long as the sequence space (`ShortAre`), so that a
difference of two numbers is its length.

Only model-checked: liveness (`MutexReleased`, `Terminates`, `QuietFlowsLeave`; fairness and
`ENABLED` are out of the prover's reach), and the properties of `TcpStream` in order across
the wrap, as said above.

## Not modelled

- `util.c`, the option parsing, the debugging thread (a build option that only prints), the
  names of output files, `flow_print` and the syntax of the JSON line: wording, or code that
  changes no state of the program.
- Times other than the capture times the extraction compares, byte counts, `rtt`, addresses
  and ports as numbers: assignments of one value to one field that no other code tests.
- `flow_hash_clear` has no caller but the tests; `flow_hash_scnt` is called by the debugging thread only.
- `flow_free` releases only the first HTTP pair of a flow (`flow.c:222`). A property that says
  so would repeat the line.
- The behaviour after an access to freed memory or a second unlinking, other than that the
  program may go on with the memory as it was left.

## Plan

Done: the queue, the hash table, the threads, the flow record, ordering, preprocessing,
parser and extraction, each with its runs, and the proofs above. Left for another day:

1. `Sorted` and `Complete` of `TcpStream` for segments in order across the wrap: the list is
   then only ever appended to, and the offsets from the first number, not the numbers, are
   in order.
2. A ledger of allocations in `HttpConversation`, if `flow_free` is changed to release every
   pair.
