----------------------------- MODULE HashTable ------------------------------
(***************************************************************************)
(* The flow hash table of src/hash_table.c: for each bucket a doubly       *)
(* linked list of flow_t with a mutex of its own, and one counter for all  *)
(* buckets that has none.  Two threads use it.  The packet worker looks a  *)
(* packet's flow up in both directions, makes one for a SYN, and deletes   *)
(* the flow when flow_add_packet closes or drops it; the scrubber walks    *)
(* every bucket and deletes the idle flows.                                *)
(***************************************************************************)
EXTENDS Integers, Sequences, FiniteSets

CONSTANTS
  Flows,    \* addresses of flow_t objects
  Sockets,  \* <<source, destination>> pairs of endpoints
  HASH_SIZE, \* the number of buckets
  Hash,     \* HASH_FLOW: the bucket of each socket
  NULL,     \* the null pointer
  None,     \* a free mutex; no result
  MaxDrift  \* bound on the error of flow_cnt with which another packet arrives

Reverse(s) == <<s[2], s[1]>>
Buckets == 0 .. HASH_SIZE - 1

ASSUME HashTableAssumption ==
  /\ IsFiniteSet(Flows)
  /\ HASH_SIZE \in Nat \ {0}
  /\ Hash \in [Sockets -> Buckets]
  /\ \A s \in Sockets : Reverse(s) \in Sockets /\ Reverse(s) # s
  /\ NULL \notin Flows
  /\ None \notin Flows \cup Sockets \cup {NULL, "packet", "scrub"}
  /\ MaxDrift \in Nat

VARIABLES
  first,     \* first[b], last[b], elm_cnt[b], mutex[b]: the hash_mb_t of bucket b
  last,
  elm_cnt,
  mutex,     \*   "packet", "scrub" or None
  next,      \* next[f], prev[f], hmb[f], socket[f]: the fields of flow_t f
  prev,
  hmb,
  socket,
  flow_cnt,  \* static int flow_cnt
  pc,        \* pc[t]: where thread t is
  reg,       \* reg[t]: the value of flow_cnt that t has read and will change
  packet,    \* packet worker: the socket of the packet,
  sought,    \*   the socket flow_hash_find looks for,
  cur,       \*   the flow it is at,
  found,     \*   and the result
  bucket,    \* scrubber: the bucket it walks,
  flow,      \*   the flow it is at,
  flow_next, \*   and the one after it, read before the flow may be deleted
  chain,     \* history: chain[b], the flows of bucket b in the order of the list
  raced      \* history: two changes of flow_cnt have overlapped

block  == <<first, last, elm_cnt>>
fields == <<next, prev, hmb, socket>>
count  == <<flow_cnt, reg, raced>>
worker == <<packet, sought, cur, found>>
scrub  == <<bucket, flow, flow_next>>
vars == <<block, mutex, fields, count, pc, worker, scrub, chain>>

Threads == {"packet", "scrub"}

Linked == {f \in Flows : \E b \in Buckets : \E i \in DOMAIN chain[b] : chain[b][i] = f}

Init ==
  /\ first = [b \in Buckets |-> NULL]
  /\ last = [b \in Buckets |-> NULL]
  /\ elm_cnt = [b \in Buckets |-> 0]
  /\ mutex = [b \in Buckets |-> None]
  /\ next = [f \in Flows |-> NULL]
  /\ prev = [f \in Flows |-> NULL]
  /\ hmb = [f \in Flows |-> NULL]
  /\ socket = [f \in Flows |-> None]
  /\ flow_cnt = 0
  /\ pc = [t \in Threads |-> IF t = "packet" THEN "idle" ELSE "sleep"]
  /\ reg = [t \in Threads |-> 0]
  /\ packet = None /\ sought = None /\ cur = NULL /\ found = None
  /\ bucket = 0 /\ flow = NULL /\ flow_next = NULL
  /\ chain = [b \in Buckets |-> <<>>]
  /\ raced = FALSE

Goto(t, to) == pc' = [pc EXCEPT ![t] = to]
At(t, at) == pc[t] = at
Acquire(t, b) == mutex[b] = None /\ mutex' = [mutex EXCEPT ![b] = t]
Release(b) == mutex' = [mutex EXCEPT ![b] = None]

-----------------------------------------------------------------------------
\* flow_hash_new and flow_hash_delete: what they do to the lists, under the mutex.
\* flow_hash_new: flow_new has zeroed the record.
AppendTo(f, b) ==
  /\ first' = IF elm_cnt[b] = 0 THEN [first EXCEPT ![b] = f] ELSE first
  /\ next' = IF elm_cnt[b] = 0 THEN [next EXCEPT ![f] = NULL]
                               ELSE [next EXCEPT ![last[b]] = f, ![f] = NULL]
  /\ prev' = IF elm_cnt[b] = 0 THEN [prev EXCEPT ![f] = NULL]
                               ELSE [prev EXCEPT ![f] = last[b]]
  /\ last' = [last EXCEPT ![b] = f]
  /\ hmb' = [hmb EXCEPT ![f] = b]
  /\ elm_cnt' = [elm_cnt EXCEPT ![b] = @ + 1]
  /\ chain' = [chain EXCEPT ![b] = Append(@, f)]

\* The sequence c without its k-th element.
Without(c, k) == [i \in 1 .. Len(c) - 1 |-> IF i < k THEN c[i] ELSE c[i + 1]]

\* The four cases of flow_hash_delete, in the order it tests them.
UnlinkOnly(f, b) ==
  /\ elm_cnt[b] = 1 /\ f = first[b]
  /\ first' = [first EXCEPT ![b] = NULL]
  /\ last' = [last EXCEPT ![b] = NULL]
  /\ next' = [next EXCEPT ![f] = NULL]
  /\ prev' = [prev EXCEPT ![f] = NULL]

UnlinkFirst(f, b) ==
  /\ ~ (elm_cnt[b] = 1 /\ f = first[b])
  /\ prev[f] = NULL
  /\ first' = [first EXCEPT ![b] = next[f]]
  /\ prev' = [prev EXCEPT ![next[f]] = NULL, ![f] = NULL]
  /\ next' = [next EXCEPT ![f] = NULL]
  /\ UNCHANGED last

\* Mutant: hm->last stays at the deleted flow.
UnlinkLastStays(f, b) ==
  /\ ~ (elm_cnt[b] = 1 /\ f = first[b])
  /\ prev[f] # NULL /\ next[f] = NULL
  /\ next' = [next EXCEPT ![prev[f]] = NULL, ![f] = NULL]
  /\ prev' = [prev EXCEPT ![f] = NULL]
  /\ UNCHANGED <<first, last>>

UnlinkLast(f, b) ==
  /\ ~ (elm_cnt[b] = 1 /\ f = first[b])
  /\ prev[f] # NULL /\ next[f] = NULL
  /\ last' = [last EXCEPT ![b] = prev[f]]
  /\ next' = [next EXCEPT ![prev[f]] = NULL, ![f] = NULL]
  /\ prev' = [prev EXCEPT ![f] = NULL]
  /\ UNCHANGED first

UnlinkMiddle(f, b) ==
  /\ ~ (elm_cnt[b] = 1 /\ f = first[b])
  /\ prev[f] # NULL /\ next[f] # NULL
  /\ next' = [next EXCEPT ![prev[f]] = next[f], ![f] = NULL]
  /\ prev' = [prev EXCEPT ![next[f]] = prev[f], ![f] = NULL]
  /\ UNCHANGED <<first, last>>

Unlink(f) ==
  LET b == hmb[f] IN
  /\ UnlinkOnly(f, b) \/ UnlinkFirst(f, b) \/ UnlinkLast(f, b) \/ UnlinkMiddle(f, b)
  /\ elm_cnt' = [elm_cnt EXCEPT ![b] = @ - 1]
  /\ \E k \in DOMAIN chain[b] :
       /\ chain[b][k] = f
       /\ chain' = [chain EXCEPT ![b] = Without(@, k)]
  /\ UNCHANGED <<hmb, socket>>

-----------------------------------------------------------------------------
\* flow_cnt++ and flow_cnt--: a load and a store, under the mutex of one bucket.
Changing(t) == pc[t] \in {"inc_store", "dec_store"}

CountRead(t) ==
  /\ \/ At(t, "inc") /\ Goto(t, "inc_store")
     \/ At(t, "dec") /\ Goto(t, "dec_store")
  /\ reg' = [reg EXCEPT ![t] = flow_cnt]
  /\ raced' = (raced \/ \E u \in Threads : Changing(u))
  /\ UNCHANGED <<block, mutex, fields, flow_cnt, worker, scrub, chain>>

\* Mutant: a deletion counts up.
CountUp(t) ==
  /\ Changing(t)
  /\ flow_cnt' = reg[t] + 1
  /\ reg' = [reg EXCEPT ![t] = 0]
  /\ Goto(t, IF t = "scrub" THEN "next"
             ELSE IF pc[t] = "inc_store" THEN "unlock_new" ELSE "unlock")
  /\ UNCHANGED <<block, mutex, fields, raced, worker, scrub, chain>>

CountWrite(t) ==
  /\ Changing(t)
  /\ flow_cnt' = reg[t] + (IF At(t, "inc_store") THEN 1 ELSE -1)
  /\ reg' = [reg EXCEPT ![t] = 0]
  /\ Goto(t, IF t = "scrub" THEN "next"
             ELSE IF pc[t] = "inc_store" THEN "unlock_new" ELSE "unlock")
  /\ UNCHANGED <<block, mutex, fields, raced, worker, scrub, chain>>

-----------------------------------------------------------------------------
\* The packet worker: flow_hash_add_packet.  It looks for the other direction first.
Arrive(s) ==
  /\ At("packet", "idle")
  /\ flow_cnt - Cardinality(Linked) \in -MaxDrift .. MaxDrift
  /\ packet' = s
  /\ sought' = Reverse(s)
  /\ found' = None
  /\ Goto("packet", "find")
  /\ UNCHANGED <<block, mutex, fields, count, cur, scrub, chain>>

\* Mutant: flow_hash_find does not wait for the mutex.
FindLockNot ==
  LET b == Hash[sought] IN
  /\ At("packet", "find")
  /\ cur' = IF elm_cnt[b] > 0 THEN first[b] ELSE NULL
  /\ mutex' = [mutex EXCEPT ![b] = "packet"]
  /\ Goto("packet", "walk")
  /\ UNCHANGED <<block, fields, count, packet, sought, found, scrub, chain>>

\* flow_hash_find
FindLock ==
  LET b == Hash[sought] IN
  /\ At("packet", "find")
  /\ Acquire("packet", b)
  /\ cur' = IF elm_cnt[b] > 0 THEN first[b] ELSE NULL
  /\ Goto("packet", "walk")
  /\ UNCHANGED <<block, fields, count, packet, sought, found, scrub, chain>>

WalkOn ==
  /\ At("packet", "walk")
  /\ cur # NULL /\ socket[cur] # sought
  /\ cur' = next[cur]
  /\ UNCHANGED <<block, mutex, fields, count, pc, packet, sought, found, scrub, chain>>

WalkHit ==
  /\ At("packet", "walk")
  /\ cur # NULL /\ socket[cur] = sought
  /\ found' = cur
  /\ Release(Hash[sought])
  /\ Goto("packet", "add_lock")
  /\ UNCHANGED <<block, fields, count, packet, sought, cur, scrub, chain>>

\* Mutant: gives the search up at the last flow of the list.
WalkMissLast ==
  /\ At("packet", "walk")
  /\ cur # NULL => next[cur] = NULL
  /\ found' = NULL
  /\ Release(Hash[sought])
  /\ Goto("packet", "missed")
  /\ UNCHANGED <<block, fields, count, packet, sought, cur, scrub, chain>>

WalkMiss ==
  /\ At("packet", "walk")
  /\ cur = NULL
  /\ found' = NULL
  /\ Release(Hash[sought])
  /\ Goto("packet", "missed")
  /\ UNCHANGED <<block, fields, count, packet, sought, cur, scrub, chain>>

\* Not in the other direction: try the packet's own.
Again ==
  /\ At("packet", "missed")
  /\ sought # packet
  /\ sought' = packet
  /\ found' = None
  /\ Goto("packet", "find")
  /\ UNCHANGED <<block, mutex, fields, count, packet, cur, scrub, chain>>

\* The end of flow_hash_add_packet.
Return ==
  /\ packet' = None /\ sought' = None /\ cur' = NULL /\ found' = None
  /\ Goto("packet", "idle")

\* In neither: a SYN makes a flow, any other packet is freed.
Unknown ==
  /\ At("packet", "missed")
  /\ sought = packet
  /\ \/ Goto("packet", "new") /\ UNCHANGED worker
     \/ Return
  /\ UNCHANGED <<block, mutex, fields, count, scrub, chain>>

\* flow_hash_new; flow_new returns memory that nobody holds.
New(f) ==
  LET b == Hash[packet] IN
  /\ At("packet", "new")
  /\ f \notin Linked /\ ~ (f = flow /\ pc["scrub"] \in {"dec", "dec_store", "next"})
  /\ Acquire("packet", b)
  /\ AppendTo(f, b)
  /\ socket' = [socket EXCEPT ![f] = packet]
  /\ cur' = f
  /\ Goto("packet", "inc")
  /\ UNCHANGED <<count, packet, sought, found, scrub>>

\* flow_add_packet locks the bucket of the flow, which may have left the table.
AddLock ==
  /\ At("packet", "add_lock")
  /\ Acquire("packet", hmb[cur])
  /\ Goto("packet", "add")
  /\ UNCHANGED <<block, fields, count, worker, scrub, chain>>

\* The packet neither closes nor drops the flow.
AddKeep ==
  /\ At("packet", "add")
  /\ Goto("packet", "unlock")
  /\ UNCHANGED <<block, mutex, fields, count, worker, scrub, chain>>

AddDelete ==
  /\ At("packet", "add")
  /\ cur \in Linked
  /\ Unlink(cur)
  /\ Goto("packet", "dec")
  /\ UNCHANGED <<mutex, count, worker, scrub>>

\* The scrubber has deleted the flow already: what this does to the links is
\* undefined (Sniffer's PktUnlinkTwice), and the process may die of it.
AddDeleteAgain ==
  /\ At("packet", "add")
  /\ cur \notin Linked
  /\ Goto("packet", "dead")
  /\ UNCHANGED <<block, mutex, fields, count, worker, scrub, chain>>

\* The end of flow_hash_new, which flow_add_packet follows, or of flow_add_packet.
Unlock ==
  /\ \/ At("packet", "unlock_new") /\ Goto("packet", "add_lock") /\ UNCHANGED worker
     \/ At("packet", "unlock") /\ Return
  /\ Release(hmb[cur])
  /\ UNCHANGED <<block, fields, count, scrub, chain>>

-----------------------------------------------------------------------------
\* The scrubber: flow_scrubber, again and again.
ScrubLock ==
  /\ At("scrub", "sleep")
  /\ Acquire("scrub", bucket)
  /\ flow' = first[bucket]
  /\ Goto("scrub", "scan")
  /\ UNCHANGED <<block, fields, count, worker, bucket, flow_next, chain>>

\* It reads the link before it knows whether the flow is idle.
ScrubLook ==
  /\ At("scrub", "scan")
  /\ flow # NULL
  /\ flow_next' = next[flow]
  /\ Goto("scrub", "delete") \/ Goto("scrub", "next")
  /\ UNCHANGED <<block, mutex, fields, count, worker, bucket, flow, chain>>

ScrubDelete ==
  /\ At("scrub", "delete")
  /\ Unlink(flow)
  /\ Goto("scrub", "dec")
  /\ UNCHANGED <<mutex, count, worker, scrub>>

ScrubNext ==
  /\ At("scrub", "next")
  /\ flow' = flow_next
  /\ Goto("scrub", "scan")
  /\ UNCHANGED <<block, mutex, fields, count, worker, bucket, flow_next, chain>>

ScrubUnlock ==
  /\ At("scrub", "scan")
  /\ flow = NULL
  /\ Release(bucket)
  /\ bucket' = IF bucket + 1 \in Buckets THEN bucket + 1 ELSE 0
  /\ Goto("scrub", "sleep")
  /\ UNCHANGED <<block, fields, count, worker, flow, flow_next, chain>>

-----------------------------------------------------------------------------
Lookup == FindLock \/ WalkOn \/ WalkHit \/ WalkMiss
PacketStep ==
  \/ \E s \in Sockets : Arrive(s)
  \/ Lookup \/ Again \/ Unknown
  \/ \E f \in Flows : New(f)
  \/ AddLock \/ AddKeep \/ AddDelete \/ AddDeleteAgain \/ Unlock
ScrubStep == ScrubLock \/ ScrubLook \/ ScrubDelete \/ ScrubNext \/ ScrubUnlock
Count == \E t \in Threads : CountRead(t) \/ CountWrite(t)
Dead == At("packet", "dead")
Stop == Dead /\ UNCHANGED vars

Next == (~ Dead /\ (PacketStep \/ ScrubStep \/ Count)) \/ Stop

Spec == Init /\ [][Next]_vars

-----------------------------------------------------------------------------
PacketAt == {"idle", "find", "walk", "missed", "new", "inc", "inc_store", "unlock_new",
             "add_lock", "add", "dec", "dec_store", "unlock", "dead"}
ScrubAt  == {"sleep", "scan", "delete", "dec", "dec_store", "next"}

TypeOK ==
  /\ first \in [Buckets -> Flows \cup {NULL}] /\ last \in [Buckets -> Flows \cup {NULL}]
  /\ elm_cnt \in [Buckets -> Nat]
  /\ mutex \in [Buckets -> Threads \cup {None}]
  /\ next \in [Flows -> Flows \cup {NULL}] /\ prev \in [Flows -> Flows \cup {NULL}]
  /\ hmb \in [Flows -> Buckets \cup {NULL}]
  /\ socket \in [Flows -> Sockets \cup {None}]
  /\ flow_cnt \in Int
  /\ pc \in [Threads -> PacketAt \cup ScrubAt]
  /\ pc["packet"] \in PacketAt /\ pc["scrub"] \in ScrubAt
  /\ reg \in [Threads -> Int]
  /\ packet \in Sockets \cup {None} /\ sought \in Sockets \cup {None}
  /\ cur \in Flows \cup {NULL} /\ found \in Flows \cup {NULL, None}
  /\ bucket \in Buckets
  /\ flow \in Flows \cup {NULL} /\ flow_next \in Flows \cup {NULL}
  /\ chain \in [Buckets -> Seq(Flows)]
  /\ raced \in BOOLEAN

\* The links of each bucket, followed in either direction, pass all its flows
\* once, between hm->first and hm->last, and hm->elm_cnt is their number.
WellLinked ==
  \A b \in Buckets :
    LET c == chain[b] IN
    /\ elm_cnt[b] = Len(c)
    /\ first[b] = IF c = <<>> THEN NULL ELSE c[1]
    /\ last[b] = IF c = <<>> THEN NULL ELSE c[Len(c)]
    /\ \A i \in DOMAIN c :
         /\ next[c[i]] = IF i = Len(c) THEN NULL ELSE c[i + 1]
         /\ prev[c[i]] = IF i = 1 THEN NULL ELSE c[i - 1]

\* A flow is in one place of one list, the list of its socket.
Apart ==
  \A b, d \in Buckets : \A i \in DOMAIN chain[b] : \A j \in DOMAIN chain[d] :
    chain[b][i] = chain[d][j] => b = d /\ i = j

Home ==
  \A b \in Buckets : \A i \in DOMAIN chain[b] :
    /\ hmb[chain[b][i]] = b
    /\ socket[chain[b][i]] \in Sockets /\ Hash[socket[chain[b][i]]] = b

-----------------------------------------------------------------------------
\* Who holds the mutex of a bucket: the thread that walks or changes its list.
InAdd == {"inc", "inc_store", "unlock_new", "add", "dec", "dec_store", "unlock", "dead"}
InScan == {"scan", "delete", "dec", "dec_store", "next"}
PacketHolds(b) == \/ At("packet", "walk") /\ b = Hash[sought]
                  \/ pc["packet"] \in InAdd /\ b = hmb[cur]
ScrubHolds(b) == pc["scrub"] \in InScan /\ b = bucket

Exclusion ==
  \A b \in Buckets : /\ mutex[b] = "packet" <=> PacketHolds(b)
                     /\ mutex[b] = "scrub" <=> ScrubHolds(b)

\* flow_hash_find is at a flow of the list it walks, and has passed no flow with
\* the socket it looks for; flow_add_packet has a flow that was once in the table.
Walking ==
  /\ pc["packet"] \in {"find", "walk", "missed", "new"} =>
       packet \in Sockets /\ sought \in Sockets
  /\ pc["packet"] \in {"find", "walk"} => found = None
  /\ pc["packet"] = "walk" =>
       LET c == chain[Hash[sought]] IN
       \E k \in 1 .. Len(c) + 1 :
         /\ cur = IF k = Len(c) + 1 THEN NULL ELSE c[k]
         /\ \A i \in 1 .. k - 1 : socket[c[i]] # sought
  /\ pc["packet"] \in InAdd \cup {"add_lock"} => cur \in Flows /\ hmb[cur] \in Buckets

\* flow_scrubber is at a flow of its bucket, or has just deleted it, and the next
\* flow it will look at is still in the list.
Among(f, c) == f = NULL \/ \E i \in DOMAIN c : c[i] = f
Scrubbing ==
  /\ pc["scrub"] = "scan" => Among(flow, chain[bucket])
  /\ pc["scrub"] = "delete" =>
       flow \in Flows /\ Among(flow, chain[bucket]) /\ flow_next = next[flow]
  /\ pc["scrub"] \in {"dec", "dec_store", "next"} => Among(flow_next, chain[bucket])

\* flow_cnt is the number of flows in all lists, the change a thread is about to
\* make included, unless two changes have overlapped: the counter has no mutex.
Pending(t) == CASE pc[t] \in {"inc", "inc_store"} -> 1
                [] pc[t] \in {"dec", "dec_store"} -> -1
                [] OTHER -> 0

CountExact ==
  ~ raced =>
    /\ Cardinality(Linked) = flow_cnt + Pending("packet") + Pending("scrub")
    /\ \A t \in Threads : Changing(t) => reg[t] = flow_cnt
    /\ ~ (Changing("packet") /\ Changing("scrub"))

\* What is true of every state, as one step after another preserves it.
IInv == /\ TypeOK /\ WellLinked /\ Apart /\ Home
        /\ Exclusion /\ Walking /\ Scrubbing /\ CountExact

\* The lookups, insertions and deletions are those of a set of flows.
Table == INSTANCE FlowTable WITH table <- Linked
ImplementsTable == Table!Spec
=============================================================================
