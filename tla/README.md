# Verification of dds2mqtt

dds2mqtt joins a DDS network to an MQTT broker.  `dds2mqtt proxy` runs three
threads that hand messages to each other through bounded vectors; this directory
holds TLA+ models of that program, TLC configurations that check them on small
instances, and proofs about them that TLAPS checks.  Paths below are relative to
the repository.

## 1. The system

| part | state | operations | interacts through |
|---|---|---|---|
| **vector** (`src/vector.c`) | `cap`, `len`, `low`, `vec[]`, a mutex | alloc, free, append, insert, delete, push, pop, get, getidx, cat, cap, len | used as queue by the two clients and the receiving thread |
| **MQTT client** (`src/mqtt_client.c`) | `handleq` and its `mtx`, `running`, socket; static `rmsgq` | `mqtt_connect`, `mqtt_subscribe`, `mqtt_publish`, threads `mqtt_recv_loop` and `mqtt_loop`, `mqtt_disconnect` | appends to the DDS client's queue; reads `samples[0]` through the pointer in a handle |
| **DDS client** (`src/dds_client.c`) | `handleq` and its `mtx`, `samples[0]`, reader, writer | `dds_proxy` (start), `dds_client` (the loop of the main thread) | appends to the MQTT client's queue; fills `samples[0]`; frees handles made by the MQTT client |
| **conversion** (`src/HelloWorldMQTTTypes.c`) | none | `HelloWorld_to_MQTT`, `MQTT_to_HelloWorld` | called by both loops; uses cJSON |
| **cJSON** (`src/cJSON.c`, release 1.7.15) | trees of items | parse, print, list and object operations | called by the conversion |
| **publisher, subscriber** (`src/publisher.c`, `src/subscriber.c`) | one sample each; what the writer has been matched with, what the reader's cache holds | write one sample; take and print for ever | the other side of the DDS network |
| **command line** (`src/main.c`) | none | dispatch on `argv[1]` | starts one of the above |
| broker, nng, CycloneDDS | external | | `nng_recvmsg`, `nng_sendmsg`, `dds_take`, `dds_write` |

`dds2mqtt.config` is read by no code (README.md, "Select topics from configure file
is not supported") and `test/test.c` asserts `0 == 0`.

A message from the broker takes this way, one arrow per critical section:

    socket -> mqtt_recv_loop -> rmsgq -> mqtt_loop -> mqttq -> mqtt_loop -> ddsq -> dds_client -> samples[0] -> dds_write

and a sample from the DDS network this one:

    reader -> samples[0] -> dds_client -> ddsq -> dds_client -> mqttq -> mqtt_loop -> client_publish

Both clients' queues carry both directions, and both directions use `samples[0]`: a
handle for MQTT holds a pointer to it, not a copy.

### What is hard about it

* Three threads, polling, with two levels of mutexes on the queues and none on
  `samples[0]` or `rmsgq`'s pointer; the second thread runs before the first has
  finished setting up.
* The array of a vector is used up: a pop at the head raises `low`, and nothing in the
  proxy lowers it again.  Results of appends are ignored.
* The polling thread appends a NULL message whenever it received nothing.
* Size arithmetic in `size_t` against `int` positions, and tests made before locking.
* Failing `malloc`, payloads that do not parse or whose strings are longer than the sample's
  arrays, peers that answer or do not.

What makes each part correct: a vector is a deque, and a shared one an atomic queue;
what the proxy writes or publishes is what came in, whole, once, in order; every message
has one owner; a message that is accepted comes out; what the proxy writes does not come
back to it; the items of a text form trees, and each is freed once.  The hazards are listed line by
line in `PROJECT.json`.

## 2. The modules

| module | models | what it is |
|---|---|---|
| `Fifo` | a vector as the proxy uses it | operators on a record: entries, and the slot of the next one |
| `Proxy` | `mqtt_client.c`, `dds_client.c`, `HelloWorldMQTTTypes.c` as seen by the threads | the core: 3 threads, 3 queues, the sample buffer, both networks |
| `ProxyClaims`, `MCProxy` | | what the repository says and the code does not do; instances |
| `LossyChannel`, `ProxyChannels` | | what one direction of the proxy promises of numbered messages; `Proxy` implements it twice |
| `System`, `MCSystem` | `main.c`, `publisher.c`, `subscriber.c`, the topics of `dds_client.c` | publishers, a proxy that ends and starts again, a subscriber, the broker's clients; two `LossyChannel`s inside, and one from end to end |
| `ProxyProofs` | | theorems about `Proxy`: types and lifetime; order, ownership and the buffer; gaps; that each direction is a channel |
| `SystemProofs` | | theorems about `System` |
| `AtomicQueue` | | what threads rely on when they share a queue |
| `HandleQueue`, `HandleQueueProofs`, `MCHandleQueue` | `nftp_vec_append`, `nftp_vec_len`, `nftp_vec_pop`, the mutexes | one access per step; implements `AtomicQueue`, and the proof |
| `Deque` | | what `vector.h` offers |
| `Vector`, `VectorProofs`, `MCVector` | all of `vector.c` for one thread | implements `Deque`, and the proof |
| `Number` | numbers of `cJSON.c` | operators: double, digits, `valueint`, widths of fields |
| `JsonString` | strings between quotes in `cJSON.c` | operators: escaping, unescaping, UTF-16 literals, lengths |
| `JsonText` | `cJSON_Print`, `cJSON_Parse` | operators: a printer of trees, a parser that is fed tokens |
| `PrintBuffer` | `printbuffer`, `ensure`, `update_offset` | operators on a buffer of bytes, with what was never written, and on the chunks written into it |
| `JsonPrint` | `print_value` and what it calls, `cJSON_PrintBuffered`, `cJSON_PrintPreallocated`, `cJSON_Compare` | operators: the chunks a printer asks room for and writes |
| `TextProofs` | | theorems about `JsonString`, `JsonText` and `PrintBuffer` |
| `ItemList`, `ItemListProofs` | `next`, `prev`, `child`, names and strings of `cJSON`, the functions on lists | operators on a memory of cells, and theorems about them |
| `Items`, `MCItems` | every function of `cJSON.h` that creates, links, replaces, copies or deletes | one call per step; implements `Trees` |
| `Trees` | | what `cJSON.h` offers: items with sequences of members |
| `Convert`, `MCConvert` | `HelloWorldMQTTTypes.c`, look-up in `cJSON.c` | a sample to a payload, a payload to a sample |
| `ConvertTrees` | | `Convert`, with the payloads also printed into buffers and compared (`JsonPrint`) |
| `NumberProofs`, `ConvertProofs` | | theorems about `Number` and `Convert` |

### Proxy

`pc[t]` is the next step of thread `t`, `held[t]` its local `hd` (`msg` for `recv`).
One action is one critical section or one access to memory that another thread uses; local
computation is joined to it.  A handle is a record of its type and of the message it points
to; a handle for MQTT points to `samples[0]`, and its number only records which sample it
was made for, so that properties can compare.

* *Granularity of queues.*  `pthread_mutex_lock` .. `unlock` around the queue operations is
  one step.  `HandleQueue` justifies it: with both mutexes, or with only the vector's
  own and one taker (`rmsgq`), the accesses implement the atomic `Push` and `Pop` of `Fifo`.
* *Granularity of `samples[0]`.*  It is read and written without a lock, so it is two words
  that stand for the fields converted first and last, each accessed in a step of its own.
  Two words are enough to see a mixture.
* *Ends of the process.*  `fate` is `"exit"` after `DDS_FATAL` and `"segv"` after a NULL
  pointer is dereferenced (a payload that does not convert, found out at the first member or
  with `samples[0]` half filled; a NULL message, a NULL `rmsgq`); nothing happens afterwards.
  Payloads have strings that fit in the sample.
* *malloc.*  `mk_handle` and `nftp_vec_alloc(&rmsgq)` may fail, at most `MaxOom` times.  The
  queues of the two clients are allocated before there is a second thread and are taken to be
  there.
* *Networks.*  The broker delivers `Inbound` in order, each packet at any time after the
  subscription; a publication may be lost (`nng_sendmsg` fails and the result is ignored).
  The DDS reader keeps the last sample (history depth 1, one instance, since the type
  has no key); a sample that is not `valid_data` clears `samples[0]`.
* *Publishing.*  `mqttOut` records the two words read and the sample the handle was made for.
* *Left out.*  Printing, sleeping, freeing of memory that nothing refers to, topic names.

*Channels.*  `ProxyChannels` maps `Proxy` to `LossyChannel` once for each direction.  Inside
a channel is the set of the numbers of the messages held or queued; the oldest is the next to come out.  Every step
of the three threads loses, enters or delivers messages of one direction, or none.
A message that is written torn counts as number 0, which never entered.  Towards MQTT handles are
followed and not payloads: what is published for a handle is what `alias` and `PublishedNeverOlder` are about.

### System

Each direction of the proxy is a `LossyChannel`, whose numbers stand for the messages in `mWhat` and
`dWhat`.  Which message goes out is a matter of `shared`, what `samples[0]` holds: `ProxyTakes`, `ProxyTakesInvalid`
and `ProxyConverts` fill it, a handle for MQTT only says that something is to be published, and
`ProxyPublishes` publishes what is there.  So `OnePublicationPerSample` counts publications and
their order, and `PublishedNeverGoesBack` relates what they hold to the samples they are for.  A sample may be
published twice, in place of an earlier one, and so may a message from the broker, which goes back to MQTT that way.  The
proxy ends at any moment (`DDS_FATAL`, a NULL pointer, a signal) and takes what it holds
with it; the code keeps nothing on disk, the MQTT session is clean and the topics are volatile, so a
proxy that is started again finds nothing of it.  A publisher waits until its writer's
status says that a reader has been discovered, writes one sample and deletes its
participant; the status stays when the proxy ends, so the sample may go to nobody.  The subscriber's reader
keeps one sample and also reports writers that go (`gone`), with a sample that is not
`valid_data`.  `Main` is the dispatch on `argv[1]`.  Networks may lose everything; discovery and
delivery to a reader of another process are external.

### HandleQueue

`low`, `len` and `vec` are the fields; `len++` and `len--` are a load and a store; `vec` has a
word after its last, because the overflow test lets one entry in there.  `mtx` is the vector's
mutex, `outer` the client's.  `queue` says which of the program's queues this is: which
threads append, which take, and whether the client's mutex is used.  `AbsQueue` is the
refinement mapping: a push counts from the store of its entry, a pop from the load.

### Vector

Fields, `size_t` arithmetic modulo `W`, and every operation with its tests in the order
of the code.  `res` records the last call.  The mapping to `Deque` is the slice of `vec` from
`low`, `len` entries long.  In an empty vector `v->len-1` is the largest `size_t`, the test of
`nftp_vec_delete` passes and `len` wraps: the model makes that step, and does not follow the vector
further (`Wrapped`), which then reads and writes anywhere.  `ImplementsDeque` names this one call
(`EmptyDelete`) as the exception.  Nothing in the program deletes from a vector.

### Number, JsonString, JsonText and Convert

Every width is a constant, so that TLC runs through all numbers of all widths: the order
8 < 16 < 32 bits < 15 digits < 53 bits < 64 bits is the real one, and so, nearly, is the ratio
of 10^15 to 2^53 on which the choice between `%1.15g` and `%1.17g` hangs.  The text has
base 6 instead of 10, which like 10 is no power of 2.  A number stands for its integral part: `valueint`
drops the fraction, and both saturation tests compare with integers.

Strings are sequences of bytes.  `JsonString` follows the two passes of `print_string_ptr` (count,
write) and of `parse_string` (find the end and allocate, write), so that they can be held against each
other.  A name of a member is one character of its own, and so is the name in capitals.

`JsonText` has a text as a sequence of tokens, without white space.  The calls of `parse_value`,
`parse_array` and `parse_object` inside each other are a stack of levels, and `Feed` takes the next token as
the function on top would; what follows the value is not looked at, as in the code.  Trees have
at most three levels on the way out, which is what `HelloWorld_to_MQTT` builds.

`PrintBuffer` has a buffer as its bytes, one of which may never have been written.  `fault` records a
write beyond the end, a copy of more than there is, or a `strlen` that finds no end.  `JsonPrint` gives
an item as chunks: how many bytes `ensure` is asked for, what is written, how far the offset moves;
`Update` is a call of `update_offset`.  `Orderly` says how those printers use a buffer, and `PrintsWhole` checks it
of the chunks of each tree.  Growing buffers begin with one byte at least: with none, which
`cJSON_PrintBuffered(item, 0)` makes, growing by malloc copies one byte of an empty buffer
(`cJSON.c:499`).

### ItemList and Items

A memory maps live cells to their fields, and counts the strings allocated.  One step is one call.
A call takes what its arguments lead it to; one that fails without a change is no action, one that fails
after a change (`AddItemReferenceToObject`, `ReplaceItemInObject`) is.  `owned` is
what the client has to delete.  The client keeps to what `cJSON.h` asks: it adds and replaces with what
it owns and what is in no list, it does not make an item its own ancestor, it uses items without a
text of their own, and no references, as parents, and it keeps what a reference points to
(`SoundReferences`).  `Implements` maps the lists to the sequences of `Trees`; through a reference
the elements belong to another item, so they are not its members there.

`Convert` has one step per function, since both work on data of their own thread.  The length of
the text, escapes and digits counted, an exponent where `%g` writes one, decides whether the 256 characters that are published
hold its end.  A payload of another client is any that `MCConvert` lists.  A string of a sample is an array of
`FieldLen` bytes; `Strcpy` replaces those up to the zero and leaves the rest, so bytes of an earlier sample stay
behind it and are written.  Nothing bounds `strcpy`: a longer string leads to `"overrun"`, where the model ends,
since what it overwrites is outside the field.  When the text cannot be allocated a NULL is published with
length 256, and the model ends with `"crash"`.

## 3. The runs

| run | instance | shows |
|---|---|---|
| `flow` | 2 packets, 2 samples, `Cap` 2, no failing malloc | `TypeOK`, `MqttToDdsInOrder`, `MqttToDdsNoGap`, `OneOwner`, `PublishedNeverOlder`, `ForwardedWithinLifetime`, `MqttToDdsIsChannel`, `DdsToMqttIsChannel` |
| `live` | a message, a packet that is none and a payload that does not parse, 1 sample, `Cap` 2, one failing malloc at any point, fair threads | `OneOwner`, `MqttToDdsInOrder`, `QueuedIsWritten` |
| `null` | 2 packets, 1 sample | violated: `ClientRecvGivesMessage` |
| `alias` | 2 packets, 2 samples | violated: `PublishedIsTheSample` |
| `startup` | as `null` | violated: `ProxyStarts` |
| `queues` | two threads that each append and take under both mutexes; `rmsgq` with its one producer and consumer; `Cap` 4, 5 appends | `TypeOK`, `NoUnderflow`, `Implements`, `GivesUpOnlyWhenEmpty` |
| `vector_deque` | 2 values, `Cap` 4, positions -1 .. 5, sources of length 0 .. 2 | `TypeOK`, `OnePastAtMost`, `ImplementsDeque` |
| `numbers` | every value of each number; strings of up to two characters of every kind; any one failing allocation; some 3500 payloads of other clients, with a member or a token changed, missing or doubled, other escapes, a string too long for its array (`FieldLen` 5), or nested up to two levels deeper than the limit, 3 | `TypeOK`, `StaleBehindZeroOnly`, `ArrivesClamped`, `TextInOrder`, `TextIsClose`, `ParsesAsPrinted`, `StringsFit`, `DepthIsLimited`; and for little trees, buffers of every length: `PrintsWhole`, `ComparesAsEqual` |
| `items` | 4 cells, one key, arrays of up to 2, 2 strings, 1 reference, malloc failing at any call of `cJSON_Duplicate` | `TypeOK`, `ListsIntact`, `OnlyReferencesLeak`, `StringsBalance`, `CopyIsIdentical`, `Implements` |
| `system` | 2 publishers, 2 posts, 2 starts of the proxy, fair loops and discovery | `TypeOK`, `PostsReachSubscriber`, `OnePublicationPerSample`, `PublishedNeverGoesBack`, `PublisherEnds`, `NewestIsPrinted` |
| `wide` | the README's example | violated: `FieldsArrive` |
| `cut` | one long sample | violated: `PublishedIsWhole` |

*Bounds.*  With `Cap` 2 (`First` 0) a queue accepts three entries and refuses the rest, so a
run has states in which each queue is empty, in use, and closed for good, and the two
messages, two samples and the NULL entries compete for slots.  Two messages are what order, loss
in between and duplication need; two samples what overwriting needs.  The source's
`NFTP_SIZE` is 32: the same pattern with more slots, and the theorems hold for every `Cap`.
The queue run has `Cap` 4, so that `First` is 1, and one append more than slots.

`SizeLimit` (36) stands for `INT_MAX`: both sides of its half, where a buffer stops doubling, occur.
`Little` (14) bounds the trees that are printed byte by byte.  In `items`, four cells are a parent
with a list of three, or two lists, or three levels; one key is enough for a name that is replaced, doubled or
shared; `MaxStrings` and `MaxReferences` bound what is there at once.  Cells are symmetric, and the run
has no liveness.  In `system`, two posts and two samples are what order and duplication need, and two
starts are what a restart needs.

*Deadlock* is checked in every run but `system`, in which everybody may have ended: a state without a successor would be a set of threads that
wait for each other.  An ended process stutters (`Ended`).

*Fairness.*  `FairSpec` has weak fairness for each thread: no thread of the proxy blocks (every
call is non-blocking or a sleep, every critical section ends), and the operating system
schedules all.  The networks owe nothing, so liveness is claimed only for what is in
`ddsq` already, and only unless the process ends.  In `System` the loops of publisher and
subscriber sleep and poll, so each is fair; `Discover` is fair because DDS matches a reader and a writer
that both stay, and `PublisherEnds` asks for a proxy that stays.  Nothing is assumed of the
proxy's deliveries there.

### What the violated runs say

* `null`: `client_recv` returns 0 and a NULL message, because `mqtt_recv_loop` appends what
  `client_recv2` left, received or not (`mqtt_client.c:194-197`).
* `alias`: a sample that waits in a queue is published as whatever `samples[0]` holds by then.
* `startup`: `mqtt_loop` may call `client_recv` before `nftp_vec_alloc(&rmsgq)`.
* `wide`: `int64_test` and `uint64_test` are filled from `valueint`, so both 64-bit numbers of the
  README's example arrive as `INT_MAX`.
* `cut`: the length published is 256.  Names and layout take 214 characters; a sample with the
  values of the README's example takes 260, and its payload ends before its last brace.

Two more things the models show without a run of their own.  After a fixed number of entries every
queue of the proxy refuses all further ones, since nothing lowers `low`: `ForwardedWithinLifetime` gives the
number.  And a vector's overflow test lets one entry into the word after its array; `OnePastAtMost` says
that there is never more than that one, as long as nothing is deleted from an empty vector.

## 4. The proofs

Every safety property of `Proxy`, `HandleQueue`, `Vector`, `System` and `Convert` that a passing run checks is also a
theorem, refinements included; the exceptions are the two properties of `ConvertTrees`.  A run shows it on its
instance; the theorem for every capacity, all traffic, every set of threads or publishers, every sample and payload and
every number of failing allocations or restarts, from the assumptions that the modules
name (`CapAssumption`, `ProxyAssumption`, `HandleQueueAssumption`, `FreeAssumption`, `VectorAssumption`,
`SystemAssumption`, `ConvertAssumption`, `NumberAssumption`, `NestingAssumption`, `SizeAssumption`,
`ItemListAssumption`).  The invariants were checked with TLC before they were proved.

Loops over texts, strings and lists are recursive functions, and what they compute is proved by
induction.  The induction theorems of the library have operators as parameters, which the provers cannot
instantiate; the proofs take instead the set of the numbers for which a claim holds, and show that no number can be the
least outside of it (`LeastElement`).

**Types and lifetime** (`ProxyProofs`).  `TypeCorrect` has one lemma per thread and one for the networks.
`BoundedLifetime`: both directions together forward at most `Cap + 1 - Cap \div 4` messages in the life of the
process.  The property says nothing of what is on its way, so it is not inductive.  `LifetimeInv` adds
`SlotsCover`: what is written, published, in a thread's hands or in `mqttq` for MQTT once had a slot of `ddsq`, what
is in `ddsq` has one, and no slot is used twice.

**Order and ownership** (`ProxyProofs`).  A message passes eight stages: received, in `rmsgq`, held by `mqtt_loop`, in
`mqttq`, and so on to what is written; a sample passes as many the other way (`ToDdsAt`, `ToMqttAt`).  `OrderInv` says
that what is at a later stage is older than what is at an earlier one, and that each queue is in order in itself.
Every step of a thread hands on the newest or takes the oldest of a stage, or leaves the stages alone:
`AdvanceOrder` and `TakeOrder` are proved of any stages, and each action is an instance of one.
`WrittenInOrder` and `SingleOwner` follow: a number that is at two places would be older than itself.

**The buffer** (`ProxyProofs`).  `NeverOlder` is about `samples[0]`, which is overwritten while handles that point to it
are waiting.  `NewestInv` has a clause for each place where a word may be: both words of the buffer, the half that
`mqtt_loop` has read, what was published.  Each is as new as all samples taken, `buf[1]` is overwritten before
`buf[2]`, and what is read next is at least as new as what was read before.

**No gaps** (`ProxyProofs`).  `NothingSkipped` is the least obvious: queues do refuse messages, and still what is written has no
gap.  `GapInv` follows, at every stage, the messages that nothing holds up (`ToDdsLeading`), and the stages that let
nothing through any more (`ToDdsShut`: a queue that is full or has a NULL message in it, which will crash its taker;
a thread that holds one).  A message that still can be written has all older ones with it or ahead of it, and if nothing is shut
then nothing is missing.  Where one message is refused, the stage is shut for all later ones, since a full queue never has room
again.  Without `oom = 0` it is false: a failing `mk_handle` drops one message only.

**Channels** (`ProxyProofs`).  `ToDdsIsChannel` and `ToMqttIsChannel` map each thread's step to a step of
`LossyChannel` or a stutter.  That what is delivered is the oldest inside is `OrderInv`; that no more than it leaves
is `In` and `Hand`, place by place.  The way to MQTT needs `SampledInv` besides: every handle for MQTT was made for
a sample with a number.

**The queue** (`HandleQueueProofs`).  `QueueInv` has four parts: at most one thread is between lock and unlock, of
either mutex (`Locking`); at most one entry is past `cap` (`Bounds`, with one more while a pop has raised `low` and not
yet lowered `len`); a thread's `pos` and `reg` are what `low` and `len` are now (`Locals`).  The test of `len` in
`nftp_vec_pop` is made before the lock, and holds afterwards because there is only one taker: kept apart by the
client's mutex, or the only one (`rmsgq`).  `HandleQueueAssumption` states just that, for any number of appenders.
`LenNeverUnderflows`, `GivesUpRightly` and `Refinement`, which maps every access to a step of `AtomicQueue` or a stutter,
follow from it.  This is what justifies the granularity of `Proxy`, for every capacity.

**The vector** (`VectorProofs`).  `OnePastTheArray` and `TypeCorrect` are inductive together, with the fact that nothing wraps
modulo `W` below `2 * Cap + 2`.  `Refinement` has a step for each operation and its failures, with what shifting, copying and
moving `low` do to the slice that `Items` is.  `OnePastTheArray` and `Refinement` hold up to a delete from an empty vector, as their properties say.  The proof asked for one assumption: a source of
`nftp_vec_cat` has at most `Cap + 1` entries, as many as a vector of that size can hold; for a longer one the sum of lengths
might wrap in `size_t`.

**The system** (`SystemProofs`).  `SystemInv` says that what each direction of the proxy carries is numbered upwards (`InTurn`),
that the sample in the subscriber's cache is older than all that is still to be written (`CacheOK`), and that as
many samples were written at most as there are publishers past their write; and (`BufferOK`) that a sample in `samples[0]` is the
last one taken, no earlier than any that has been published or is to be published for.  Steps that only lose are taken together (`Fewer`).
`PostsArriveInOrder` and `SamplesArePublishedInTurn` then map the whole system to a `LossyChannel`: a proxy that ends and starts
again loses what it had, and brings nothing back.  The second is about publications, whatever they hold; `SamplesNeverGoBack`
says what they may.

**Numbers** (`NumberProofs`), for all integers, widths, bases and precisions of which `NumberAssumption` holds: the order
of the real ones, `Short` far below `Mantissa`, and `Long` digits enough for a double.  `IntArrives`: a number in the range of int
and of its field, signed or unsigned, goes through double, text, `valueint` and assignment unchanged.
`NumbersSaturate`: every other ends at the nearest int.  `ShortNumbersExact`: fewer than 15 digits are published
exactly.  `TextKeepsOrder` and `TextStaysClose` are what a reader of the payload relies on: no
greater number has a lesser text, and none is off by more than four parts in 2^53.  Rounding, to so many bits or to so many
digits, is monotone, keeps what is representable, and is off by half of a last place.  The difficulty is that
`print_number` decides for each number alone whether 15 digits do: when it takes 15 for one and 17 for a neighbour, their
order follows from the doubles that both texts are read as, and closeness has to be shown also
where number, double and text are on different sides of a power of 2.

**Strings and texts** (`TextProofs`).  `PrintStringFits` and `ParseStringFits`: the two passes of `print_string_ptr` and of
`parse_string` agree for every string, broken escapes and surrogate pairs included, so that what the second writes has
room.  `StringComesBack`: the second undoes the first.  `ObjectComesBack`: the parser, fed the text of an
object whose members are numbers, strings or objects with one string, goes through it level by level and returns that object, each
number as the double of its text; and NULL if the last brace is missing.

**The print buffer** (`TextProofs`).  `PrintsWithinBuffer`: any orderly chunks, printed into a buffer of any length,
given or growing by realloc or by malloc, give the whole text or a failure, which comes only beyond
`INT_MAX` or with less than two bytes to spare; nothing outside is touched and nothing unwritten is read.
The invariant of the loop over chunks (`PrintedSoFar`) says that the text so far is at the head of the buffer, with a Nul
behind it where a string has ended, and that the offset is at its end, or before the last chunk if `update_offset`
comes next.  Two premises: `Orderly`, which `PrintsWhole` checks of the
printers; and a buffer that malloc makes grow has not length 0, where the code does read one byte too many (`cJSON.c:499`).

**Conversion** (`ConvertProofs`).  Nothing in `Convert`'s state tells whether its payload is whole, so its properties are not
inductive.  `IInv` adds that what is published of a sample is either the whole text of its tree or one that
`MQTT_to_HelloWorld` does not get through (`WholeOrRefused`), and that what was written is a function of the payload
(`Written`).  The first is the heart: without its last bytes a text has no closing brace, and with a failed allocation a member
is missing or has no value, and each of these is refused, so that no part of a sample ever passes for one.
`AlwaysArrivesClamped`, `AlwaysTextInOrder`, `AlwaysTextIsClose`, `AlwaysParsesAsPrinted`, `JsonStringsFit`, `StaleBehindZeros` and
`TypeCorrect` follow with the theorems on numbers and texts.  `DepthAlwaysLimited` rests on
`DeepTextsFail`: by induction over the tokens of any text, the number of levels of a parser that has not failed is that of the
brackets open, and it is never beyond `NestingLimit`.

**Lists** (`ItemListProofs`).  `IsList` says that items are linked one after the other, `prev` of the first being the last.
`AddAppends`, `DetachRemoves`, `InsertPutsBefore`, `InsertBeyondAppends` and `ExchangeReplaces`: each of cJSON's
operations on lists, called with a list of any length and any element of it, leaves the sequence one expects, and
changes no link of an item outside.  `WalkFindsAll`: a loop over a list sees all elements in order and ends.  This is
what `Items` does to the lists of `Trees`, one operation at a time.

*Only model-checked.*  Liveness (`QueuedIsWritten`, `PublisherEnds`, `NewestIsPrinted`), which the prover cannot do.
`PrintsWhole` and `ComparesAsEqual`: the chunks of a tree and the comparison of two are RECURSIVE over trees of any
depth, and the prover takes no such operator.  The properties of `Items`, with `Items => Trees`, because `cJSON_Duplicate` is
RECURSIVE too; of these the theorems of `ItemListProofs` are the part that is about lists.

## 5. Not modelled

* `nftp_vec_free` and `mqtt_disconnect`, which nothing calls while threads run, and `nftp_vec_cat`
  against another thread, which nothing calls at all: there is no code to say when they would run.  The
  stubs `resize`, `mqtt_unsubscribe`, `mqtt_recvmsg`.
* Of cJSON: white space, `cJSON_Minify`, `cJSON_SetValuestring`, `cJSON_SetNumberHelper`, the
  `cJSON_Is...` tests, the allocation hooks, locales, a malloc that fails while a buffer grows.
* What the program does after memory outside an array is written: a vector that wrapped, a string too long for the
  sample.  A string of a sample from DDS that has no zero in its 256 bytes.
* Messages that the broker keeps (retained) and gives again to a proxy that reconnects; in `System`
  a post reaches the proxy when it is made, or not at all.
* Memory that is never freed (handles and texts of published samples), printing to the terminal.
* The configuration file, which no code reads, and the test, which asserts `0 == 0`.

## 6. Plan

1. `Items`: copying as a recursive function on a memory, by which its properties and its refinement come within the
   prover's reach; then that lists of different parents share no items, which is what lets the theorems of
   `ItemListProofs` be used for all lists of a memory at once.
2. `JsonPrint`: the chunks of a tree by levels, as the parser has them, and that they are `Orderly`.
3. `AtomicQueue` and `Deque` themselves: `taken \o q.items = stored`, and a deque's entries are those put in.
