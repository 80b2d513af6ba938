# A TLA+ verification of minlz-rs

`minlz-rs` is a Rust implementation of the MinLZ block and stream compression
formats, with a library (`crates/minlz`) and a command (`bin/mz`). This directory
holds TLA+ modules that model its stream layer, its block encoders and decoder and the
command, TLC configurations that check them on small instances, and TLAPS proofs about
both concurrent halves, both single-threaded ones, the seeker, the index, the encoders'
use of their buffer and the command.
`PROJECT.json` says, definition by definition, which source lines each models.
Paths below are relative to `crates/minlz/src/`.

## 1. Inventory

| Component | State it keeps | Operations | Module |
|---|---|---|---|
| Concurrent writer `stream/mt_writer.rs` | input buffer, round-robin cursor, header flag, order queue, one submit channel per worker, one result channel per block, error slot, buffer pools; the writer thread's counters and index | `write`, `encode_buffer`, `flush`, `add_user_chunk`, `finish`, `drop`; `worker_loop`, `writer_loop` | `MtWriter` |
| Concurrent decoder `stream/mt_reader.rs` | dispatcher flags and totals, the same queues and pools, error slot, bytes written | `decode_concurrent` with its dispatcher, workers and writer thread | `MtReader` |
| Buffer pool `stream/mt_pool.rs` | recycled buffers up to a capacity | `acquire`, `release` | in both |
| Reader `stream/reader.rs` | block in hand and position, `block_start`, header and EOF flags, sticky error | `read`, `fill_buf`, `consume`, `skip`, `decode_concurrent`, `reset` | `StreamReader`, `ReaderChunks` |
| Seeking reader `stream/seek.rs` | a Reader, an index | `seek_uncompressed`, `read_at` | `SeekReader` |
| Writer `stream/writer.rs` | input buffer, counters, index, sticky error | `write`, `flush`, `add_user_chunk`, `finish`, `close_index`, `reset` | `StreamWriter` |
| Index `index.rs` | offset pairs, spacing estimate, totals | `add`, `reduce_light`, `reduce`, `append_to`, `load`, `find`, `index_stream` | `StreamIndex`, `SeekReader` |
| Chunk format `stream/format.rs`, `crc.rs` | none | chunk types, ranges, checksums | `ReaderChunks` (in part) |
| Block decoder `block/decode.rs` | two cursors, last offset, the padded output buffer | `minlz_decode` with its fast and its tail loop | `BlockCodec` |
| Block emitters and encoders `block/emit.rs`, `encode_l*.rs` | hash tables, cursors, last offset, bytes written | the emitters, the three searches, the decision to give up | `BlockSizes`, `BlockCodec`, `BlockSearch`, `EncodeBudget` |
| `mz` command `bin/mz/src` | options, files, the output's buffer | argument parsing; compress, decompress, follow, seek, verify, bench | `MzArgs`, `Mz` |
| Memory primitives, error types, re-exports | none | | stores and loads in `BlockCodec`, else not modelled |

How they interact: a caller's thread drives a writer or a reader. The concurrent
halves start worker threads and one writer thread and talk to them only through
bounded channels, the error slot and the pools. `Reader::decode_concurrent` hands
its input to the concurrent decoder; `ReadSeeker` drives a `Reader` and moves its
input with the help of an `Index`; both writers feed an `Index` while they write. The
stream writers call the block encoders per block and the readers the block decoder.
`mz` drives all of them between files it opens, creates and may remove.

What is hard, and what correctness means for each:

* **Concurrent writer.** Workers overtake each other; the round-robin fallback may
  hand any block to any worker; a sink, an encoder or a thread may fail while later
  blocks are queued. The wire has to be the submitted chunks in order, without a
  gap even for a caller that goes on after an error; an EOF chunk must tell the
  truth; `finish` must not succeed after a loss; every call must return.
* **Concurrent decoder.** The dispatcher reads ahead of undecoded blocks. What
  reaches the sink must be what the single-threaded Reader would return.
* **Reader.** Reads, borrowed buffers and skips in any order must agree with reading
  everything; a block that failed its checksum must stay unread; the position must
  survive skips that do not decode, since the EOF total is compared with it.
* **Seeking reader.** The fast path trusts state that failures, skips and earlier
  seeks have left behind. A seek must land on the byte asked for.
* **Writer.** Blocks cut from the buffer and from the caller's slice, flushes, user
  chunks, padding and index over a sink that may tear any chunk: what is on the
  sink must be readable, and incomplete data must be recognisable as incomplete.
* **Blocks.** A dozen encodings with limits that are off by one from each other, each
  read by two loops of which the faster moves more bytes than the operation has. What
  is emitted must decode to the data, and no body may make the decoder leave a buffer.
* **Encoders.** Positions from hash tables may be stale, foreign or zero; matches are
  extended both ways, emitted in pieces and followed by lookups at positions chosen
  anew. Stores are unchecked between comparisons with `dst_limit`.
* **`mz`.** With `--rm` it destroys the user's data on purpose. Whatever fails, and
  whenever it is killed, the data has to exist on one side; success has to mean all of
  it; and a command that follows a file must neither end nor miss anything.
* **Index.** It is thinned out in place while it grows, then encoded with
  predictions the loader has to repeat exactly.

`PROJECT.json` lists each such point as a hazard with its line and the properties
that would catch it going wrong.

## 2. The modules

**`OrderedSink`** is the promise both concurrent halves make: items are accepted,
reach the sink in the order of acceptance, and the session ends with "ok" only when
nothing accepted is missing. Three variables, four actions.

**`MtWriter`** has one action per step a thread takes between two visible events.
The caller's operations (`Write`, `EncodeBuffer`, `Flush`, `AddUserChunk`, `Finish`,
`DropWriter`) compute the chunks the call will submit; then `Prepare`, `SendOrder`,
`SubmitJob`, `SubmitFull` and their failing twins submit them one at a time, as
`submit_block` does: error slot, order send, then the submit channels from the
cursor on, and at last a blocking send. A result channel is known by the position
of its slot in the submission order, and is disconnected once no job and no result
carries the number. A worker takes, encodes (to a compressed block, a raw one or an
error), may panic, and unwinds; a panicking worker drops its job and what is queued
at it. The writer thread takes, waits, writes, fails, or finds a worker lost.
Bytes are offsets into the caller's data. Sizes on the wire are counted in chunks.

**`ReaderChunks`** abstracts a chunk to the attributes the code branches on (type, a
number, what is wrong with it; `Fits` says what can be wrong with which type) and defines the single-threaded decode of a whole
stream (`SeqResult`, `SeqOutput`) from the handlers of `reader.rs`, as the reference
the other modules are compared with.

**`MtReader`** has the dispatcher's loop with every early return, raw chunks answered
inline, workers, writer thread, and the final choice among the three results.

**`StreamReader`** is `Reader` as a state machine: `pc` says which loop of which call
is running, and one step is one chunk. The input may fail before a header or inside a
body. **`SeekReader`** extends it with an index (any set of block starts an indexer
may have kept) and the seeker's calls, which reuse its chunk steps.

**`StreamWriter`** keeps bytes on the sink (header, body and padding sizes) since the
padding and the index are about them, and lets any write or flush of the sink fail,
leaving a torn chunk. `Tally` adds up a wire's sizes, block places and data; the wire is
read back with `ReaderChunks`.

**`StreamIndex`** grows an index block by block. The two thinning loops work in place
and are steps of one kept entry each; encoding and loading are two separate actions.
Numbers stand for varints. `Sizes` are the encoded sizes a block may have.

**`BlockSizes`** has the format's limits and the size of each operation, for the three
modules below.

**`BlockCodec`** works on the bytes of a block. Its own encoder appends matches behind
waiting literals, in each of the ways the three levels choose; any match may come next,
and the data is defined by them, so that every match is one. The format's constants are
the real ones. The body, as written or damaged, is decoded an operation at a time: by
the fast loop while sixteen bytes are left, with its moves of four and sixteen bytes
into the padding, then by the tail loop. `reach` and `wrote` record how far the decoder
has read and written. Single operations too large to carry out are probed for their
layout only.

**`BlockSearch`** extends it with the real encoders: a source block, the position `at`,
the tables and one action per turn of a level's loop (`RepeatL1`, `MatchStepL1`,
`AgainL1`, `RepeatL2`, `LongL2`, `ShortL2`, `MatchStepL3` with its scored candidates, the
skips between them, `EmitRemainder`). A table is the set of positions stored in it and a
lookup may return any of them, or none that matches, so the results hold for every hash
and every collision. `BigFrom` (65,537 in the code) and `FarOffset` (65,535) are
constants, so that both variants of each encoder run on blocks TLC can afford. The run
sets them to 90 and 30: matches of four bytes are then taken up to an offset of 30 and
dropped beyond, as the code does around 65,535, and longer ones are taken at any offset.

**`EncodeBudget`** is levels 1 and 2 reduced to sizes: how far the input is covered, how
much is written, and which comparison with `dst_limit` comes before what. Any literals
and any match may come next. `BlockSearch` is shown to implement it (`KeepsBudget`).

**`MzArgs`** reads arguments one at a time as `args.rs` does: switches, values behind `=`
or taken from the next argument whatever it looks like, the command word, the input;
then the inferred command, the aliases' defaults and the conflicts. A path is a stem
with extensions. **`Mz`** turns the options into the list of steps the handler goes
through (`CompressStream`, `DecompressSeek`, ...) and takes them one by one. Files are
sequences of tokens (a unit of data, a stream's identifier, chunks, EOF and index, a
block), in any order. A stream is read chunk by chunk with the Reader's two facts, inside
a stream or not (`open`) and the units since the last identifier (`count`): the EOF chunk
ends a stream and not the file, another stream may follow, anything else behind it is an
error (`Pass`, `Broken`), and one who follows the file reads on there (`CleanEnd`). `Whole`
says without reference to the reader which files are good. The output goes through a
buffer that may pass on any part at any write, every call may fail (`IoError`), the
process may be killed at any step (`Kill`), and a followed file grows (`Grow`), past the
end of its stream too. A range is sought in a file that is one stream with its index
(`Indexed`). In others, concatenations among them, the index at the end counts from its
own stream's start while the seek counts from the file's: `Seek` may then end anywhere or
fail, and nothing is claimed of the output (`Rangeable`; `SeekReader` and section 4 have
the case in detail). The threads of the concurrent paths are `MtWriter`'s and
`MtReader`'s matter and make no difference here.

The `MC*` modules define the streams, options and indices that the runs use. The proofs
are in modules of their own that extend the module they are about:

| Module | Extends | Theorems about |
|---|---|---|
| `MtWriterProofs` | `MtWriter` | types, order on the wire, `OrderedSink`; the bytes on the wire, EOF, index, `finish`; causes of errors, number of buffers |
| `MtReaderProofs` | `MtReader` | types, order, `OrderedSink`; agreement with the single-threaded Reader; causes of errors, number of buffers |
| `SeekReaderProofs` | `SeekReader` | what the Reader's and the seeker's calls return |
| `StreamWriterProofs` | `StreamWriter` | reading back, truncation, padding, index |
| `StreamIndexProofs` | `StreamIndex` | thinning, cost of a seek, encoding and loading |
| `EncodeBudgetProofs` | `EncodeBudget` | unchecked stores of levels 1 and 2 |
| `MzProofs` | `Mz` | safety of the input, truth of the output |
| `Induction` | | induction and recursion along a sequence, for the others |

## 3. Runs

All state spaces are finite and exhausted. Bounds are constants of the modules.

| Run | Question | Why the bound is enough to be interesting |
|---|---|---|
| `mtwriter_faults` | Are the order on the wire, the index and the reported errors right when sink and encoder fail, and is memory bounded? | 2 workers, 5 blocks, one user chunk, padding and index: order queue, submit queues, the writer's hand and the caller's are full at once, so that the bounds of 5 input and 4 output buffers are reached; failures at every block |
| `mtwriter_panics` | With panics too: no gap, no silent loss, a true EOF chunk, refinement of `OrderedSink`, and every call returns | 3 bytes in blocks of 2, cut by flushes into up to 3 blocks, plus header and EOF over 2 workers with capacity-1 queues: the submit queues fill and the blocking fallback is taken |
| `mtreader_decode` | Is the sink always a prefix of, and a success equal to, the sequential decode; are memory and the call's duration bounded? | every sequence of up to 3 core chunks behind an identifier, one chunk of every broken kind between blocks, concatenations; on streams long enough to fill all queues also failing input and sink and panics |
| `seeker_calls` | Do reads, borrowed buffers, skips, resets, seeks and `read_at` in any order agree with the data and land on their byte? | all good streams of up to 2 blocks with every sound index, concatenations, one broken chunk of every kind, failing input; asks of 0 to 3 bytes around blocks of 0 to 2, targets before, inside, at and behind the end |
| `writer_sink` | Round trip, truncation, padding and index under every option and a failing sink | blocks of 3, 4 bytes, paddings 0, 2, 7, 16: gaps shorter and longer than a chunk header occur |
| `block_ops` | Do blocks of all encoders decode to their data, do both loops agree on damaged bodies, are all accesses in bounds, is the layout exact at every boundary, and do levels 1 and 2 keep to their budget? | all blocks of five words out of three, blocks with matches near and far behind 0 to 5 literals, blocks that run out of room at the end, at every level; `BlockCodec`'s own two matches with 0, 4 or 20 literals and 15 damages; single operations on both sides of every limit up to 8 MiB |
| `budget_sizes` | Do the comparisons with `dst_limit` keep unchecked stores inside the slice? | block lengths from 16 to 320 around each point where the limit, the slice or a header changes, operations on both sides of each change of size; from 448 bytes on the slack of `n / 32` exceeds what can be written between two comparisons |
| `mz_files` | Is the input safe, success honest, and does every command end or follow? | four arguments out of 31, enough for any two options with command, input and output; files of one stream and of two, cut off at the end and before another stream, damaged, with a wrong total and no index, with data behind the EOF chunk, empty, too long for a block, missing; a followed file grows from one stream into two; a fault or a kill at every step |
| `index_thin` | Do the index's invariants survive repeated thinning, and does it load back? | up to 10 blocks against a limit of 4 entries: `reduce_light` twice in one stream, `reduce` on top, odd negative predictions |

The reader modules' two-byte blocks are enough because code paths depend only on
whether a request ends before, at or after a block's end. Two workers suffice for
overtaking; what the runs cannot say about more workers, the theorems of section 5 do.

`CHECK_DEADLOCK` stays on except in `mz_files`, where the command exits: ended systems
stutter explicitly. That a command does not stop short is part of `Progress` there.

The runs of the readers have checks on (`IgnoreCrc`, `IgnoreStreamId` false); the models
also have the code's other branch. `TypeOK` is an invariant of `mtwriter_faults`.
`SinkPrefix` and `NoSpuriousError` of `MtReader` compare with what the Reader does on the
chunks read so far, which is stronger than comparing with the whole stream: nothing is
written, and nothing fails, before the Reader would get there.

**Fairness.** `FairSpec` in `MtWriter` and `MtReader` gives weak fairness to each
thread: operating system threads that can run do run, and calls into the sink, the
input and the codec return. `Mz` gives it to `Work`, the steps of the command: a process
runs on by itself. Failing calls, kills, arguments and growing files are left out of it;
so a following command may wait for ever, which it does in the code too, and `Progress`
then says that it misses nothing. Nothing makes the caller of the writer start another
operation, and nothing makes a fault happen. The channel operations need no strong
fairness: each channel has a single consumer, and a blocked sender stays enabled once
there is room, as it is the only producer.

## 4. Findings

Three runs state what a doc or a test says and are violated by the code as it is.

* `mtreader_crc`: a checksum error may reach the caller of `decode_concurrent` as
  `Other("MinLZ writer thread closed")`. The dispatcher is past its look at the error
  slot when the order queue closes, and its own error is preferred. The repository's
  test uses a single block, where the race cannot happen.
* `reader_mixed`: `decode_concurrent` is refused, as documented, only while bytes of the
  block in hand are unread. After a `skip` over a block, or once a block is used up, it
  is not, and then calls an intact stream corrupt, because the EOF total is counted from
  zero.
* `seeker_concat`: on concatenated streams `read_at(0)` may return bytes of the second
  stream: `block_start` restarts per stream, the index does not.

Seen while modelling and not given a run of their own:

* `reader.rs` 241-243 says an error is returned by every later call; a failed header
  read (260, 433) is not kept. `StreamReader` models what the code does.
* With `ignore_stream_id`, a seek after the EOF chunk fails with Corrupt: the EOF
  handler has reset `header_read` (`reader.rs` 591) and the seek path does not set it.
* A Reader takes an EOF chunk that declares 0 bytes before the stream identifier. After
  the end of such an input a seek fails with Corrupt: looking for the identifier again
  (`seek.rs` 168) it meets that chunk with the count of the whole stream
  (`reader.rs` 584). The proof of `SeeksSucceed` brought it up; TLC confirms it.
* `emit_literal_size_n` is documented to be `emit_literal`'s size. It says 4 bytes of
  header for 65,565 literals, of which `emit_literal` uses 3; level 3 scores with it and
  gives up a byte early, so no harm. `LayoutExact` states it as its one exception.
* Level 3 compares with `n - 5` before a match and not before each operation.
  `StaysInBuffer` is about levels 1 and 2; that level 3's comparisons suffice is open.
* `mz tail --follow` is always refused: the alias sets a tail, which excludes following.
* `--follow` passes its output through a 256 KiB buffer that nothing flushes: what was
  read shows up late, and is lost when the command is stopped.
* `--verify` does nothing when a stream is compressed, though the usage text promises a
  second decode; a block is verified.
* `--index` without `=` takes the next argument as its value.
* `-o` naming the input truncates it before it is read. `Mz` leaves this case out.
* `--offset` with `--tail` and `+nl` moves the start to a line and keeps the length, so
  the output goes past the end asked for; `OutputFaithful` leaves the combination out.
* `--pad` is cut to 32 bits without an error.
* `mz d --verify --follow` creates a file named `(verify)`.
* An invalid `--block-size` is found after the output has been truncated.
* Before `--rm` the output is flushed to the system, not synced to disk: `SourceKept`
  is about processes that die, not about machines that do.
* `emit_copy` is documented to choose the smallest encoding. For offsets of 64 to 1024
  it spends 5 bytes on lengths of 304 to 319, where Copy2 would take 4.
* An I/O error in the middle of a four-byte header loses the bytes already read.
* `Written.uncompressed` is documented as what `Write::write` accepted; it counts
  emitted blocks only.
* "Without `finish` ... the reader will fail" does not hold for a sink on which
  nothing was written; `TruncationDetected` says so with `wire # <<>>`.
* A data chunk shorter than its checksum is Unsupported in the concurrent decoder and
  Corrupt in the Reader. The module doc of `mt_reader.rs` (17-20) says uncompressed
  chunks go to workers; 204-229 handle them inline.
* `index.rs` documents a limit of 65,535 entries where the constant is 65,536.

## 5. Proofs

All theorems hold for every value of the constants that satisfies the named assumptions
of the modules: at least one worker, positive block size, natural bounds, streams that
are sequences of chunks which only their last can cut off, a largest block size that is
a power of two (8 MiB in the code, on which the size announced in the header depends),
and files that are sequences of tokens. The number of
workers, the streams, the requests, the files and the faults are arbitrary. The proofs have one step per action,
and under it one per conjunct of the invariant that the action can disturb. The
invariants below were checked with TLC before they were proved.

### The concurrent writer

* **`TypeCorrect`**: `Spec => []TypeOK`. `TypeOK` is not inductive: a flush subtracts
  the buffered bytes from the accepted ones, and the order send takes the head of the
  work list. `TypeInv` adds `IbufInv` for both.
* **`WireOrder`**: `Spec => []WirePrefix`. The argument is the alignment of the order
  queue with the submission order. `QueueInv`: while the writer thread runs, what it
  holds and what is queued are exactly the submitted chunks behind those on the wire.
  `JobInv`: a job or result carries the block submitted under its channel's number,
  whichever worker has it. So the result that answers the slot at hand is the next
  block (`ResultIsNext`), and a delivery keeps both facts (`DeliverKeepsOrder`).
  `OrderInv` is the conjunction of these, `TypeInv` and `CloseInv`.
* **`ImplementsOrderedSink`**: `Spec => KeepsOrderedSink`. An order send is `Accept`, a
  write is `Deliver`, the final join is `EndOk` or `EndErr`, all else stutters. A
  success needs everything delivered: that is `CloseInv`, which ties the result to the
  writer thread having drained a closed queue.
* **`SinkHasNoGap`**, **`EofTellsTheTruth`**, **`IndexPointsAtBlocks`**,
  **`FinishHidesNoLoss`**: `WireContiguous`, `EofComplete`, `IndexExact` and
  `NoSilentLoss`, from `StreamInv`. While no call has failed, `LinkInv` says that what
  was submitted, what the call has still to submit and what waits in the buffer are the
  data in order. After a failed call there may be gaps in what was submitted, since a
  caller may go on; `GapInv` is the reason none reaches the sink: a gap is always behind
  a block that can no longer be answered, and the writer thread cannot get past it.
  `NewestInv` says that a job being submitted has the newest number and nobody else has
  it, so that dropping it makes its block such a block. The rest (`HeaderInv`, `EofInv`,
  `WireInv`, `EndInv`, `IndexInv`, `ErrInv`) follows the chunks from the caller to the
  sink.
* **`ErrorsNameTheirCause`** (`ErrorsExplained`) from `CauseInv`: without panics, a
  thread that is gone was told to go or left an error, and every block the writer thread
  has still to write has a job or a result.
* **`BuffersStayBounded`** (`BuffersBounded`) from `LagInv` and `BufferInv`: jobs and
  results alive are never more than the blocks owed to the sink, and these are bounded by
  the order queue, one item in the writer thread's hand and one not yet sent.

### The concurrent decoder

* **`TypeCorrect`** and **`ImplementsOrderedSink`**, along the same lines (`OrderInv`).
* **`SinkHoldsWhatTheReaderReturns`** (`SinkPrefix`) and **`SuccessMatchesTheReader`**
  (`MatchesSequential`) from `ReferenceInv`. The reference is defined by recursion along
  the stream, while the pipeline reads one chunk at a time; the invariant therefore
  speaks of the chunks read so far, `RefInv` carries along that the recursion has one
  solution on them, and each dispatch extends it by a chunk. `MirrorInv`: until one of
  them meets an error the dispatcher's header flag, EOF flag, block limit and total are
  the Reader's. The dispatcher does not see a broken block and goes on, which the Reader
  does not: `AheadInv` and `SameInv` say that both have the same blocks up to it, and
  `UndecodableInv` that whoever carries the block behind those will answer with an
  error, so the writer thread stops where the Reader does.
* **`ErrorsAreTheReaders`** (`NoSpuriousError`) from `CauseInv`: on an input without
  faults, threads end only when told to or with an error on record, every dispatched
  block is answered for, and while the Reader has met no error nothing in the pipeline
  is broken.
* **`BuffersStayBounded`** (`BuffersBounded`): as for the writer, for the two kinds of
  buffers, of which raw blocks need only the second.

### The reader and the seeker

`SeekReaderProofs` is about `SeekSpec`, whose behaviours with `~wrapped` are those of a
plain `Reader`, with calls in any order and an input that fails anywhere.

* **`SeekTypeCorrect`**, **`BytesAreInOrder`** (`ReadsInOrder`), **`EndIsTheEnd`**
  (`EndIsEnd`), **`SkipsAreExact`** (`SkipExact`), **`OffsetIsPosition`**
  (`PositionTracks`), **`ErrorsEndTheData`** (`NoDataAfterError`), **`SeeksLand`**
  (`SeekLands`), **`IntactInputsNeverFail`** (`NoSpuriousError`), **`SeeksSucceed`**
  (`SeekSucceeds`).

A seek comes to a chunk from anywhere, so here facts about the data in front of a chunk
cannot be carried along. They are proved by induction, written as an argument from the
least chunk for which they would be wrong (`LeastNatural`, `UpTo` of `Induction`): the
library's own induction theorems cannot be used by the provers. With `Place(st, p)`, the bytes in
front of chunk `p + 1`, the invariant `SeekInv` says

* where the reader is (`CoreInv`): the place in the data and what is left of the block in
  hand end where the next chunk's data begins, and the block is a checked chunk that ends
  there (`AlignInv`); `block_start` and `decoded_pos` add up to that place within the
  stream (`TrackInv`), but for one case, `Stale`: a seek looking for the identifier
  again, where an old position is left from the stream's end, and every way to the data
  leads past the identifier that clears it;
* what it has returned (`RestInv`): how far the call in progress has come
  (`ProgressInv`), that an end reported is one (`EndInv`), that an error kept has been
  reported (`KeptInv`), and that after an error nothing is left to return (`SpentInv`).

These theorems assume `SingleStreams`: in an input given to the seeker the stream
identifiers come before the data. Without it `ReadsInOrder` is false, as `seeker_concat`
shows (section 4). The inputs of `seeker_calls` satisfy it, and inputs of a plain
`Reader` are not restricted.

The last two theorems are about inputs a Reader accepts when it reads them through. They
compare with that Reader chunk by chunk: `Ref(st, p)` is its state behind chunk `p`.
`RefPasses` says that it takes the next chunk (`Accepts`) and what that does to the four
things later chunks depend on (`Passes`): whether there has been an identifier, whether
an EOF chunk is due, the block limit and the bytes counted. The invariant `GoodInv` has

* `KnowInv`: the reader at chunk `p` agrees with `Ref(st, p)` in these four, or it is a
  seeker back at the beginning (`Searching`), in front of the identifier that will make
  them agree; and outside its loops a seeker's block limit is that of every block it may
  jump to, because a stream has one limit from its first block on (`RefMax`);
* `AnswerInv`: what the call in progress can still answer.

A chunk acceptable to the one is then acceptable to the other (`KnowsNext`), in `skip`
as in `fill_decoded` (`SkipPasses`, `HandlePasses`), and at the end no EOF chunk is due
(`KnowsEnd`). Besides `SingleStreams` they assume `Findable`, which the inputs of
`seeker_calls` satisfy too: for the seeker `ignore_stream_id` is off, and no EOF chunk
with a total comes before the identifier. Without either, seeks do fail (section 4).

### The writer

* **`FinishedStreamReadsBack`** (`RoundTrip`), **`TruncationIsDetected`**
  (`TruncationDetected`), **`PaddingAligns`** (`PaddingAligned`), **`IndexIsExact`**
  (`IndexExact`), from `SinkInv`.

The Reader is a recursion along the wire and the Writer appends to it, so the invariant
keeps the Reader's state behind the last chunk. `GotInv`: while nothing has failed, the
Reader has accepted everything on the sink, knows the block size announced, and has
counted as many bytes as the Writer. `WorkInv` says of the chunks a call has still to
write that the Reader will accept each (blocks no longer than announced, the EOF chunk
with the right total, nothing in front of the header), and that the bytes in them and in
the buffer make up what was accepted. `CountInv` ties the Writer's count of bytes and its
index to `Tally`, with what the seal has counted and not yet written owed; `PadInv` is the
remainder that the padding still to come makes up for. A failed write ends the stream
where it is, and `FailInv` keeps what was true of the torn sink. That the two recursions
exist and can be extended by a chunk is `Recursion`, `StepsExist` and `StepsAgree` of
`Induction`.

### The index

* **`IndexIsSound`** (`IndexSound`), **`SeeksStayCheap`** (`SeekCost`) and
  **`IndexLoadsBack`** (`LoadsBack`), from `ThinInv`.

While a loop thins the entries out in place, some of the vector is stale; `Live` are the
places that count, those kept and those still to be looked at, and `RisingInv` is about
them alone. `PlaceInv` (an entry is kept at or below where it was found) is why the loop
overwrites nothing it needs. For the gaps, what has been kept and what is to come obey
different bounds: during `reduce_light` the latter are within one old spacing and a block
(`LightInv`), during `reduce` what is kept is within `step` gaps (`ReduceInv`, which also
counts that no more than the limit is kept). Loading back needs that the loader's
prediction, corrected after every entry by half of the error, is the encoder's at each
entry, by induction along the entries, and that its order checks pass on entries that
rise.

### The encoders' buffer

* **`EncodersStayInBuffer`** (`StaysInBuffer`), for every block length the format has and
  all lengths and offsets. From 448 bytes on, `n / 32` is more than can be written
  between two comparisons (`LongInv`, with what a level 1 repeat may leave). For shorter
  blocks that is false, and the reason is another one: nothing is written that is not
  paid for by the bytes it covers, but for one byte behind 289 or more literals
  (`ShortInv`).

### The command

* **`SourceIsKept`** (`SourceKept`) and **`OutputIsFaithful`** (`OutputFaithful`), for
  every command line, all files and every failure, from `MzInv`.

`StepsInv` says of the list of steps left that each pair of neighbours is one the kind of
command has (`Leads`), and so what comes before "remove". `WorkInv` says, kind by kind
and step by step, what has been written and how far the input has been read: for a
compression that the output holds the units so far as chunks, then all of them and their
EOF; for a decompression that it holds the units of the tokens read, of however many
streams, and that the reader's `open` and `count` are what the file itself says of that
place (`Tracks`), so that a reader that comes to a clean end has found the file `Whole`
and one that meets anything else has refused it; for a range of a file that is one stream
with its index that the start is the one asked for, with the line boundary, and how much
is left (`RangeInv`). `FilesInv` has the files: input and output are different, no other file
has changed, and the input is gone only when the output, out of the process's buffer, has
everything. `PrefixInv` is what a command that has failed or been killed leaves.
`ArgInv` carries the option combinations that `parse` lets through.

### Only model-checked

* Liveness (`CallsReturn`, `DecodeReturns`, `Progress`): fairness and ENABLED are outside
  the prover's reach.
* `KeepsBudget`, `BlockRoundTrip`, `LoopsAgree`, `Within`, `LayoutExact` of the block
  modules: not attempted. The first needs the searches' every turn, the others the
  bytes of a block.

## 6. Not modelled, and why

* What the hash functions compute: any stored position may be found.
* The output budget of level 3 (section 4). Only one branch of `BlockSearch` never
  happens in its run, level 3's giving up on literals: it takes an output four bytes
  longer than the input covered, which no small block gives.
* The header of a standalone block (`parse_header`, `is_minlz`) and varint bytes.
* CRC-32C: only "equal or not" matters to control.
* User-chunk callbacks: they run but cannot touch the reader.
* Arguments that are refused before anything happens: a number of threads of zero in
  `decode_concurrent` (`reader.rs` 407-409), a chunk type out of range or a body too long
  in `add_user_chunk`.
* In both concurrent halves the channels' ends are dropped in one step (`CloseChannels`).
  In the code they go one after the other, with nothing in between; a thread sees only
  its own channel close, so this is the same to it as being slow to look.
* Index offsets near the limits of i64, `load_stream`, `to_json`, the header
  stripping functions.
* A chunk header split by an I/O error and retried (see section 4).
* `mz`: progress, timing, the measuring loops of the benchmark, `-o` onto the input,
  a machine that fails, and a followed file that is truncated or replaced. What a range of
  a file of several streams is (sections 2 and 4).

## 7. Plan

Done, in this order: `OrderedSink`, `MtWriter`, its proofs, `ReaderChunks`, `MtReader`,
`StreamReader`, `SeekReader`, `StreamWriter`, `StreamIndex`, `BlockCodec`, `BlockSizes`,
`BlockSearch`, `EncodeBudget`, `MzArgs`, `Mz`.

What a model could still add: the varint and chunk header codecs, the byte layout of the
index with `load_stream`, and the standalone block header.

Proved, in this order: the writer's order and refinement, the encoders' budget, the
writer's stream, errors and buffers, the decoder's, the reader's and the seeker's calls,
the index, the single-threaded writer, the command.

Next, proofs:

1. `Within` of `BlockCodec` for every body, and what `LayoutExact` probes, for every
   length and offset.
2. `KeepsBudget`: `BlockSearch`'s turns as steps of `EncodeBudget`.
