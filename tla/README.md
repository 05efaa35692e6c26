# npfs: a verification development

npfs is a C library for 9P file servers (`libnpfs`), with a library that
exports a Unix directory (`libufs`), a client library (`libnpclient`), an
authentication library (`libnpauth`) and a collection of servers (`fs/`,
`xfer/`). The modules here model the part all servers share: how a request lives
from the reader thread to the reply, how fids are found, held and destroyed, how
a connection is reset, shut down and freed, and how messages are laid out; the
two file trees the library offers, one in memory and one of the host; and the
client. TLC checks small instances; TLAPS proves the invariants of the request
engine, the fids, the connection, the client and the synthetic files, and that
the client implements its promise, for every instance.

## 1. The system

### Parts, state, operations

| Part | State | Operations | Source |
|---|---|---|---|
| Request engine | `Npsrv`: queue `reqs_first`, list `workreqs`, worker threads, `reqcond`, `lock`; `Npreq`: `refcount`, `responded`, `flushreq`, `fid`; the pool of recycled requests | add, take, process, flush, respond, ref/unref | `libnpfs/srv.c`, `np_flush` in `fcall.c` |
| Connection | `Npconn`: `refcount`, `resetting`, `trans`, `fidpool`, `resetcond`, `resetdonecond` | create, read, reset, respond, shut down, incref/decref | `libnpfs/conn.c`, `srv.c`, `trans.c` |
| Fids and handlers | `Npfidpool`, `Npfid`: `refcount`, `type`, `omode`, `user` | find, create, destroy, incref/decref; the 32 handlers of `fcall.c` | `libnpfs/fidpool.c`, `fcall.c` |
| Messages | 9P layouts, with the 9P2000.u and .L variants | create, serialize, deserialize, print | `libnpfs/np.c`, `fmt.c` |
| Synthetic files | tree of `Npfile` with references, `Npfilefid` | walk, open, create, read, remove, ... | `libnpfs/file.c` |
| Users | pools of users and groups with references | lookup, add, delete | `user.c`, `uxusers.c`, `pvusers.c`, `simpleusers.c` |
| Exported tree | `Fid`: path, descriptor, directory stream, attribute data; mapped ownership in attributes | all operations of `Npsrv`; checkpoint, restore | `libufs/` |
| Client | tags, fids, unsent and pending requests, reader and writer threads | rpc, cancel, read, write, open, ... | `libnpclient/` |
| Authentication | p9any/p9sk1 dialogue | | `libnpauth/` |
| Transports, listeners | descriptors, RDMA queues | | `fdtrans.c`, `socksrv.c`, `pipesrv.c`, `rdma*.c` |
| Servers | example and special file servers | | `fs/`, `xfer/` |

### How they interact

Every connection has a reader thread. It reads messages and puts a request for
each on the server's queue. A worker takes the first one, moves it to
`workreqs`, and calls the handler for the message; the handler finds fids in
the connection's pool, takes a reference on them, and calls the file server's
operation through a pointer in `Npsrv`. When the handler returns a response
`np_respond` takes the request off `workreqs`, gives up its fid, writes the
response, then answers every Tflush chained to it, and gives the request up. A
handler may return nothing; the file server then calls `np_respond` itself,
later, from another thread. Tversion, and the end of the transport, reset the
connection: queued requests are dropped, working ones waited for, the fid pool
is freed. `np_srv_shutdown` takes all connections away.

### What is hard

Five kinds of lock (server, connection, writer, request, fid pool and fid)
protect short sections, and most of the code runs between them. So:

* a Tflush may meet its target in any state: queued, running, deferred, half
  answered, recycled;
* `np_fid_find` returns a pointer and no reference, `np_fid_create` publishes a
  fid that has no reference and no user yet;
* what a handler checked (`omode`, `type`) may be stale when the operation runs;
* the reader, a Tversion, failing writes and a shutdown all take a connection
  apart, each from its own thread;
* error paths give up references that the success paths took, and some that
  nobody took;
* the two sides of a message are written apart, three times: its size, its
  fields, and their reading;
* a file of the host is known by its path, which others rename and remove, and
  half of what is shown of it may live in attributes that are set one by one;
* the client's reader, its writer and any number of callers share two lists, and
  a connection may be lost, or a fid closed, at any point.

`PROJECT.json` lists these hazards at the lines where they bite, with the
properties that cover each, or what they leave uncovered and why.

### What makes the parts correct

* Request engine: reference counts are exact, the lock orders do not clash, a
  confirmed flush leaves nothing running, everything is answered.
* Fids: no freed fid is used; the pool holds exactly what the client holds;
  checks are not stale.
* Connection: it and its transport are freed once and not too early; no request
  runs across a reset; a reset ends.
* Messages: what one side writes the other side reads, within `msize`.
* Synthetic files, exported tree: references of files, open descriptors and
  attribute data follow the fids; failed creations leave nothing behind.
* Client: every request's callback runs once, tags are not reused too early.

## 2. The modules

| Module | Models |
|---|---|
| `NpReq` | the life of a request: queue, workers, Tflush, `np_respond`, recycling |
| `NpReqInv` | the inductive invariants of `NpReq` |
| `NpReqProofs` | the theorems about `NpReq` |
| `NpConnProofs`, `NpFidProofs`, `NpcFsysProofs`, `NpFileProofs` (`NpFileData` too), `NpUfsProofs`, `NpWireProofs` | the theorems about these modules, each with its inductive invariant |
| `NpSeqs` | lemmas about sequences and natural numbers the proofs share |
| `NpFid` | the fid pool and the handlers |
| `NpFidList` | `NpFid` with a thread that lists and checkpoints the pool |
| `NpConn` | the life of a connection: reader, reset, replies, shutdown |
| `NpcPromise` | what the client library promises a caller: the abstract specification |
| `NpcFsys` | the client: queues, reader and writer threads, tags, fid numbers, calls |
| `NpMsg` | the layouts of all messages: `np_create_*`, `np_deserialize` |
| `NpWire` | messages in a stream of bytes, and records in the reply to a directory read |
| `NpFile` | synthetic file trees with the operations of `ramfs2` |
| `NpFileData` | what one file of such a tree holds while several workers use it |
| `NpUfs` | the exported tree of the host: paths, descriptors, mapped ids, attribute fids, checkpoint and restore |
| `MCNpReq`, `MCNpFid`, `MCNpConn`, `MCNpcFsys` | symmetry sets and constants for TLC; the rest is in the `.cfg` files |
| `MCNpTrees` | `NpFile`, `NpFileData` and `NpUfs` side by side: a behaviour is one of the three |

Operators are named after the C functions they model; where a function is
several steps, the steps are named after it (`RespondMark`, `RespondUnlink`,
... are `np_respond`). Definitions whose name ends in `_something` and whose
comment says "Mutant" are faulty variants used to check that a property
notices the fault; no specification uses them.

### NpReq

One action per section of code that holds a lock. A request is a piece of
memory (`Obj`); it is live while `refcount` is not zero, `np_req_alloc` may hand
it out again afterwards, and until then its fields keep what they held, which
is what a thread that still reads it sees. `pc`, `req`, `held` and `cur` are the
threads' program counters and their variables `req`, `creq` and `freq`.
`deferred` is what the file server has to answer later: `echofs` does this for
every read, the AIO build of `fs/ufs.c` for reads and writes, and there a Tflush
may cancel the operation and answer it (`FlushCancel`).

The client is part of the model as far as tags go: `csent` is the request it
waits for under a tag, `cold` and `cnamed` what its Tflush names. It uses a tag
for one message at a time, may flush a tag it is not waiting for, and may send
several Tflush for a tag. Tags for Tflush are kept apart from the others, so
that no Tflush names a Tflush.

`ReuseInWindow` says whether recycled memory may be handed out again between
`np_req_unref(freq)` and the read of `freq->flushreq` that follows it in
`np_respond` (`srv.c:631` and `625`). The program does not prevent it. With
`FALSE` the rest of the engine is checked and proved; with `TRUE` the run
`req_reuse` shows what the window does.

### NpFid

All handlers of `fcall.c` except `np_version` (in `NpConn`) and `np_flush` (in
`NpReq`) go through the same steps: find a fid or create one, take a reference,
check it, perhaps do the same for a second fid, call the operation, give up the
second fid, and leave the first to `np_respond` (`req->fid`). A handler is a
record that says which of these it does; the thirty definitions `np_stat` ...
`np_auth` are these records, and handlers that treat fids alike are equal. The
steps `Find` ... `Reply` are the actions. `np_fid_destroy` is a step of its own,
as `np_fid_decref` has released its lock by then.

`Npfid.type` is the set of its bits. The outcome of an operation of the file
server (success, refusal, how far a walk gets) is nondeterministic; messages
refused for their contents alone are among the refusals. The references of
users, `diroffset` and the operations' own effects are left out.

`Careful` is the set of operations for which the client keeps its fids apart
(`MaySend`): it names fids it holds, creates under numbers it does not, and
opens, converts, walks in place or gives up a fid only with nothing else
outstanding on it. Without such a discipline the checks of one request are
stale for another, by design of the protocol. Three clauses steer around
defects of the error paths, listed as hazards: it does not clunk an afid, passes
no ordinary fid as afid, and sends Tunlinkat only for closed directories.

### NpConn

One connection; a message is a Tversion or something that uses a fid; the fids
are represented by the number of the pool they came from. The threads are the
reader, the workers, and one that calls `np_srv_shutdown` (with and without
`shutconns`). The reader looks at `resetting` when it has read from the
transport, not before further messages in the same buffer, and again under
`srv->lock` when it queues a request; a reset by Tversion clears `resetting`
twice, before the new pool is there and at its end. The initial states include a
connection that was refused because the server is shutting down, and a server
already destroyed. `careful` is fixed in the initial state: such a client sends
nothing between Tversion and Rversion; the other one sends what it likes,
Tversion included, so that two workers and the reader may all be resetting. A
request that the file server answers late looks to a reset like one whose
handler is still running, so deferral is not modelled again.

`EarlyShutdown` says whether a shutdown may come before the reader has taken its
own reference on the connection (`conn.c:122`). The program does not prevent
it; with `TRUE`, `ConnRefExact` does not hold.

### NpcPromise, NpcFsys

`NpcPromise` has the calls and nothing of how they are carried out: a call is
made, is answered once, with the reply to its own message or with an error, and
is taken. `NpcFsys` is the library. A step is a section under `fs->lock` or the
code between two. The unsent queue is a sequence and the pending list a set;
where the code's pointers disagree with them (`npc_write_proc` leaves the `prev`
of the new head, `npc_read_proc` an `unsent_last`) the model has `stale`, and
`broken` when such a pointer is written through, after which nothing is
modelled. The refinement mapping is `place <- call`: `call` has in each place,
`npc_rpc`'s own or one part of an `npc_readnb`, what was asked and what came.

The server is external: it answers each request once, in any order, with
success, a short walk or an error, and a Tflush stops what it names or comes too
late. Contents are left out, so `npc_write` is as `npc_read`. `careful` is fixed
in the initial state: careful callers close a fid with nothing outstanding on
it. The others are modelled as well, and what they get is as promised; but
`npc_cancel_fid_requests` leaves the requests it flushes unanswered for ever, so
their calls need not end.

### NpMsg, NpWire

A packet is the sequence of its fields with their places and widths; a field
holds its name, and a number only where it is a length or a count. Lengths are
those the code can count: `NpWireAssumption` bounds a string so that its own
2 bytes and those of a stat with five strings hold its length, the elements of a
walk by their 2 bytes, and data so that the size of a packet is an `int`. So the
layouts, the order of the fields and the sums that give the sizes are those of
the code, for every kind of message, and the values are not there.
`np_deserialize` reads at a place what lies there: the field, if kind and width
agree, otherwise some number out of `Junk`. An overflow is what
`buf_check_size` makes of it.

`NpWire` sends messages (which may lack some bytes at the end, when another
program has made them), delivers them in pieces and takes them out of the buffer as the loop of
`np_conn_read_proc` and `npc_read_proc` does. A piece may end at any byte
(`AnyStop`); TLC runs with pieces that end around the length and the end of a
message, where the loop tells them apart. Another initial state is a server
that packs records into the reply to a directory read.

### NpFile, NpFileData

`NpFile` has the files with their counts, the lists of the directories, the fids
and the workers; a step is a section under the lock of a file or the code
between two. Where the code forgets a reference (`npfile_create` when the name
exists, a refused open of a directory) or gives back one it never took (a walk
to `..`) the model counts it in `lost` and `owed`, so that `RefExact` says that
there is no other such place. `polite` clients do not walk to `..` or from a file
that is no directory, rename, remove the root or a file others use, or create
two files of one name at a time; the comment at `Polite` is the list, each item
being a place where the code follows a bad pointer, stops for ever or loses a
name. `NpFileData` has the length, the allocated size and the blocks written of
one file, a block being the unit; a truncation may fail, and is then undone;
`gentle` clients do not begin to use the file while it is truncated.

### NpUfs

The host is external: a tree of inodes and a table of descriptors, with calls
that may fail at any time. A fid knows its file by its path. A handler is one
step, except that the mapped attributes are set one after the other, each of
which may fail. `Shown` is what a client can learn through a fid; the handlers
that only tell something (`npfs_getattr`, `npfs_readlink`, ...) are operators
there. `ufs_restore` is a checkpoint, the end of the server and the restore by
another one, through the serialized bytes: the fields with their lengths, the
size computed beforehand, the overflow checks on both sides.

`calm` clients do not remove, rename or create anew what another fid is on,
leave a file alone until it was made, and use a fid that holds a descriptor for
nothing but what it was opened for. The first request that is not calm is a
step of the model, and the last one. What is excluded is known to go wrong:
`Tlopen` on an open fid and `Tunlinkat` followed by a walk lose descriptors, a
rename leaves the paths of other fids behind, `npfs_setattr` writes back a type
it has read before the file was complete.

## 3. The runs

| Run | Result | Instance |
|---|---|---|
| `req` | passes | 3 requests, 2 workers, 1 completing thread, 2 tags, 2 Tflush tags; symmetric in requests and workers |
| `req_live` | passes | the same with 1 tag and 1 Tflush tag, fair threads, no symmetry |
| `req_late` | violated | as `req`, 1 tag |
| `req_reuse` | violated | as `req_late`, recycled memory may be reused at once |
| `fid` | passes | 2 numbers, 2 fids, 2 requests at a time; symmetric in all three |
| `fid_einuse` | violated | 1 request at a time, a client that walks to numbers in use |
| `fid_list` | violated | 1 request at a time and the checkpointing thread |
| `conn` | passes | 2 requests, 2 workers, 3 pools, both kinds of client |
| `conn_reset` | violated | the same |
| `client` | passes | 2 callers, one with a read in 2 parts, 2 tags, 1 fid number |
| `wire` | passes | every message of the three protocols with strings of 0 and 3 bytes, walks of 0, 3 and 4 elements (3 are the most here), data of 0 and 5 bytes; 2 messages, the first lacking 0, 1 or 4 bytes; buffers of 28 and 198 bytes |
| `trees` | passes | 2 fids, 2 workers, 2 names; 2 files besides the root, files of 2 blocks; 1 inode besides the root, 2 descriptors; symmetric in fids, workers and names |

What the passing runs check:

* `RefExact`: a request has one reference for the single place that still has
  to answer or drop it, and one for every `np_flush` holding it.
* `LockOrder`: a request whose lock `np_respond` holds while it may want
  `srv->lock` is on no list through which the holder of `srv->lock` gets to
  that request's lock.
* `FlushedNotListed`: when an Rflush is written the request it confirms is
  neither queued nor worked on.
* `EveryRequestSettled`: every request is answered or flushed, every Tflush
  answered.
* `NoDangling`, `GrantedKept`, `NoCorpse`, `ChecksHold`: no handler is left with
  a freed fid; a fid the client holds stays in the pool, constructed and
  referenced; when all is quiet the pool holds the client's fids and nothing
  else, each with one reference; what a handler checked is still so when the
  operation runs. `NoCorpse` and `ChecksHold` are for the clients of `MaySend`:
  they say that the handlers do not stand in each other's way, and nothing of
  the interference those clients avoid.
* `ConnRefExact`, `TransOnce`: the references of the connection are exact and
  it is freed when they are gone; the transport is destroyed once.
* `HandlerInSession`: with a careful client a handler runs with the pool the
  connection had when its request was read.
* `VersionWoken`: with a careful client the reset of a Tversion does not sleep
  with nobody left to wake it.

* `PromiseKept`: the client implements `NpcPromise`.
* `TagsApart`, `FreeIdUnused`: requests on their way, at the server too, have
  different tags, all of them in use; a fid number that is free is unknown to
  the server and will stay so.
* `QueueSound`: no stale pointer is written through while the connection lives
  and callers are careful.
* `CallsEnd`: every call of a careful caller ends, also when the connection is
  lost, except one queued after the reader had emptied the queues (`Late`,
  `fsys.c:442`) and one of an `npc_readnb` that failed in its first part and
  locks itself out (`read.c:201`).
* `RoundTrip`, `RefusedRightly`: what is made is read as it was made, and only
  faulty messages are refused; except Rgetlock, the Rerror of
  `np_create_rerror1` and, with 9P2000.u, Tauth, whose two sides disagree.
* `Framed`, `CutSeen`: messages are taken out of the stream whole and in order;
  one that lacks its end is noticed unless it ends where a field does.
* `Filled`, `AllMade`: sizes are the sums of the fields, no more (except
  Rstatfs and `np_create_rerror1`) and no less (except Tsetattr, which
  therefore cannot be made at all).
* `DirWhole`: records of a directory read are whole and found again, except
  that an empty last string may be lost.
* `RefExact` of `NpFile`, `PoliteSafe`, `TreeSound`, `DirAll`: counts of files
  are exact but for the known leaks; polite clients never make the server
  follow a bad pointer, find two files of a name, or files in a removed
  directory; a directory read to its end returns all that was there
  throughout, unless the file to be read next was removed. What impolite clients
  meet (a walk to `..`, two requests about one name) is not excluded by the code
  and by no property.
* `CopyInside`, `WriteKept`, `ExclOnce`: copies stay inside the data; what was
  written stays; one fid at most has the file open exclusively. The first two
  are about the lengths each operation computes: they except writes that were
  overtaken after they had looked at the length, which the code does not
  protect.
* `FdOwned`, `MappedWhole`, `RestoreSame`: every descriptor has one owner and is
  on the file its fid names; a file made with mapped ids has all its attributes
  and is shown as what it was made as; a restored connection shows the same
  through every fid.

What the violated runs show (details with the findings in `PROJECT.json`):

* `req_late`: `np_respond` unlinks before it writes, so the reply may follow the
  Rflush. The client library reuses the tag after the Rflush.
* `req_reuse`: following `freq->flushreq` after giving `freq` up may end in
  another request's chain and in a failed assertion.
* `fid_einuse`: a Twalk refused because newfid is in use destroys the fid in
  use.
* `fid_list`: a checkpoint meets a fid without a user and fails its assertion.
* `conn_reset`: a reset frees the fids while an `np_respond` is still using one.

**Bounds.** Three requests are one target and a chain of two Tflush, or a
request, its Tflush and a request that reuses its tag; two workers and one
completing thread let a Tflush, its target and an answer overlap; more workers
repeat the same meetings, and the theorems remove the bound. Two requests at a
time are what it takes to disturb a fid between two steps of a handler, and a
handler names at most two fids. In `NpConn` two requests are one that is being
worked on or answered and a Tversion, or two Tversion; `MaxPools` = 3 allows two
resets by Tversion before the final one. In `NpcFsys` two callers are one that
waits and one that closes, or an `npc_readnb` and a close; two tags run out. In
`NpWire` the lengths are one of zero and one that is not, 28 bytes are less than
two messages, 198 more than any; a second message is what framing takes, and the
theorems remove these bounds and let a piece end at any byte. In the
trees two workers are the meeting of two handlers, two files are a directory and
one inside or beside it. In `NpUfs` one inode besides the root means that there
is no file inside a directory other than the root: nesting matters only when a
directory is renamed or removed under a fid, which calm clients do not do. Two
descriptors let both fids be open and let a third open fail.

**Fairness** (`req_live`). Weak fairness for every worker and every completing
thread: each is a thread, and its lock sections end. Strong fairness for each
deferred request being taken up by a completing thread: a file server that
defers a request comes to it in the end, though it may have others to answer
first (completing threads are busy in between, so weak fairness would not do).
No fairness for the client. Deadlock is checked where the system may not stop;
in `NpConn` it does stop, when the connection is gone, and so it does in the later
modules, when a connection is lost, all messages are read, or a bad pointer is
followed.

In `client`: weak fairness for the caller's way through the library, the writer
and the reader, which are threads, and for the end of reading once the transport
is gone; strong fairness for the server's answer under each tag, as the reader
takes other replies in between. None for what the application begins, and none
for losing the connection.

## 4. The theorems

Each holds for every value of the constants that satisfies the named assumption
of its module.

### NpReq

For any sets of requests, workers, completing threads and tags, with
`ReuseInWindow = FALSE` (which `req_reuse` shows is needed):

* `TypeCorrect`: `Spec => []TypeOK`; reference counts are natural numbers, so none
  goes below zero.
* `RefCountsExact`: `Spec => []RefExact`.
* `LocksOrdered`: `Spec => []LockOrder`.
* `FlushedConfirmed`: `Spec => FlushedNotListed`.
* `CountNeverBelow`: `Spec => []AssertRefcount`, the property that `req_reuse`
  shows violated with `ReuseInWindow = TRUE`: the window is the only way to the
  failing assertion.
* `Invariance`: `Spec => []IInv`, from which all but `FlushedConfirmed` follow.

`RefExact` alone is not inductive: that giving up one reference leaves the right
number needs that a request has one owner. The parts of `IInv` (`NpReqInv`) say
this owner by owner: `QueueInv`, a queued request is in nobody's hands;
`DeferInv`, a deferred one is on `workreqs` and with no thread; `ThreadInv`, what
a thread has in its hands at each location, and that no two threads work on the
same request; `ChainInv` and `ReachedInv`, a chained Tflush is linked from one
place, or is the one an `np_respond` has come to, and is nowhere else; `WorkInv`,
whatever is on `workreqs` is worked on, deferred, or chained to something that
is. `RespondUnlink` is the difficult step: the chain it takes off `workreqs` is
the least set closed under `flushreq`, and `ChainInv` with `WorkInv` is what says
that the set is exactly the Tflush requests that go with the request.
`NpReqProofs` first states what an owner excludes, then how each kind of step
moves ownership, and proves one lemma per action.

`FlushedNotListed` relates what the client was told to the server's lists, and
needs `ClientInv` on top of `IInv`. `AskInv`, `OpInv` and `NamedInv` tie the
client's view to requests that are not answered; `LinkInv` says that what is
chained to a request are Tflush for its tag; `TailInv` follows the part of a
chain that an `np_respond` has still to answer: after the reply, what each Tflush
in it named is done. The two parts that are easy to miss concern order.
`BeforeInv`: whatever is queued under the tag a Tflush names was queued before
it, so a Tflush taken by a worker whose request is still listed cannot drop
another request of that tag in its place; it rests on the queue being FIFO and
on the client not using the tag of a request again while that request is listed.
`ClosedInv`: once `np_flush` has decided not to link a Tflush, what it named is
listed nowhere. TLC agrees with every part on the instance of `req`
(111037 states).

### NpConn

For any finite sets of requests and workers (the server starts a fixed number of
threads, and every request is in memory) and any number of pools:

* `TypeCorrect`; the count of the connection never goes below zero.
* `ConnRefExactAlways`, `TransOnceAlways`: `ConnRefExact` and `TransOnce`, if no
  shutdown comes before the reader has its own reference (`~EarlyShutdown`); the
  code does not prevent that, and without it the count is one short.
* `HandlerInSessionAlways`, `VersionWokenAlways`.

`ConnInv` is the invariant. The count is a sum over the requests, so its part
`CountInv` is stated with a cardinality and the lemmas say how the set of holders
changes; it needs that every request is in one place (queue, worker, or free).
That a handler has the pool of its session needs more about the reset: who may
be resetting at a time, that a careful client has nothing outstanding but the
Tversion it waits for (`SessionInv`, `AwaitInv`, `AloneInv`), and which pool each
request was read under (`BornInv`).

### NpFid

For any sets of fid numbers and places in memory and any finite set of requests,
if clients keep to `MaySend` for every operation (`Careful = Operations`; a fid
number one message creates, changes or gives up is in no other message at the
time) and `srv->clone` does not fail (`CloneFails = {FALSE}`):

* `TypeCorrect`; the count of a fid never goes below zero.
* `NoDanglingAlways`: no request holds a pointer to a fid that was freed.
* `GrantedKeptAlways`: a fid the client holds is in the pool, constructed, with
  the pool's reference.
* `NoCorpseAlways`: when no request is in progress the pool holds the client's
  fids and nothing else, each with one reference.
* `ChecksHoldAlways`: what a handler has checked of its fids is still so when the
  operation of the file server runs.

Both conditions are needed: `fid_einuse` shows what a client that is not careful
meets, and a clone that fails takes the count of the new fid from zero to -1
(`fcall.c:322`). `FidInv` is the invariant. `OwnInv` says what a careful client
brings about: a number that a request creates, changes or gives up is named by no
other request. `ShapeInv` says, location by location, that the pointers a handler
has are those the pool has under the numbers of its message, and `SeenInv` that
what it checked of them, and what the client was told, is still so. `CountInv`
makes the count of a fid the number of requests that hold it plus the reference
the pool keeps; so it reaches zero exactly where the fid is to go, and nobody but
the request that gives it up has a pointer to it then.

### NpcFsys

For any sets of callers, tags, fid numbers and files and any number of parts of
an `npc_readnb`:

* `PromiseRefined`: `Spec => PromiseKept`. The client implements `NpcPromise`:
  each call is answered at most once, with the answer to its own message or with
  an error, whether callers are careful or not.
* `TypeCorrect`, `TagsApartAlways`, `FreeIdUnusedAlways`, `QueueSoundAlways`.

Every step maps to a step of the promise or to none. The difficult step is the
reply: the reader finds a request by its tag, and that it is the one the server
answered needs that tags of unsent and pending requests, and of what is at the
server or on its way back, tell them apart (`TagInv`), and that a place of a
caller is asked for by one request at a time (`AskedInv`, `OnePlace`). These hold
only with the life of tags (`SlotInv`), with what the server still has to answer
(`SrvInv`) and where each caller is (`CallerInv`). `FreeIdUnused` rests on
`FidInv`: a fid number has one owner, and client and server agree on it or a
message is on the way that will make them agree. `CareInv` is about careful
callers: nothing is cancelled for a fid with something outstanding, so no stale
pointer is met. What `npc_cancel_fid_requests` leaves of the unsent queue is
`Without`, a recursive function, as the proof system does not expand the
library's `SelectSeq`.

### NpFile

For any finite sets of fids and workers, any names and any number of files:

* `TypeCorrect`, `RefExactAlways` and `DirAllAlways`, whatever the clients do;
* `PoliteSafeAlways` and `TreeSoundAlways`: with polite clients no null or
  dangling pointer is followed, names in a directory differ and a removed
  directory is empty.

`TreeInv` is the invariant, in three parts. `ShapeInv` holds in every state: the
list of a directory has no file twice and agrees with the parents of its files
(`ListInv`), a fid is in the hands of one worker, which has what its operation
needs (`WorkInv`), and what a read of a directory still owes comes at or behind
the entry it goes on with (`ReadInv`, from which `DirAll` follows). `RefExact` is
inductive with it, as long as nothing dangles; after that the model stops.
`PoliteInv` is what the politeness buys: nothing is owed, a fid is on the root or
on a listed file unless its worker has just removed it, whoever is removing a
file is alone with it and finds it empty, and whoever creates a file still finds
the name free. With exact counts this gives that a file is freed only when
nobody points to it (`FreedAlone`).

Most actions leave the lists alone and change one fid and one worker. For them
`StepKeeps` reduces the three parts to three facts about the action: that the
shape of that fid and worker is right (`ShapeStep`), that the counts of the files
change by what the fid and the worker gain or lose (`FileStep`, with `Net` and
`Delta`), and what is asked of polite clients (`PoliteStep`). The two actions
that change a list are described by `Makes` (`rfs_create`) and `Unlinks`
(`rfs_remove`), with the lemmas `AddedOne` and `RemovedOne` about the order of
the list, and each part is shown for them directly.

### NpFileData

For any sets of workers and fids and any `MaxLen`: `WriteKeptAlways`,
`CopyInsideAlways`, `ExclOnceAlways`. `DataInv` relates what a worker has read of
the length to the length now; `ExclInv` says who may be the one exclusive user
between the check in `npfile_open` and its close.

### NpUfs

For any finite set of fids, any names, any number of descriptors and at least two
inodes (`NpUfsAssumption`: the root and the file the host may hold at first; a
connection has finitely many fids):

* `DescriptorsOwned`, `FilesWhole`: `Spec => []FdOwned` and `[]MappedWhole`,
  whichever calls of the host fail and wherever handlers stand between two
  attributes of a file.
* `RestoredSame`: the action property `RestoreSame`.

`UfsInv` is the invariant (`UfsInvariant`), for the time in which the clients are
calm. None of the properties is inductive: that a descriptor is on the file its
fid names is kept by a rename, an unlink or a create elsewhere only if paths are
ways in a tree. So `Tree` says that a directory has one name, and with mapped ids
every file; `Roots` that a directory without one is empty; `Kept` and `Gone` that
the host keeps what has a name or a descriptor. `Descs` says who holds a
descriptor, `OnFile` what it is open on. `JobOn` says of a handler that is making
a file that the file is still at its path, with the attributes that were set and
no others missing than those still to be set; `Apart`, that nobody else stands on
that path, which is what the clients' calmness keeps. `Whole` gives `MappedWhole`.

The parts are predicates of a tree, a table of descriptors and the fids, and
lemmas say what one change does to them: a name is entered, removed or moved
(`NameEntered`, `NameGone`, `NameMoved`), a fid moves, opens or drops something
(`FidMoves`, `FidOpens`, `FidDropped`), a job begins or ends, the host sweeps.
Each handler is a few of these, one after the other, and has a lemma named after
it. `AllPaths` is the induction on the length of a path they use.

For `RestoreSame` the bytes of a checkpoint are followed for any number of fids
and any length of path: `Laid` and `Marks` say at which offset each field and each
record lies, `SizeIs` that the last offset is the size computed beforehand,
`Checkpointed` and `ReadBack` that neither side overflows and that what is read is
what was put. This is again an induction on numbers (`LeastNat`: a set of
numbers that is not empty has a least one), over recursive functions. `Single`,
a fid has one file or one directory open, is an invariant of its own: it makes
the one descriptor that a restored fid gets show all that the old fid showed.

### NpWire

For buffers of any size, strings, walks and data of any length the code can count
(`NpWireAssumption`), any number of messages, pieces that end at any byte,
messages that lack any number of bytes, and whatever numbers misread bytes give:
`WireTyped`, `WireFramed`, `WireAllMade`, `WireFilled`, `WireRoundTrip`,
`WireRefused`, `WireCutSeen`, `WireDirWhole`, all the invariants the run checks.

`Inv` of `NpWireProofs` is the invariant (`WireInvariant`). `PlaceInv` says that
the buffer starts at the first byte of the message that is read next; `LoopInv`,
that the loop waits only for a message that is not whole and gives up only for a
reason; `SeenInv`, that what was read is `np_deserialize` of what was sent, one by
one. `SentInv` says of each packet that it is `Sound`: whatever numbers misread
bytes give, a whole packet is read with every argument in its member (but for the
messages the two sides lay out differently, `NotAlike`), and one that came short
is refused unless it ends where a field does. `Framed`, `RoundTrip`,
`RefusedRightly`, `CutSeen` and `Filled` follow from these.

That every packet `np_create_*` makes is `Sound` is `GoodMade`. It compares what
each message puts with what `np_deserialize` gets for its type: `Matched` says of
two lists of fields that one is read as the other is put, field by field, and in
how many bytes, and `MatchedCat` lets the layout of a message be put together
from those of its parts (a qid, a string, a stat, the elements of a walk). A fold
over a matched layout then finds each field at its place or stops with it. These
are inductions on the number of fields over recursive functions; the prover has
no induction over sequences, and `LeastNat` of `NpSeqs` serves instead.
`StartGrows` and `StartAppend` are the same for the packets in the stream.
`StatWhole` and `DirentWhole` show of the two kinds of directory records that what
fits is read back where it was put, except for an empty last string of a stat,
which `DirWhole` allows.

### Only model-checked

* The liveness properties (`EveryRequestSettled`, `CallsEnd`): their proofs need
  fairness and ENABLED, outside the prover's reach.

## 5. The plan

In this order:

1. `NpReq`, its invariant and proofs; `NpFid`; `NpConn` (done).
2. The client and its promise; messages; synthetic trees; the exported tree with
   checkpoint and restore (done).
3. Theorems about `NpReq`, `NpConn`, `NpFid`, `NpcFsys` (the refinement too), `NpFile`,
   `NpFileData`, `NpUfs` and `NpWire` (done).
4. `NpReq` and `NpConn` together, for a Tflush that meets a reset.

## 6. Not modelled

* Authentication (cryptography and an external server), transports and
  listeners (input and output; `NpConn` has what a transport is to a
  connection), printing of messages (`fmt.c`), error strings, the Windows
  thread layer.
* Worker confinement and the change of the worker's user: they decide which
  files of the host a path means and whether a call is allowed, and the host's
  calls in `NpUfs` may fail anyway. The user pools: tables under a lock.
* The servers under `fs/` and `xfer/`, except `ramfs2` and how the others answer
  deferred requests. `fs/ufs.c` and `xfer/ufs.c` are earlier forms of `libufs`.
* In the client: mounting, the growth of the id pools. In the trees: times,
  owners, permissions, the contents of files; in `NpUfs` Tlink, which the host
  always refuses as `npfs_link` names the directory itself.
* Some paths on which the program stops or reads what is not there: a Tclunk
  whose removal (Orclose) fails without a reply (`fcall.c:589`), a count of
  2^31 or more in a message no `np_create_*` makes (`np.c:65`), `npc_create` after
  a failed walk (`open.c:78`). Walks of more than 16 elements, which the client
  sends as several Twalks.
* Several connections sharing the queue: each request belongs to one, and the
  code compares `req->conn` wherever it looks at the lists. Memory exhaustion,
  but for `file_truncate`.

Each component's status is in `PROJECT.json`.
