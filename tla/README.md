# A verification project for the auction server

The repository holds an auction server (`src/src/Server`), its command line client
(`src/src/Client`) and what they share (`src/src/common`). The server keeps everything in
files under `ASDIR`; one thread answers UDP requests (accounts and listings), another accepts
TCP connections and hands each to one of 50 worker threads (open, close, show_asset, bid).
Paths below are relative to the repository.

## 1. Inventory

| Part | State | Operations | Talks to | What is hard |
|---|---|---|---|---|
| Worker pool and accepting thread (`Server/worker_pool.cpp`, `server.cpp` 82-119, 180-219) | per worker: mutex, condition variable, `to_execute`, `shutdown`, `tcp_socket_fd`; `busy_threads` and its mutex; `ex_trial`, `is_shutting_down` | accept, delegate, serve, free, refuse, destroy | clients (TCP), packet handlers | two locks taken in both orders, notifications, a full pool, a stop at any moment |
| Accounts (`user_data.cpp` 44-87, `file_manager.cpp` 82-117) | `<uid>_pass.txt`, `<uid>_login.txt` | login (registers), logout, unregister, logout of everyone at the end | UDP thread writes, workers read without a lock | a crash between two files, readers in between |
| Auctions (`packet_handlers.cpp` 343-632, `file_manager.cpp` 141-209, 313-555, `auction_data.cpp`) | per auction: directory, START, BIDS, END, asset; HOSTED and BIDDED entries; `auctionsCount` | open, close, show_asset, bid, expiry on sight | workers and UDP thread, through files and one mutex per auction or user | checks outside the mutex under which the effect happens, stale snapshots, swallowed exceptions, crash and restart |
| Listings (`packet_handlers.cpp` 164-339, `file_manager.cpp` 258-311) | none of their own | myauctions, mybids, list, show_record | the files; they write END files of expired auctions | a directory that changes while it is read, races with close and bid |
| Server lifecycle (`server.cpp` 17-178, `common.cpp` 25-49) | `is_shutting_down`, retry counters of both loops | UDP loop, signals, shutdown, join | all of the above | order of shutdown, a second signal, one loop failing alone |
| Client session (`Client/`) | user id and password, sockets | the commands, UDP retransmission | server | late and repeated replies, a cancelled logout |
| Asset transfer (`protocol.cpp` 714-831, 953-994, 1174-1195, `file_manager.cpp` 150-168) | files in the working directory and in the auctions' | receive, rename, send, cancel | clients, file manager | uploads of one name at once, cut streams, leftovers, a rename that fails |
| Wire format (`protocol.cpp`, `protocol.hpp`) | the object that reads: pending delimiter, letters of ERR seen | serialize and send, deserialize and receive | everything | ids and ERR told apart letter by letter, delimiters read too early, loops, late datagrams |
| Command line and configuration (`Client/User.cpp`, `Server/server.hpp`) | none | parsing of arguments | | |

What makes each part correct: the **pool** serves every connection it takes, once, by one
worker, gives its slot back, and stops when told to. The **accounts** have no login without a
registration. An **auction** that clients know of is complete on disk; it ends once, for a
reason; accepted bids are on record and legal, and stop when the auction ends (that they rise, and that ids are given once, the code does not ensure: section 4). The
**listings** say nothing untrue and leave out nothing their client knows of. The **process** ends
when told to, after its threads, and leaves no client hanging. An **asset** is what its owner
uploaded, and so is a download of it. A **packet** is read as it was written or not at all. The
**client** believes it is logged in only if it is.

`PROJECT.json` lists, at its line, everything in this code that a test would hardly reach.

## 2. Plan

Done, in this order; each module was checked before the next was begun.

1. `ConnectionService`, `WorkerPool` and its proofs.
2. `Accounts`, `AuctionServer`, `AuctionHouse` and their proofs.
3. `ClientSession` and its proofs.
4. `ServerLifecycle`, which puts the process around the pool, and its proofs.
5. `Listings`, which puts the UDP thread's reading beside the workers of `AuctionServer`.
6. `AssetTransfer` and its proofs.
7. `Wire`.
8. `AuctionHouse_proofs` and `Listings_proofs`, and the second parts of `WorkerPool_proofs` and
   `ClientSession_proofs`.
9. `Wire_proofs`, for which `Wire` was rewritten without folds: `AcceptedIsSent` first, then
   `WholeIsRecognised`.
10. Files that cannot be opened, in `AuctionServer`, `Listings` and `ClientSession`, and auction ids
    that are given twice, in `AuctionServer` and `AssetTransfer`: with them no theorem needs an
    assumption about what clients ask or how many workers there are.

The plan is carried out; what no proof here can reach is named at the end of section 5.

## 3. Modules

| Module | Models |
|---|---|
| `ConnectionService` | abstract: a service with a number of slots, seen by its clients |
| `WorkerPool` | `worker_pool.cpp`, `main_tcp`, `wait_for_tcp_packet` |
| `ServerLifecycle` | EXTENDS `WorkerPool`: `main`, its UDP loop, signals, join and end |
| `WorkerPool_proofs`, `ServerLifecycle_proofs` | theorems about them |
| `Accounts` | the two files of each user and what the UDP thread does to them |
| `AuctionServer` | EXTENDS `Accounts`: workers, UDP thread, clock, process |
| `AuctionHouse` | abstract: what the server promises those who trade |
| `Listings`, `Listings_proofs` | EXTENDS `AuctionServer`: what the UDP thread reads and tells; theorems about it |
| `AuctionServer_proofs`, `AuctionHouse_proofs` | theorems about `AuctionServer`, and that it is an `AuctionHouse` |
| `ClientSession` | EXTENDS `Accounts`: the clients' commands and login state, UDP, the server's UDP thread |
| `ClientSession_proofs` | theorems about it |
| `AssetTransfer` | uploads and downloads chunk by chunk, the file system beneath |
| `AssetTransfer_proofs` | theorems about it |
| `Wire` | every packet, written by one side and read by the other |
| `Wire_proofs` | theorems about it |
| `MCServerLifecycle`, `MCAuctionServer`, `MCListings`, `MCClientSession`, `MCAssetTransfer`, `MCWire` | instances for TLC |

### WorkerPool

One action is one piece of code between two points where another thread can matter: taking a
mutex, waiting, or reading `shutdown` without a lock. Mutexes are not variables: worker *i*
holds its own while `pc[i]` is in serve, free or unlock, the accepting thread holds
`busy_threads_lock` while `tcpPc` is "handover"; an action that needs one of them has that in
its guard. `SpuriousWakeup` may happen at any time and is not fair. A handler is one step
(`Begin` to `Finish`): whatever it does or throws, `close` follows. `NoWorkersAvailable` closes
the connection and fails the round as in the code, and `ex_trial` counts rounds. A listen that
fails ends the thread; a connection accepted after the stop is "leaked", one whose receive timeout
could not be set "abandoned": neither is ever closed by the program.

### ServerLifecycle

The threads of the pool take their steps while the process lives (`ThreadStep`). The main thread
serves UDP (`UdpRound`, `UdpRoundThrows`: what is served does not matter here), sets
`is_shutting_down` after `RetryMax` failures in a row, leaves its loop when it finds it set, and
joins the other thread. A first signal sets the flag, a second one calls `exit`. Sockets and
addresses are set up before `Init`: a failure there ends the process before there is a pool.

### AuctionServer and Accounts

Each file is a function from users or ids; a section under a mutex writes at most one file and
is one action, so the mutexes need no state of their own. What happens without a mutex is a step
of its own: both halves of `auctionsCount++`, the checks for login and password, the look at END
in `FileManager::bid`. A worker's `AuctionData` is its variable `snap`, as old as the `getAuction`
that filled it. Reading START and then taking the mutex is one step because START is never removed.
The listings appear as `Refresh`: the END files they write. `Crash` and `Restart` start the process
again from the files.

*What fails.* Any file or directory may turn out to be one that cannot be opened, created or read
(a full disk, a full table of descriptors): `Fails`, in every section that touches one.
`safeLockAuction` and `safeLockUser` swallow what is thrown there, some calls throw nothing at all, and
the handler goes on: the file is missing and the answer is the same. `Closed` changes nothing where the
code throws because there is an END file. `getAuction` that fails, as it does when the auction has no
BIDS directory yet, leaves an `AuctionData` of uninitialized fields, which may hold any member of
`Garbage`. A login goes on without its password file (`RegisterUnsaved`) or its login file
(`SignUpUnsaved`; over a failing `LogIn` nothing changes on disk).

*Histories* record what the code does not notice, so that a property can except the request it concerns and
no other: `failed` (requests that met such a file), `unread` (requests that go on with an unfilled
`AuctionData`), `spoilt` (auctions whose START was written over, or that a request of `unread` closed or
bid on), `keyless` (users without their password file), `late` (bids that arrived when their auction was
over). Clients may name any id at any moment: `list` gives out the ids of auctions that are half open.

*The auction house.* `AuctionHouse` knows no such things, but may withdraw a lot for ever. The
refinement mapping withdraws exactly the `spoilt` ones, and shows all others as they are on disk.

Abstractions: names, assets and dates are left out (the move of the asset into place and the
reply are one step; a failed one is only logged by the code); an `asset` reply fails or succeeds
freely; requests are well-formed, since malformed ones change no state; the writing of one file is
atomic: it is there with its contents or it is not (a password file that is created and never flushed,
or an END file cut short, is not modelled). A password file that exists and cannot be opened is answered like a
wrong password and changes nothing.

### Listings

A listing is a scan: `ReceiveAsk` opens the directory, each `Look` is one turn of the loop, under the
mutex of one auction (`UpdateAuction`, then a look for END), `Tell` is the reply. Entries made during
the scan may or may not be come to, as POSIX leaves open for `readdir`. The UDP thread does one thing
at a time, so the account requests of `AuctionServer` wait. An auction that cannot be read is left out of a list, but
`show_record` shows what is then an `AuctionData` that was not filled, and active whatever it was (`Miss`;
half-open auctions among them). `wasOver`, `wasKnown` and `garbled` are histories.

### ClientSession

`uid` and `pwd` are the fields of `UserState`; `pc` is where a client is in `main`, `asked` the
request whose reply `sendUdpPacketAndWaitForReply` waits for and the tries it has left. A command
is `Ask` (the first sending), then a reply (`TakeReply`), a timeout of `select` (`Resend`,
`GiveUp`) or, after a signal, the exception of `wait_for_packet` (`Cancel`). A client takes any
reply in its socket: only the packet id is compared, and a reply with another id is consumed and
fails the command. `Leave` is the end of `main`'s loop with the logout behind it. The server's UDP
thread takes a request and does one file of it (`Serve...`), or the second (`FinishServing`), with
the same operators of `Accounts` that `AuctionServer` uses; the statuses are those of the handlers.
`open` and `bid`, which go over TCP, are one step that compares login and password (`TradeCommand`).

A datagram is a record in `toServer` or `toClient`: the sockets' queues and the network are one
set, since UDP orders nothing. What may go wrong is a set of *mishaps*, each of which is recorded
in `mishaps` when it happens: a datagram is lost or arrives twice, a client stops waiting although
its reply is still to come (a slow server is late, a dead one is not), the server is stopped or
dies and starts again, a signal cuts short a wait, a file of a login cannot be created and the login is
answered as if it had been (`ServeUnsaved`). Each property says in its premise which mishaps
it is immune to; those it is not immune to really do break it. The clients know neither
`mishaps` nor the histories `granted` and `denied`.

Abstractions: `myauctions` and `mybids`, `list` and `show_record` are one operation each, with an
answer `NLG` or one that is not; malformed packets and the `ERR` packet are left out, as clients of
this program send neither (they are in `Wire`); help, `close` and `show_asset` change no login state.

### AssetTransfer

Names lead to files and files keep their identity when renamed, as in the file system: `cwd` is the
working directory, `asset` the file in an auction's directory, `fd` the file a worker's stream has
open, which another worker may rename under it. `OpenFile` empties what it finds, `SaveChunk` writes
at the stream's own offset (a hole remains if somebody emptied the file meanwhile), `MoveAsset` takes
whatever the name leads to, to the name of the upload in the directory of its auction. Which id that
auction is given is left open (`OpenAuction`): the code gives ids twice, to two workers at once or
after a restart, and then START and an asset of the same name are replaced. `AssetOf` is what an upload finds
under its id and name, `Shared` says that its id was given again. Checks of the request come only after the file is saved, as in the code
(`Refuse`). A download announces the size it sees and sends the file until it ends; the client saves
that many bytes and then wants the delimiter. A chunk is what one `read`, `write` or flush moves; its
content is the upload it came from. `crossed` is the history of uploads that were in the working
directory together with one of the same name, `stuck` of renames that failed, `short` of those whose
last chunk was lost when the file was closed, which the code does not notice. A send fails when the client has
closed its socket, or has taken nothing for `TCP_WRITE_TIMEOUT_SECONDS`, which accepted sockets inherit
from the listening one.

### Wire

Two parties, one packet at a time: `Written` follows `serialize`/`send`, a list of calls (`ops`)
follows `deserialize`/`receive`, and there is one action per read function, with what it leaves
behind: `pending` is the delimiter that `TcpPacket::readString` keeps, `last` and `errors` are the
locals of `readPacketId`. A stream breaks off after any token, a datagram does not, but may be the
late answer to another kind of request. The server reads an id by itself (`ReadKind`) and answers
ERR to one it does not know; what its handlers throw they swallow, so that the client gets no answer
(`Drop`). Abstraction: a field is one token, so its digits, limits and padding are left out.

## 4. Runs

| Run | Shows |
|---|---|
| `pool` | the server process: all properties of the pool, the refinement of `ConnectionService`, the join, and that the process ends and leaves nobody hanging |
| `house` | two workers; two opens that get one id or race for it, a bid and a close at any moment; or two users who bid the same, while one request meets a file that cannot be opened: the `AuctionHouse`, late bids refused, accepted bids on record, or an equal one, and listed |
| `files` | files that cannot be written and two processes; two opens, one of them past the last id or both of one id, accounts that come and go; or an open, a close, a `show_asset` and the UDP thread, all of which write END; or an open, a close and a bid: what is on disk is consistent, an auction ends once, for a reason and for good |
| `listings` | lists and records of two auctions, at any moment, beside two workers, in two processes: what is shown is true and nothing known is missing |
| `clients` | two clients of one user, three commands, any one kind of mishap: true beliefs while nothing goes wrong, granted beliefs and quiet sockets through losses, restarts and signals, commands that end |
| `transfer` | three uploads of one name, of no, one and two chunks, for auctions with two ids, and a download, with everything that may cut them: whole files that stay, whole downloads, every transfer ends |
| `wire` | every request with every status and body of its answer, cut anywhere |
| `pool_drop`, `race`, `reuse`, `afterend`, `client_signal` | what a document, message or comment of the repository says and the code does not do; `findings` quotes each |

Bounds. Two workers give every race of two handlers; the third connection finds the pool full.
`RetryMax = 2` and one failing system call (`MaxErrors`) let the loops give up and also recover. `MaxTime = 1` (2 in
the violation runs) with auctions that last one second places the end of an auction before,
between and after all steps. `MaxId = 1` with two openings reaches the last id and the one past it;
`MaxBoots = 2` allows one crash or restart at any step. Each request is sent at most once, in any
order, which is what the scenarios of `MCAuctionServer` list; listings are asked for without limit. Any
request may come before, while or after its auction is opened. `MaxFailed = 1` lets one request meet
files that cannot be opened, at each of its sections, beside others that do not (`house`, `files`;
0 elsewhere, and in the theorems any number); `MaxKeyless = 1` leaves one user of two without a password file.
`MCGarbage` holds, of what an unfilled `AuctionData` may be, the number of the auction or none, and its owner or nobody.
`house`, `files` and `transfer` take up their scenarios one by one, under a CONSTRAINT of their MC
module, since together they are too many steps; equal bids and the opens of `files` come before the
clock has moved, as their properties do not look at it, and the third upload is sent to a single process. Workers are interchangeable, so
that the runs of safety properties use their SYMMETRY.
In `clients` two tries are enough for one that is repeated and one that gives up, and three commands
in all for a login, its end and another client's login, in any order; two passwords, one of them
wrong. One kind of mishap may happen in a behaviour, any number of times, except that a late and a
repeated datagram come once (`MaxKinds`, `Once`). `client_signal` allows signals only.
In `transfer` the three sizes are the cases of `readAndSaveToFile` (no turn, one, several), two ids let
two of the uploads share one, a socket
that holds one chunk makes the server wait for its client, `MaxStuck = 1` lets one rename or last write fail beside
others that do not, `MaxBoots = 2` leaves files behind for a second process. In `wire` two values for
each type of field that occurs twice in a packet tell swapped fields apart; lists have one or two rows, a record up
to three bids of which it shows two (50 in the code), so that it has fewer, as many and more.
Deadlock is not checked for `AuctionServer`, `Listings`, `ClientSession`, `AssetTransfer` and `Wire`,
whose bounded runs end; it is for the process of `pool`, where
only the explicit step `Gone` may stop the system.

Fairness. `LFairSpec` of `ServerLifecycle`: each worker thread, the accepting thread and the main thread take steps
(the scheduler); `accept` and `recvfrom` have a receive timeout of three seconds (`SERVER_RECV_RESTART_TIMEOUT_SECONDS`)
and a handler's reads have one too, so none blocks for ever. Weak fairness is
enough for the mutexes, since a worker's is held only in steps that end by themselves.
`StopEnds` and `NobodyLeftHanging` rest on it; nothing else does. `FairSpec` of
`ClientSession`: a waiting client takes a step (`select` has a timeout of `UDP_TIMEOUT_SECONDS`), and
so does the UDP thread, which does nothing but serve. It assumes nothing of the network:
`CommandsEnd` holds even when every datagram is lost, because the tries are counted. That a timeout is
"late" only once is a bound of the run; it does not hold up a client, whose datagram the fair server
and the fair `TakeReply` bring home. `FairSpec` of `AssetTransfer`: the server's own steps, timeouts
included, and a client's reading of its download do not all stop (`Proceed`); nobody has to go on
uploading, and nobody has to go on reading: a send fails after `TCP_WRITE_TIMEOUT_SECONDS`, which
`auction_server_state.cpp:92` sets on the listening socket and accepted ones inherit. That
a client comes to the end of its download is claimed only for one that reads (the second part of `TransfersEnd`). What the timeouts do not
give, and the model passes over, is the end of a header that trickles in byte by byte. `FairSpec` of `Wire`: a reader reads.

Every property of a passing run has a mutant in `PROJECT.json`: a change of one definition that a
plausible bug would make, with which TLC finds the property violated. Mutated definitions are kept
next to the originals under the comment "Mutation".

## 5. Proofs

All theorems hold for every value of the constants that their assumptions allow: any number of
workers, clients, users, requests, ids, crashes, failing files. The assumptions are those declared with
the constants, which say what types they have; no theorem has a hypothesis but the specification itself.

| Module | Proves |
|---|---|
| `WorkerPool_proofs` | `NoLostWakeup`, `NoDeadlyEmbrace`, `OneWorkerPerConnection`, `StaysUp`; the pool implements `ConnectionService` |
| `ServerLifecycle_proofs` | the process is a pool (`LSpec => Spec`); `LifecycleTypeOK`, `JoinedBeforeEnd`; it implements `ConnectionService` |
| `AuctionServer_proofs` | `SessionsHaveAccounts`, `HostedBeforeStart`, `AnnouncedIsComplete`, `EndWrittenOnce`, `SettledIsFinal` |
| `AuctionHouse_proofs` | `AcceptedIsRecorded`, `AcceptedIsListed`, `ClosedIsOver`, `EndIsJustified`, `LateBidsRefused`; the server implements `AuctionHouse` |
| `Listings_proofs` | a server that lists is an `AuctionServer`; `ShownIsTrue`, `KnownIsListed` |
| `ClientSession_proofs` | `QuietPrompt`, `BeliefWasGranted`, `BeliefIsTrue`, `OneClientPerUser`, `NoOrphanSession`, `NeverDenied` |
| `AssetTransfer_proofs` | `UncrossedIsWhole`, `UncrossedIsFinal`, `LostToAnother`, `ReceivedIsWhole` |
| `Wire_proofs` | `AcceptedIsSent`, `WholeIsRecognised` |

Each but the last also proves type correctness. The properties are seldom inductive; what follows is why they hold.

**`WorkerPool_proofs`.** That the accepting thread's target is not in `freeWorker` holds because it is
picked while `busy` is false, and `busy[i]` holds exactly while the worker has a connection or is about to
free itself (`BusyMatches`); `InHand` and `Descriptors` say where each connection is. There is one
lemma per action. For the refinement, `SlotsAreWorkers` gives a bijection between the busy workers and
the connections that the service counts as served, so that the service has a free slot exactly when the
pool has an idle worker; every step then is one of the service's or changes nothing it can see.

**`ServerLifecycle_proofs`.** Every behaviour of the process is one of the pool, so that all theorems
about the pool hold of it; `~WorkerPool` waits for each worker in turn, so that those it has passed are done.

**`AuctionServer_proofs`.** `JobOK` says what the sections behind an opening worker have left on disk;
`AccountsInOrder` says the same of the UDP thread. `EndWrittenOnce` follows from a lemma that every
step leaves the END files alone, updates or closes one; `SettledIsFinal` from the two facts that
only `WriteBid` changes bids and that `BidActive`, the only way to it, needs that END is absent. The histories
that except a request or an auction only grow (`HistoriesGrow`).

**`AuctionHouse_proofs`.** Three lemmas carry it: a worker's job changes by that worker's steps only
(`JobSteps`), histories only grow (`HistorySteps`), and nothing that is on disk goes away (`Grows`).
`RecordInv` follows a request through its handler. It has one worker; past `getAuction`, and unless it is in
`unread`, that worker has read the auction it names (`RequestAtHand`); every bid on record has a bidder who was not
turned down (`BidsHaveBidders`); and one that was accepted is still there under its value (`AcceptedIsKept`).
`TradeInv` adds what holds of auctions that are not `spoilt`: the owner in a worker's snapshot is the owner and its highest bid is
not below the start value (`ReadTrue`); a late bid is stopped at or before the look at END, which by then is there
(`LateBidStopped`); bids on disk are offers above the start value (`BidsAreOffers`), and ends have starts. No more is said of a
worker's snapshot, since other workers make it stale. In the refinement a START file is the putting up of a
lot, a bid file an offer, and a lot is over when END is there and no bid is on its way to it: a crash may
finish several at once. The step that spoils an auction withdraws it, and what the code does
with it afterwards is not seen.

**`Listings_proofs`.** The UDP thread does nothing else while it serves a listing, so that each turn of its loop
is a `Refresh`, and whatever is proved of `AuctionServer` holds beside it. `ShownIsTrue` rests on three
facts: a loop comes to an auction once; what was over stays over unless its START is written over; END files stay. `KnownIsListed` on these: an id is in
its owner's HOSTED directory when it is given out (`GivenIsHosted`), an accepted bid is in BIDDED, and
no entry goes away between the opening of the directory and the turn that comes to it.

**`ClientSession_proofs`.** The first invariant (`Orderly`) says that, unless a wait ended too early or
a datagram was repeated, a client that has not been stopped has at most one datagram under way, and that
it is the request it waits for or the reply to it, which was granted if it says so (`Single`); at its
prompt it has none (`Silent`). A client that was stopped is excluded: `Cancel` leaves its datagrams
behind, but it never asks again except to log out, and never reads. The second (`CalmInv`) adds
what holds while nothing has gone wrong: a user is logged in at the server exactly while one client
keeps him so, because it is in session, about to be told that it is, or has a logout under way (`Holds`,
`Sessions`), and the password is the one it gave. Passing these three on, from the request to the reply to the prompt and back
to a logout, is what the steps of the proof are about. It needs the sessions of users one by one, hence
the four properties together, none of which is inductive alone.

**`AssetTransfer_proofs`.** The invariant follows the files: each is in one place, under its name in the
working directory or in one auction's, where an upload of that id and name has put it (`FilesInPlace`), and
a stream only writes to a file of its upload's name (`WritersInOrder`). An upload that has met no other is
therefore alone in its file, which holds its chunks up to where it has come, loses its last writer before it
is moved, and stays in its auction's directory as long as its id is not given again (`UncrossedInOrder`); one
that finds no file was beaten to it (`LosersInOrder`). What a client has saved and what is on the wire
are then the file up to where the worker has read, and the delimiter after it (`Flowing`, `DownloadsInOrder`). A crash
or a cut closes streams and leaves the files, so that all of this survives.

**`Wire_proofs`.** The packets come first: what each writer writes (`RequestsAreWellFormed`,
`RepliesAreWellFormed`), where its tokens are (`WrittenIsLaidOut`: the letters, then spaces and fields in
turn, then the file, the newline last) and hence what a token that is met tells of its place (`Places`):
the newline is met only at the end, a field only where the text has it. The invariant then says how far the
reader has come. Either it is still at the id (`AtKind`, `Naming`), or it has left the packet it waits for
behind up to some token and holds the fields before that one (`Telling`), or it is about to confirm a
refusal (`Refused`), or its next call will fail (`Lost`: two letters of ERR and a third that fits).
That a file is read only when its size is the last field, and that a delimiter is kept only for a call
that takes it, follows from the order of the calls (`OnStream`, `OnDatagram`). No call needs
to be the right one for this: a wrong one ends the reading.

That no call is a wrong one, when the packet is whole, is `WholeIsRecognised`. Its invariant `WInv` says
that a reader of a whole packet has always one of four things before it: the whole of it (`Starting`),
the rest of its name (`OnName`), the rest of a refusal (`Confirming`), or tokens that the calls it has
left will find (`Following`). For the last, `Matches` says that calls without a choice meet tokens of their
types one by one, a date and the time after it as the two fields they are, and `Decides` what must stand where a
call makes further ones: a status, a file, the next row or the next bid, the end. One lemma per group of
packets shows that what the writer writes is what its reader's calls match: `RequestFits` for the requests,
`AnswerFits` for the replies, with `ListFits` and `RecordFits` for those with loops. Then each
call leads from a matching place to a matching place (`SpaceFinds` to `DelimiterFinds`; a list is followed
by its next row or its end, a record by its next bid, by the mark of its end or by the end). Two things
remain: the reader of a record refuses more bids than it has room for, and `BidsCounted` shows that a
writer that shows the latest bids only never gets there; and the client tells the answer that it waits
for from ERR and from the answers to other requests by the letters alone (`AnswerLetterFinds`, `RefusalLetterFinds`).

Only model-checked: liveness (`StopEnds`, `NobodyLeftHanging`, `CommandsEnd`, `TransfersEnd`,
`ReadingEnds`), which needs ENABLED. Every safety property that a passing run checks is also a theorem.
`IdsGivenOnce`, `StartWrittenOnce` and `NoBidAfterEnd` are not: the code does not keep them, as the runs
`race`, `reuse` and `afterend` show. Nor is it claimed that bids rise: with two workers `user_data.cpp:141`
compares a bid with a snapshot which a higher one may have overtaken, and no document promises otherwise.

## 6. What the documents say and the code does not

Besides the findings, which runs show, three lines of the documentation differ from the code in
ways that need no run: README.md:21 lets a signal cancel any command, but `show_asset` goes on with its
download (its packet is received with `cancellable = false`); README.md:37 has existing connections finish, but an upload
is cut when the server stops (`protocol.cpp` 733-750, `SaveChunk`); and the comment at
`file_manager.cpp:152` promises a move of the asset that line 160 only tries.

## 7. Not modelled

Parsing of the command line, help texts and printing (no state). The digits of numbers, dates and ids
and the checks of their length and alphabet, which are sequential and local. The setting up of
sockets, which fails before anything else exists. Files cut short by a flush that fails, but for an uploaded
asset; an asset sent from an `AuctionData` that was not filled, of which `AuctionServer` says only
that it may succeed or fail. Packets that no program of this repository writes,
except that an unknown id is refused. `std::map` and `std::mutex` themselves, on whose undefined uses
(`userMutexes[...]` without a lock, a mutex destroyed before the workers are joined) the hazards have
a note.
