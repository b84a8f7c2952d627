--------------------------- MODULE AssetTransfer ---------------------------
(***************************************************************************)
(* Assets on their way: uploads that workers save in the working directory *)
(* of the server under the name the client gave, and move to the directory *)
(* of the auction; and downloads of what is there                          *)
(* (src/common/protocol.cpp, src/common/file_manager.cpp).                 *)
(*                                                                         *)
(* The file system is explicit: a name leads to a file, a file keeps its   *)
(* identity when it is renamed, and a stream writes to the file it opened, *)
(* wherever that is by then.  A chunk is what a stream buffer writes at    *)
(* once, and its content is the upload that wrote it.  Which id an auction *)
(* is given is the matter of AuctionServer: here it may be any, one that   *)
(* was given before among them.                                            *)
(***************************************************************************)
EXTENDS Naturals, Sequences, FiniteSets

CONSTANTS
    Uploads,        \* the OPA requests that clients send, each at most once
    Downloads,      \* the SAS requests that clients send, each at most once
    Names,          \* file names
    Ids,            \* auction ids
    SocketBuffer,   \* chunks that the sockets between server and client hold
    MaxBoots,       \* bound: how many times the process starts
    MaxStuck,       \* bound: how many uploads meet a failing write or rename
    NoFile, NoId, NoSize, Hole, Delimiter

UploadType == [name : Names, size : Nat, tag : Nat]
DownloadType == [of : Ids, tag : Nat]

ASSUME TransferAssumption == Uploads \subseteq UploadType /\ Downloads \subseteq DownloadType
ASSUME LimitAssumption == SocketBuffer \in Nat \ {0} /\ MaxBoots \in Nat /\ MaxStuck \in Nat
ASSUME NothingAssumption == /\ NoFile \notin Uploads /\ NoId \notin Ids /\ NoSize \notin Nat
                            /\ Hole \notin Uploads /\ Delimiter \notin Uploads \cup {Hole}

\* A file is known by the upload that created it.
Files == Uploads

VARIABLES
    cwd,        \* the file under each name in the working directory
    data,       \* the chunks of each file
    start,      \* the upload that the START file of each id names, or NoFile
    asset,      \* the file under each name in the directory of each auction
    stage,      \* where the worker of each upload is in handle_open_auction
    id,         \* the id its auction was given
    fd,         \* the file that its stream writes to
    offset,     \* chunks it has written
    crossed,    \* history: uploads that met one of the same name in cwd
    stuck,      \* history: uploads whose rename failed
    short,      \* history: uploads whose last chunk was not written
    sas,        \* where the worker of each download is
    saw,        \* the upload that START named when it read it
    size,       \* the file size it announced
    src,        \* the file that its stream reads
    pos,        \* chunks it has read from the file
    wire,       \* what it has sent and the client has not read
    got,        \* chunks that the client has saved
    result,     \* how the client's command ended
    stop,       \* is_shutting_down
    boots       \* how many times the process was started

diskVars == <<cwd, data, start, asset>>
uploadVars == <<stage, id, fd, offset, crossed, stuck, short>>
downloadVars == <<sas, saw, size, src, pos, wire, got, result>>
processVars == <<stop, boots>>
vars == <<diskVars, uploadVars, downloadVars, processVars>>

\* From the first byte of the header to the end of the handler: while an
\* upload is in one of InDirectory its file is in the working directory.
InDirectory == {"saving", "saved", "filing"}
Handling == {"header"} \cup InDirectory \cup {"moved"}
Stages == {"unsent", "OK", "failed"} \cup Handling

Sending == {"found", "sized", "sending"}

Init ==
    /\ cwd = [n \in Names |-> NoFile]
    /\ data = [f \in Files |-> <<>>]
    /\ start = [i \in Ids |-> NoFile]
    /\ asset = [i \in Ids |-> [n \in Names |-> NoFile]]
    /\ stage = [r \in Uploads |-> "unsent"]
    /\ id = [r \in Uploads |-> NoId]
    /\ fd = [r \in Uploads |-> NoFile]
    /\ offset = [r \in Uploads |-> 0]
    /\ crossed = {}
    /\ stuck = {}
    /\ short = {}
    /\ sas = [d \in Downloads |-> "unsent"]
    /\ saw = [d \in Downloads |-> NoFile]
    /\ size = [d \in Downloads |-> NoSize]
    /\ src = [d \in Downloads |-> NoFile]
    /\ pos = [d \in Downloads |-> 0]
    /\ wire = [d \in Downloads |-> <<>>]
    /\ got = [d \in Downloads |-> <<>>]
    /\ result = [d \in Downloads |-> "none"]
    /\ stop = FALSE
    /\ boots = 1

Whole(r) == [k \in 1 .. r.size |-> r]

\* What AUCTIONS/<id>/<name> leads to, for the id and the name of an upload.
AssetOf(r) == IF id[r] = NoId THEN NoFile ELSE asset[id[r]][r.name]

\* The id of r's auction was given to another one too.
Shared(r) == id[r] # NoId /\ \E s \in Uploads \ {r} : id[s] = id[r]

Unlucky == Cardinality(stuck) + Cardinality(short)

-----------------------------------------------------------------------------
(* Uploads.                                                                *)

Go(r, from, to) ==
    /\ stage[r] = from
    /\ stage' = [stage EXCEPT ![r] = to]

\* The handler is left: its stream is closed, its locals are gone.  "failed"
\* is a refusal or no reply at all.
Over(r, how) ==
    /\ stage' = [stage EXCEPT ![r] = how]
    /\ fd' = [fd EXCEPT ![r] = NoFile]
    /\ offset' = [offset EXCEPT ![r] = 0]

\* A worker begins to read the request.
ReceiveUpload(r) ==
    /\ ~stop
    /\ Go(r, "unsent", "header")
    /\ UNCHANGED <<diskVars, id, fd, offset, crossed, stuck, short, downloadVars, processVars>>

\* Mutation: an open stream appends to what it finds.
OpenAppending(r, f) == data

\* std::ofstream empties the file that it opens.
Opened(r, f) == [data EXCEPT ![f] = <<>>]

SameName(r) == {s \in Uploads \ {r} : s.name = r.name /\ stage[s] \in InDirectory}

\* The fields are good and the file is opened, before anything is checked.
\* An empty file has no chunk to wait for.
OpenFile(r) ==
    LET f == IF cwd[r.name] = NoFile THEN r ELSE cwd[r.name] IN
    /\ Go(r, "header", IF r.size = 0 THEN "saved" ELSE "saving")
    /\ cwd' = [cwd EXCEPT ![r.name] = f]
    /\ data' = Opened(r, f)
    /\ fd' = [fd EXCEPT ![r] = IF r.size = 0 THEN NoFile ELSE f]
    /\ crossed' = IF SameName(r) = {} THEN crossed ELSE crossed \cup SameName(r) \cup {r}
    /\ UNCHANGED <<start, asset, id, offset, stuck, short, downloadVars, processVars>>

\* Mutation: the first place is left out.
WrittenNext(s, k, r) == [i \in 1 .. k + 1 |-> IF i = k + 1 THEN r ELSE Hole]

\* A chunk goes to the stream's own offset; what lies between the end of the
\* file and it is a hole.
Written(s, k, r) ==
    [i \in 1 .. (IF k > Len(s) THEN k ELSE Len(s)) |->
        IF i = k THEN r ELSE IF i <= Len(s) THEN s[i] ELSE Hole]

\* One turn of readAndSaveToFile, which gives up when it finds the server
\* shutting down.  The last chunk is written when the file is closed, and
\* nobody asks whether it was.
SaveChunk(r) ==
    LET k == offset[r] + 1 IN
    /\ ~stop
    /\ Go(r, "saving", IF k = r.size THEN "saved" ELSE "saving")
    /\ \/ data' = [data EXCEPT ![fd[r]] = Written(@, k, r)] /\ UNCHANGED short
       \/ k = r.size /\ Unlucky < MaxStuck /\ short' = short \cup {r} /\ UNCHANGED data
    /\ offset' = [offset EXCEPT ![r] = k]
    /\ fd' = [fd EXCEPT ![r] = IF k = r.size THEN NoFile ELSE @]
    /\ UNCHANGED <<cwd, start, asset, id, crossed, stuck, downloadVars, processVars>>

\* The worker waits for the client.
Awaited(r) == stage[r] \in {"header", "saving", "saved"}

\* Mutation: what was saved so far is removed.
CutCleanly(r) ==
    /\ Awaited(r)
    /\ Over(r, "failed")
    /\ cwd' = IF stage[r] = "header" THEN cwd ELSE [cwd EXCEPT ![r.name] = NoFile]
    /\ UNCHANGED <<data, start, asset, id, crossed, stuck, short, downloadVars, processVars>>

\* The client is gone, silent for TCP_READ_TIMEOUT_SECONDS or sends something
\* else, a chunk cannot be written, or the server shuts down: no reply, and
\* the file stays as it is.
Cut(r) ==
    /\ Awaited(r)
    /\ Over(r, "failed")
    /\ UNCHANGED <<diskVars, id, crossed, stuck, short, downloadVars, processVars>>

\* The delimiter was read and the request is refused: the file stays.
Refuse(r) ==
    /\ stage[r] = "saved"
    /\ Over(r, "failed")
    /\ UNCHANGED <<diskVars, id, crossed, stuck, short, downloadVars, processVars>>

\* The delimiter was read and all files of the auction but the asset written,
\* START over one that is there.
OpenAuction(r) ==
    /\ Go(r, "saved", "filing")
    /\ \E i \in Ids : /\ id' = [id EXCEPT ![r] = i]
                      /\ start' = [start EXCEPT ![i] = r]
    /\ UNCHANGED <<cwd, data, asset, fd, offset, crossed, stuck, short, downloadVars,
                   processVars>>

\* Mutation: the file is linked, and keeps its name in the working directory.
LeftBehind(r) == cwd

Taken(r) == [cwd EXCEPT ![r.name] = NoFile]

\* createAuctionAssetFile moves what the name leads to, in place of a file of
\* that name that is there; a stream that reads the latter goes on.
MoveAsset(r) ==
    /\ Go(r, "filing", "moved")
    /\ cwd[r.name] # NoFile
    /\ asset' = [asset EXCEPT ![id[r]][r.name] = cwd[r.name]]
    /\ cwd' = Taken(r)
    /\ UNCHANGED <<data, start, id, fd, offset, crossed, stuck, short, downloadVars, processVars>>

\* A file that is not there, and a rename that fails (of a file named BIDS,
\* say, which is a directory in the auction's), are only logged.
MoveNothing(r) ==
    /\ Go(r, "filing", "moved")
    /\ IF cwd[r.name] = NoFile
       THEN UNCHANGED stuck
       ELSE stuck' = stuck \cup {r} /\ Unlucky < MaxStuck
    /\ UNCHANGED <<diskVars, id, fd, offset, crossed, short, downloadVars, processVars>>

ReplyOpen(r) ==
    /\ stage[r] = "moved"
    /\ Over(r, "OK")
    /\ UNCHANGED <<diskVars, id, crossed, stuck, short, downloadVars, processVars>>

\* The steps of a worker, and those that also need the client to send.
ServeUpload(r) ==
    OpenFile(r) \/ Cut(r) \/ MoveAsset(r) \/ MoveNothing(r) \/ ReplyOpen(r)
UploadStep(r) ==
    \/ ReceiveUpload(r) \/ SaveChunk(r) \/ Refuse(r) \/ OpenAuction(r)
    \/ ServeUpload(r)

-----------------------------------------------------------------------------
(* Downloads.                                                              *)

Hang(d) ==
    /\ sas' = [sas EXCEPT ![d] = "closed"]
    /\ src' = [src EXCEPT ![d] = NoFile]
    /\ pos' = [pos EXCEPT ![d] = 0]

\* getAuction and showAsset.  An asset that is missing is noticed where the
\* exception is swallowed, so that its path is used all the same.
FindAsset(d) ==
    /\ ~stop /\ sas[d] = "unsent"
    /\ IF start[d.of] # NoFile
       THEN /\ sas' = [sas EXCEPT ![d] = "found"]
            /\ saw' = [saw EXCEPT ![d] = start[d.of]]
            /\ UNCHANGED <<src, pos, result>>
       ELSE Hang(d) /\ result' = [result EXCEPT ![d] = "failed"] /\ UNCHANGED saw
    /\ UNCHANGED <<diskVars, uploadVars, size, wire, got, processVars>>

\* What the path leads to by now.
AssetFound(d) == asset[d.of][saw[d].name]

\* The size is sent ahead; getFileSize throws for a file that is not there
\* and the connection is closed without a reply.
SendSize(d) ==
    /\ sas[d] = "found"
    /\ IF AssetFound(d) = NoFile
       THEN Hang(d) /\ UNCHANGED size
       ELSE /\ sas' = [sas EXCEPT ![d] = "sized"]
            /\ size' = [size EXCEPT ![d] = Len(data[AssetFound(d)])]
            /\ UNCHANGED <<src, pos>>
    /\ UNCHANGED <<diskVars, uploadVars, saw, wire, got, result, processVars>>

\* sendFile opens the file anew, or cannot, and the connection is closed.
OpenAsset(d) ==
    /\ sas[d] = "sized"
    /\ \/ /\ sas' = [sas EXCEPT ![d] = "sending"]
          /\ src' = [src EXCEPT ![d] = AssetFound(d)]
          /\ UNCHANGED pos
       \/ Hang(d)
    /\ UNCHANGED <<diskVars, uploadVars, saw, size, wire, got, result, processVars>>

Room(d) == Len(wire[d]) < SocketBuffer /\ result[d] = "none"
Unsent(d) == pos[d] < Len(data[src[d]])

\* sendFile reads the file until it ends, whatever size was announced.
SendChunk(d) ==
    /\ sas[d] = "sending" /\ Room(d) /\ Unsent(d)
    /\ wire' = [wire EXCEPT ![d] = Append(@, data[src[d]][pos[d] + 1])]
    /\ pos' = [pos EXCEPT ![d] = @ + 1]
    /\ UNCHANGED <<diskVars, uploadVars, sas, saw, size, src, got, result, processVars>>

SendDelimiter(d) ==
    /\ sas[d] = "sending" /\ Room(d) /\ ~Unsent(d)
    /\ wire' = [wire EXCEPT ![d] = Append(@, Delimiter)]
    /\ Hang(d)
    /\ UNCHANGED <<diskVars, uploadVars, saw, size, got, result, processVars>>

\* Mutation: a send waits for as long as it takes.
SendFailsGone(d) ==
    /\ sas[d] \in Sending /\ result[d] # "none"
    /\ Hang(d)
    /\ UNCHANGED <<diskVars, uploadVars, saw, size, wire, got, result, processVars>>

\* write fails once the client has closed its socket, and when the client has
\* taken nothing for TCP_WRITE_TIMEOUT_SECONDS: the socket inherits SO_SNDTIMEO
\* from the listening one.
SendFails(d) ==
    /\ sas[d] \in Sending /\ ~Room(d)
    /\ Hang(d)
    /\ UNCHANGED <<diskVars, uploadVars, saw, size, wire, got, result, processVars>>

ServeDownload(d) ==
    SendSize(d) \/ OpenAsset(d) \/ SendChunk(d) \/ SendDelimiter(d) \/ SendFails(d)

\* The client waits: it has asked, and its command has not ended.
Waits(d) == sas[d] # "unsent" /\ result[d] = "none"

\* The client's command ends and its socket is closed; what it saved counts
\* only if it reports it.
Ends(d, how) ==
    /\ result' = [result EXCEPT ![d] = how]
    /\ got' = [got EXCEPT ![d] = IF how = "received" THEN @ ELSE <<>>]
    /\ wire' = [wire EXCEPT ![d] = <<>>]
    /\ size' = [size EXCEPT ![d] = NoSize]
    /\ UNCHANGED <<diskVars, uploadVars, sas, saw, src, pos, processVars>>

\* The first announced bytes are saved, a delimiter among them.
TakeChunk(d) ==
    /\ Waits(d) /\ size[d] # NoSize
    /\ wire[d] # <<>> /\ Len(got[d]) < size[d]
    /\ got' = [got EXCEPT ![d] = Append(@, Head(wire[d]))]
    /\ wire' = [wire EXCEPT ![d] = Tail(@)]
    /\ UNCHANGED <<diskVars, uploadVars, sas, saw, size, src, pos, result, processVars>>

\* The next one must be the delimiter; the first byte of a chunk may look
\* like one.
TakeDelimiter(d) ==
    /\ Waits(d) /\ size[d] # NoSize
    /\ wire[d] # <<>> /\ Len(got[d]) = size[d]
    /\ \E how \in {"received", "failed"} :
        /\ Head(wire[d]) = Delimiter => how = "received"
        /\ Ends(d, how)

\* Mutation: the end of the stream is the end of the file.
EndIsEnough(d) == "received"

EndMeans(d) == "failed"

\* read returns 0.
EndOfStream(d) ==
    /\ Waits(d) /\ sas[d] = "closed" /\ wire[d] = <<>>
    /\ Ends(d, EndMeans(d))

\* The client's own timeout, a signal to it, or a lost connection.
GiveUp(d) ==
    /\ Waits(d)
    /\ Ends(d, "failed")

ReadDownload(d) == TakeChunk(d) \/ TakeDelimiter(d) \/ EndOfStream(d)
DownloadStep(d) == FindAsset(d) \/ ServeDownload(d) \/ ReadDownload(d) \/ GiveUp(d)

-----------------------------------------------------------------------------
(* The process.                                                            *)

RequestStop ==
    /\ ~stop /\ stop' = TRUE
    /\ UNCHANGED <<diskVars, uploadVars, downloadVars, boots>>

Boot ==
    /\ boots < MaxBoots /\ boots' = boots + 1
    /\ stop' = FALSE

\* The workers are joined before the process ends.
Restart ==
    /\ stop
    /\ \A r \in Uploads : stage[r] \notin Handling
    /\ \A d \in Downloads : sas[d] \notin Sending
    /\ Boot
    /\ UNCHANGED <<diskVars, uploadVars, downloadVars>>

\* The process dies: streams and connections are closed as they are.
Crash ==
    /\ Boot
    /\ stage' = [r \in Uploads |-> IF stage[r] \in Handling THEN "failed" ELSE stage[r]]
    /\ fd' = [r \in Uploads |-> NoFile]
    /\ offset' = [r \in Uploads |-> 0]
    /\ sas' = [d \in Downloads |-> IF sas[d] \in Sending THEN "closed" ELSE sas[d]]
    /\ src' = [d \in Downloads |-> NoFile]
    /\ pos' = [d \in Downloads |-> 0]
    /\ UNCHANGED <<diskVars, id, crossed, stuck, short, saw, size, wire, got, result>>

Next ==
    \/ \E r \in Uploads : UploadStep(r)
    \/ \E d \in Downloads : DownloadStep(d)
    \/ RequestStop \/ Restart \/ Crash

Spec == Init /\ [][Next]_vars

\* What goes on whatever the clients do: the steps of the workers but for those
\* that wait for a client's bytes, and the timeouts.
Proceed ==
    \/ \E r \in Uploads : ServeUpload(r)
    \/ \E d \in Downloads : ServeDownload(d)

\* Something that can go on does; no upload or download has endless steps.
Fairness == WF_vars(Proceed)

FairSpec == Spec /\ Fairness

-----------------------------------------------------------------------------
(* Properties.                                                             *)

\* No file is longer than the longest upload.
Contents ==
    {s \in Seq(Uploads \cup {Hole}) : s = <<>> \/ \E r \in Uploads : Len(s) <= r.size}

TypeOK ==
    /\ cwd \in [Names -> Files \cup {NoFile}]
    /\ data \in [Files -> Contents]
    /\ start \in [Ids -> Uploads \cup {NoFile}]
    /\ asset \in [Ids -> [Names -> Files \cup {NoFile}]]
    /\ stage \in [Uploads -> Stages]
    /\ id \in [Uploads -> Ids \cup {NoId}]
    /\ fd \in [Uploads -> Files \cup {NoFile}]
    /\ offset \in [Uploads -> Nat]
    /\ crossed \in SUBSET Uploads
    /\ stuck \in SUBSET Uploads
    /\ short \in SUBSET Uploads
    /\ sas \in [Downloads -> {"unsent", "closed"} \cup Sending]
    /\ saw \in [Downloads -> Uploads \cup {NoFile}]
    /\ size \in [Downloads -> Nat \cup {NoSize}]
    /\ src \in [Downloads -> Files \cup {NoFile}]
    /\ pos \in [Downloads -> Nat]
    /\ wire \in [Downloads -> Seq(Uploads \cup {Hole, Delimiter})]
    /\ got \in [Downloads -> Seq(Uploads \cup {Hole, Delimiter})]
    /\ result \in [Downloads -> {"none", "received", "failed"}]
    /\ stop \in BOOLEAN
    /\ boots \in Nat

\* SAFETY: an auction whose upload met no other of its name, and was answered
\* OK, has an asset, unless the rename failed; and that is the whole file of its
\* owner and nothing else, whatever was left in the working directory by uploads
\* that failed, unless its own last chunk was not written or its id was given to
\* another auction too.
UncrossedIsWhole ==
    \A r \in Uploads \ crossed :
        /\ stage[r] = "OK" /\ r \notin stuck => AssetOf(r) # NoFile
        /\ AssetOf(r) # NoFile /\ r \notin short /\ ~Shared(r) =>
            data[AssetOf(r)] = Whole(r)

\* ACTION: once such an asset is in place, no later upload, crossed or not,
\* changes it, but one whose auction is given the same id.
UncrossedIsFinal ==
    [][\A r \in Uploads \ crossed :
        AssetOf(r) # NoFile /\ ~Shared(r) =>
            AssetOf(r)' = AssetOf(r) /\ data'[AssetOf(r)] = data[AssetOf(r)]]_vars

\* SAFETY: when an auction was answered OK and has no asset, though no rename
\* failed for it, another one has it whose upload crossed some upload of that
\* name: crossing uploads lose to each other, never to one that failed.
LostToAnother ==
    \A r \in Uploads :
        stage[r] = "OK" /\ AssetOf(r) = NoFile /\ r \notin stuck =>
            /\ r \in crossed
            /\ \E s \in crossed \ {r} : s.name = r.name /\ AssetOf(s) # NoFile

\* SAFETY: a client that reports an asset as received has the whole file that
\* the owner uploaded, though the connection may be cut or the server die at
\* any point, as far as the server has that file (see UncrossedIsWhole).
ReceivedIsWhole ==
    \A d \in Downloads :
        /\ result[d] = "received"
        /\ saw[d] \notin crossed \cup short /\ ~Shared(saw[d])
        => got[d] = Whole(saw[d])

\* LIVENESS: every worker comes to the end of its transfer, also when a client
\* stops sending, or reading; and every client that goes on reading comes to
\* the end of its download.
TransfersEnd ==
    /\ <>[]/\ \A r \in Uploads : stage[r] \notin Handling
           /\ \A d \in Downloads : sas[d] \notin Sending
    /\ WF_vars(\E d \in Downloads : ReadDownload(d)) => <>[](\A d \in Downloads : ~Waits(d))
=============================================================================
