------------------------ MODULE AssetTransfer_proofs ------------------------
(***************************************************************************)
(* Proofs about AssetTransfer, for any uploads, downloads, names, ids and  *)
(* bounds, with cut connections, failing writes and renames, stops and     *)
(* crashes at any point.  The invariant follows each file: where it is     *)
(* (FilesInPlace), who writes to it (WritersInOrder), and what it and the  *)
(* downloads of it hold as long as its owner has met no other upload of    *)
(* the name and shares its id with nobody.                                 *)
(***************************************************************************)
EXTENDS AssetTransfer, TLAPS

\* A file has been created by its owner, and all that lead to it have its name.
Created(f, n) == f.name = n /\ stage[f] \notin {"unsent", "header"}

\* An upload whose worker is past the moving of its asset.
Filed(r) == stage[r] \in {"moved", "OK", "failed"}

\* A file is in one place: under its name in the working directory or in the
\* directory of one auction, where an upload of that id and name has put it.
FilesInPlace ==
    /\ \A n \in Names : cwd[n] # NoFile =>
        Created(cwd[n], n) /\ \A i \in Ids, m \in Names : asset[i][m] # cwd[n]
    /\ \A i \in Ids, n \in Names : asset[i][n] # NoFile =>
        /\ Created(asset[i][n], n)
        /\ \E s \in Uploads : id[s] = i /\ s.name = n /\ Filed(s)
        /\ \A j \in Ids, m \in Names : asset[j][m] = asset[i][n] => j = i /\ m = n

\* How far the stream of each worker has come, and when it has an id.
WritersInOrder ==
    /\ \A r \in Uploads :
        /\ fd[r] # NoFile => stage[r] = "saving" /\ Created(fd[r], r.name)
        /\ stage[r] = "saving" => fd[r] # NoFile /\ offset[r] < r.size
        /\ stage[r] \in {"unsent", "header"} => offset[r] = 0
        /\ stage[r] \in {"unsent", "header", "saving", "saved"} => id[r] = NoId
        /\ stage[r] \in {"filing", "moved", "OK"} => id[r] # NoId
    /\ \A i \in Ids : start[i] # NoFile => id[start[i]] = i

\* An upload that has met no other is alone in the working directory; its
\* chunks are there up to where it has come, and nobody writes to its asset.
UncrossedInOrder ==
    \A r \in Uploads \ crossed :
        /\ stage[r] \in InDirectory => SameName(r) = {} /\ cwd[r.name] # NoFile
        /\ stage[r] = "saving" =>
            fd[r] = cwd[r.name] /\ data[fd[r]] = [k \in 1 .. offset[r] |-> r]
        /\ stage[r] \in {"saved", "filing"} /\ r \notin short => data[cwd[r.name]] = Whole(r)
        /\ AssetOf(r) # NoFile /\ ~Shared(r) =>
            /\ r \notin short => data[AssetOf(r)] = Whole(r)
            /\ \A s \in Uploads : fd[s] # AssetOf(r)
        /\ stage[r] \in {"moved", "OK"} /\ r \notin stuck => AssetOf(r) # NoFile

\* Another upload that crossed one of r's name has an asset in place.
Beaten(r) == r \in crossed /\ \E s \in crossed \ {r} : s.name = r.name /\ AssetOf(s) # NoFile

LosersInOrder ==
    \A r \in Uploads :
        /\ stage[r] \in InDirectory /\ cwd[r.name] = NoFile => Beaten(r)
        /\ stage[r] \in {"moved", "OK"} /\ AssetOf(r) = NoFile /\ r \notin stuck => Beaten(r)

\* The uploads whose asset is what they sent.
Good(r) == r \notin crossed /\ r \notin short /\ ~Shared(r)

\* What the client has saved and what is on its way are the file up to where
\* the worker has come, and then the delimiter.
Flowing(d) ==
    LET n == Len(got[d])
        r == saw[d] IN
    /\ AssetOf(r) # NoFile /\ size[d] = r.size
    /\ n <= size[d] /\ \A i \in 1 .. n : got[d][i] = r
    /\ \A i \in 1 .. Len(wire[d]) :
        wire[d][i] = IF n + i <= size[d] THEN r ELSE Delimiter
    /\ sas[d] = "sending" =>
        src[d] = AssetOf(r) /\ pos[d] = n + Len(wire[d]) /\ pos[d] <= size[d]

DownloadsInOrder ==
    \A d \in Downloads :
        /\ sas[d] \in {"unsent", "found"} => size[d] = NoSize
        /\ sas[d] \in {"unsent", "found", "sized"} => pos[d] = 0
        /\ sas[d] \in Sending => saw[d] \in Uploads /\ id[saw[d]] = d.of
        /\ sas[d] \in {"sized", "sending"} =>
            AssetFound(d) # NoFile /\ (result[d] = "none" => size[d] # NoSize)
        /\ sas[d] = "unsent" => result[d] = "none"
        /\ sas[d] = "sized" /\ result[d] = "none" => wire[d] = <<>> /\ got[d] = <<>>
        /\ sas[d] = "sending" => src[d] # NoFile
        /\ result[d] = "none" /\ size[d] = NoSize => got[d] = <<>> /\ wire[d] = <<>>
        /\ size[d] # NoSize \/ result[d] = "received" => saw[d] \in Uploads
        /\ result[d] = "none" /\ size[d] # NoSize /\ Good(saw[d]) => Flowing(d)
        /\ result[d] = "received" /\ Good(saw[d]) => got[d] = Whole(saw[d])

IInv ==
    /\ TypeOK
    /\ FilesInPlace
    /\ WritersInOrder
    /\ UncrossedInOrder
    /\ LosersInOrder
    /\ DownloadsInOrder

LEMMA Fields ==
    ASSUME NEW r \in Uploads
    PROVE  /\ r.name \in Names /\ r.size \in Nat
           /\ r # NoFile /\ r # Hole /\ r # Delimiter
BY TransferAssumption, NothingAssumption DEF UploadType

LEMMA Asked ==
    ASSUME NEW d \in Downloads
    PROVE  d.of \in Ids /\ d.of # NoId
BY TransferAssumption, NothingAssumption DEF DownloadType

\* The empty file, a file with one chunk more, and an upload's own.
LEMMA EmptyIsContents == <<>> \in Contents
BY DEF Contents

LEMMA WrittenIsContents ==
    ASSUME NEW s \in Contents, NEW r \in Uploads, NEW k \in 1 .. r.size
    PROVE  Written(s, k, r) \in Contents
<1> DEFINE n == IF k > Len(s) THEN k ELSE Len(s)
<1>1. s \in Seq(Uploads \cup {Hole}) /\ Len(s) \in Nat
  BY DEF Contents
<1>2. n \in Nat
  BY <1>1, Fields
<1>3. Written(s, k, r) \in Seq(Uploads \cup {Hole}) /\ Len(Written(s, k, r)) = n
  BY <1>1, <1>2, Fields DEF Written
<1>4. CASE n = k
  BY <1>3, <1>4, Fields DEF Contents
<1>5. CASE n = Len(s) /\ n > k
  <2>1. PICK q \in Uploads : Len(s) <= q.size
    BY <1>1, <1>5, Fields DEF Contents
  <2> QED BY <1>3, <1>5, <2>1 DEF Contents
<1> QED BY <1>1, <1>4, <1>5, Fields

LEMMA EmptyIsWhole ==
    ASSUME NEW r
    PROVE  [i \in 1 .. 0 |-> r] = <<>>
OBVIOUS

\* A stream alone in its file adds the next chunk to its own.
LEMMA WrittenExtends ==
    ASSUME NEW r \in Uploads, NEW k \in Nat
    PROVE  Written([i \in 1 .. k |-> r], k + 1, r) = [i \in 1 .. k + 1 |-> r]
<1> DEFINE s == [i \in 1 .. k |-> r]
<1>1. Len(s) = k
  OBVIOUS
<1> QED BY <1>1 DEF Written

\* What is under the id and name of an upload.
LEMMA AssetFacts ==
    ASSUME IInv, NEW r \in Uploads, AssetOf(r) # NoFile
    PROVE  /\ id[r] \in Ids /\ AssetOf(r) = asset[id[r]][r.name]
           /\ AssetOf(r) \in Files /\ Created(AssetOf(r), r.name)
           /\ \A n \in Names : cwd[n] # AssetOf(r)
           /\ ~Shared(r) => Filed(r)
<1>1. id[r] \in Ids /\ r.name \in Names /\ AssetOf(r) = asset[id[r]][r.name]
  BY Fields DEF IInv, TypeOK, AssetOf
<1>2. AssetOf(r) \in Files
  BY <1>1 DEF IInv, TypeOK
<1>3. Created(AssetOf(r), r.name) /\ \A n \in Names : cwd[n] # AssetOf(r)
  BY <1>1, <1>2 DEF IInv, FilesInPlace
<1>4. PICK s \in Uploads : id[s] = id[r] /\ Filed(s)
  BY <1>1 DEF IInv, FilesInPlace
<1>5. ~Shared(r) => s = r
  BY <1>1, <1>4, NothingAssumption DEF Shared
<1> QED BY <1>1, <1>2, <1>3, <1>4, <1>5

\* An upload keeps what it has while its id and the assets stay.
LEMMA SameAssets ==
    ASSUME UNCHANGED <<id, asset>>
    PROVE  \A r \in Uploads : AssetOf(r)' = AssetOf(r) /\ (Shared(r)' <=> Shared(r))
BY DEF AssetOf, Shared

LEMMA SharedStays ==
    ASSUME \A r \in Uploads : id[r] # NoId => id'[r] = id[r], NEW r \in Uploads, Shared(r)
    PROVE  Shared(r)'
BY DEF Shared

LEMMA BeatenStays ==
    ASSUME IInv, crossed \subseteq crossed',
           \A s \in Uploads : AssetOf(s) # NoFile => AssetOf(s)' # NoFile,
           NEW r \in Uploads, Beaten(r)
    PROVE  Beaten(r)'
<1>1. crossed \subseteq Uploads
  BY DEF IInv, TypeOK
<1>2. PICK s \in crossed \ {r} : s.name = r.name /\ AssetOf(s) # NoFile
  BY DEF Beaten
<1> QED BY <1>1, <1>2 DEF Beaten

-----------------------------------------------------------------------------
(* What the uploads leave alone, the downloads, and what the downloads     *)
(* leave alone.                                                            *)

LEMMA InitIInv == Init => IInv
<1> SUFFICES ASSUME Init PROVE IInv
  OBVIOUS
<1> USE DEF Init
<1>1. TypeOK
  <2>1. /\ wire \in [Downloads -> Seq(Uploads \cup {Hole, Delimiter})]
        /\ got \in [Downloads -> Seq(Uploads \cup {Hole, Delimiter})]
    OBVIOUS
  <2>2. data \in [Files -> Contents]
    BY EmptyIsContents
  <2> QED BY <2>1, <2>2 DEF TypeOK, Stages, Sending
<1>2. \A r \in Uploads : AssetOf(r) = NoFile
  BY DEF AssetOf
<1>3. FilesInPlace /\ WritersInOrder /\ LosersInOrder
  BY <1>2 DEF FilesInPlace, WritersInOrder, LosersInOrder, InDirectory
<1>4. UncrossedInOrder
  BY <1>2 DEF UncrossedInOrder, InDirectory
<1>5. DownloadsInOrder
  BY DEF DownloadsInOrder, Sending
<1> QED BY <1>1, <1>3, <1>4, <1>5 DEF IInv

\* An asset once in place stays or is replaced, and no upload is ever taken
\* back among those that met no other.
LEMMA DownloadsKept ==
    ASSUME IInv, UNCHANGED downloadVars, crossed \subseteq crossed', short \subseteq short',
           \A r \in Uploads : id[r] # NoId => id'[r] = id[r],
           \A i \in Ids, n \in Names : asset[i][n] # NoFile => asset'[i][n] # NoFile,
           \A r \in Uploads : AssetOf(r) # NoFile /\ ~Shared(r) => AssetOf(r)' = AssetOf(r)
    PROVE  DownloadsInOrder'
<1> SUFFICES ASSUME NEW d \in Downloads PROVE DownloadsInOrder!(d)'
  BY DEF DownloadsInOrder
<1>1. DownloadsInOrder!(d)
  BY DEF IInv, DownloadsInOrder
<1>2. /\ sas'[d] = sas[d] /\ saw'[d] = saw[d] /\ size'[d] = size[d] /\ src'[d] = src[d]
      /\ pos'[d] = pos[d] /\ wire'[d] = wire[d] /\ got'[d] = got[d] /\ result'[d] = result[d]
  BY DEF downloadVars
<1>3. saw[d] \in Uploads => (Good(saw[d])' => Good(saw[d]))
  BY <1>2, SharedStays DEF Good
<1>4. saw[d] \in Uploads /\ id[saw[d]] = d.of => id'[saw[d]] = d.of
  BY Asked
<1>5. saw[d] \in Uploads /\ AssetFound(d) # NoFile => AssetFound(d)' # NoFile
  BY <1>2, Asked, Fields DEF AssetFound
<1>6. saw[d] \in Uploads /\ Good(saw[d]) /\ Flowing(d) => Flowing(d)'
  <2> SUFFICES ASSUME saw[d] \in Uploads, Good(saw[d]), Flowing(d) PROVE Flowing(d)'
    OBVIOUS
  <2>1. AssetOf(saw[d])' = AssetOf(saw[d]) /\ AssetOf(saw[d]) # NoFile
    BY <1>2 DEF Flowing, Good
  <2> QED BY <1>2, <2>1 DEF Flowing
<1> QED BY <1>1, <1>2, <1>3, <1>4, <1>5, <1>6 DEF Sending

LEMMA UploadsKept ==
    ASSUME IInv, UNCHANGED <<diskVars, uploadVars>>
    PROVE  FilesInPlace' /\ WritersInOrder' /\ UncrossedInOrder' /\ LosersInOrder'
<1> USE DEF diskVars, uploadVars
<1>1. \A r \in Uploads : AssetOf(r)' = AssetOf(r) /\ (Shared(r)' <=> Shared(r))
  BY SameAssets
<1>2. FilesInPlace' /\ WritersInOrder'
  BY DEF IInv, FilesInPlace, Created, Filed, WritersInOrder
<1>3. UncrossedInOrder'
  <2> SUFFICES ASSUME NEW r \in Uploads \ crossed PROVE UncrossedInOrder!(r)'
    BY DEF UncrossedInOrder
  <2>1. UncrossedInOrder!(r) /\ AssetOf(r)' = AssetOf(r) /\ (Shared(r)' <=> Shared(r))
    BY <1>1 DEF IInv, UncrossedInOrder
  <2>2. SameName(r)' = SameName(r)
    BY DEF SameName
  <2> QED BY <2>1, <2>2 DEF Whole
<1>4. LosersInOrder'
  BY <1>1, BeatenStays DEF IInv, LosersInOrder
<1> QED BY <1>2, <1>3, <1>4

\* Most steps leave the ids and the assets alone.
LEMMA DownloadsAsBefore ==
    ASSUME IInv, UNCHANGED <<downloadVars, id, asset>>, crossed \subseteq crossed',
           short \subseteq short'
    PROVE  DownloadsInOrder'
BY SameAssets, DownloadsKept

-----------------------------------------------------------------------------
(* The steps of an upload.                                                 *)

LEMMA ReceivePreserves ==
    ASSUME IInv, NEW r \in Uploads, ReceiveUpload(r)
    PROVE  IInv'
<1> USE Fields DEF IInv, ReceiveUpload, Go, diskVars
<1>1. TypeOK'
  BY DEF TypeOK, Stages, Handling, InDirectory, downloadVars, processVars
<1>2. FilesInPlace' /\ WritersInOrder'
  BY DEF TypeOK, FilesInPlace, Created, Filed, WritersInOrder
<1>a. \A q \in Uploads : AssetOf(q)' = AssetOf(q) /\ (Shared(q)' <=> Shared(q))
  BY SameAssets
<1>3. UncrossedInOrder'
  <2> SUFFICES ASSUME NEW q \in Uploads \ crossed
               PROVE  UncrossedInOrder!(q)'
    BY DEF UncrossedInOrder
  <2>1. UncrossedInOrder!(q) /\ AssetOf(q)' = AssetOf(q) /\ (Shared(q)' <=> Shared(q))
    BY <1>a DEF UncrossedInOrder
  <2>2. SameName(q)' = SameName(q)
    BY DEF TypeOK, SameName, InDirectory
  <2> QED BY <2>1, <2>2 DEF TypeOK, InDirectory, Whole
<1>4. LosersInOrder'
  BY <1>a, BeatenStays DEF TypeOK, LosersInOrder, InDirectory
<1> QED BY <1>1, <1>2, <1>3, <1>4, DownloadsAsBefore

\* The end of a handler: a refusal, a cut, a reply.
LEMMA LeavePreserves ==
    ASSUME IInv, NEW r \in Uploads, Cut(r) \/ Refuse(r) \/ ReplyOpen(r)
    PROVE  IInv'
<1>1. /\ stage[r] \in {"header", "saving", "saved", "moved"}
      /\ UNCHANGED <<cwd, data, start, asset, id, crossed, stuck, short, downloadVars,
                     processVars>>
  BY DEF Cut, Awaited, Refuse, ReplyOpen, diskVars
<1>2. PICK how \in {"failed", "OK"} : Over(r, how) /\ (how = "OK" => stage[r] = "moved")
  BY DEF Cut, Refuse, ReplyOpen
<1> USE <1>1, <1>2, Fields DEF IInv, Over
<1>3. TypeOK'
  BY DEF TypeOK, Stages, downloadVars, processVars
<1>4. FilesInPlace' /\ WritersInOrder'
  BY DEF TypeOK, FilesInPlace, Created, Filed, WritersInOrder
<1>5. UncrossedInOrder'
  <2> SUFFICES ASSUME NEW q \in Uploads \ crossed
               PROVE  UncrossedInOrder!(q)'
    BY DEF UncrossedInOrder
  <2>1. UncrossedInOrder!(q) /\ AssetOf(q)' = AssetOf(q) /\ (Shared(q)' <=> Shared(q))
    BY SameAssets DEF UncrossedInOrder
  <2>2. SameName(q)' \subseteq SameName(q)
    BY DEF TypeOK, SameName, InDirectory
  <2>3. \A s \in Uploads : fd'[s] \in {fd[s], NoFile}
    BY DEF TypeOK
  <2>4. CASE q = r
    BY <2>1, <2>3, <2>4 DEF TypeOK, InDirectory, Whole
  <2>5. CASE q # r
    BY <2>1, <2>2, <2>3, <2>5 DEF TypeOK, InDirectory, Whole
  <2> QED BY <2>4, <2>5
<1>6. LosersInOrder'
  BY SameAssets DEF TypeOK, LosersInOrder, Beaten, InDirectory
<1> QED BY <1>3, <1>4, <1>5, <1>6, DownloadsAsBefore

\* The file that is opened is the one under the name, or a new one of r's: in
\* either case no asset, and no other name's.
LEMMA OpenPreserves ==
    ASSUME IInv, NEW r \in Uploads, OpenFile(r)
    PROVE  IInv'
<1> DEFINE f == IF cwd[r.name] = NoFile THEN r ELSE cwd[r.name]
<1> USE Fields DEF IInv, OpenFile, Go, Opened
<1>1. f \in Files /\ f.name = r.name /\ \A i \in Ids, n \in Names : asset[i][n] # f
  BY DEF TypeOK, FilesInPlace, Created, Files
<1>2. TypeOK'
  BY <1>1, EmptyIsContents
     DEF TypeOK, Stages, Handling, InDirectory, Files, SameName, downloadVars, processVars
<1>3. FilesInPlace'
  <2>1. \A g \in Files, n \in Names : Created(g, n) => Created(g, n)'
    BY DEF TypeOK, Created, Files
  <2>2. Created(f, r.name)'
    BY <1>1 DEF TypeOK, FilesInPlace, Created, Files
  <2>3. \A s \in Uploads : Filed(s) => Filed(s)'
    BY DEF TypeOK, Filed
  <2> QED BY <1>1, <2>1, <2>2, <2>3 DEF TypeOK, FilesInPlace
<1>4. WritersInOrder'
  BY <1>1 DEF TypeOK, FilesInPlace, WritersInOrder, Created, Files
<1>a. \A q \in Uploads : /\ AssetOf(q)' = AssetOf(q) /\ (Shared(q)' <=> Shared(q))
                         /\ AssetOf(q) # NoFile => AssetOf(q) # f
  BY <1>1, SameAssets, AssetFacts
<1>b. crossed \subseteq crossed' /\ AssetOf(r) = NoFile
  BY DEF WritersInOrder, AssetOf
<1>5. UncrossedInOrder'
  <2> SUFFICES ASSUME NEW q \in Uploads \ crossed'
               PROVE  UncrossedInOrder!(q)'
    BY DEF UncrossedInOrder
  <2>1. UncrossedInOrder!(q)
    BY <1>b DEF UncrossedInOrder
  <2>2. CASE q = r
    <3>1. SameName(r)' = {} /\ cwd'[r.name] = f /\ data'[f] = <<>>
      BY <1>1, <2>2 DEF TypeOK, SameName, InDirectory, Files
    <3>2. offset'[r] = 0 /\ fd'[r] \in {f, NoFile}
      BY <1>1 DEF TypeOK, WritersInOrder, FilesInPlace
    <3> QED
      BY <1>1, <1>a, <1>b, <2>2, <3>1, <3>2, EmptyIsWhole DEF TypeOK, Whole, InDirectory
  <2>3. ASSUME q # r
        PROVE  /\ stage'[q] = stage[q] /\ offset'[q] = offset[q] /\ fd'[q] = fd[q]
               /\ AssetOf(q) # NoFile => data'[AssetOf(q)] = data[AssetOf(q)]
               /\ \A s \in Uploads : fd'[s] \in {fd[s], f, NoFile}
    BY <1>1, <1>a, <2>3, AssetFacts DEF TypeOK, Files
  <2>4. CASE q # r /\ q.name = r.name
    <3>1. stage[q] \notin InDirectory
      BY <1>1, <1>b, <2>4 DEF SameName
    <3> QED BY <1>a, <2>1, <2>3, <2>4, <3>1 DEF InDirectory, Whole
  <2>5. CASE q.name # r.name
    <3>1. SameName(q)' = SameName(q) /\ cwd'[q.name] = cwd[q.name]
      BY <2>5 DEF TypeOK, SameName, InDirectory
    <3>2. cwd[q.name] # NoFile => cwd[q.name] # f /\ cwd[q.name] \in Files
      BY <1>1, <2>5 DEF TypeOK, FilesInPlace, Created
    <3>3. cwd[q.name] # NoFile => data'[cwd[q.name]] = data[cwd[q.name]]
      BY <1>1, <3>2 DEF TypeOK
    <3> QED BY <1>a, <2>1, <2>3, <2>5, <3>1, <3>3 DEF InDirectory, Whole
  <2> QED BY <2>2, <2>4, <2>5
<1>6. LosersInOrder'
  BY <1>1, <1>a, <1>b DEF TypeOK, LosersInOrder, Beaten, InDirectory, Files
<1> QED BY <1>2, <1>3, <1>4, <1>5, <1>6, <1>b, DownloadsAsBefore

LEMMA SavePreserves ==
    ASSUME IInv, NEW r \in Uploads, SaveChunk(r)
    PROVE  IInv'
<1> DEFINE k == offset[r] + 1
<1> USE Fields DEF IInv, SaveChunk, Go
<1>1. fd[r] \in Files /\ k \in 1 .. r.size /\ fd[r].name = r.name
  BY DEF TypeOK, WritersInOrder, Created
<1>2. Written(data[fd[r]], k, r) \in Contents
  BY <1>1, WrittenIsContents DEF TypeOK
<1>d. /\ data' = data \/ data' = [data EXCEPT ![fd[r]] = Written(@, k, r)]
      /\ k # r.size \/ r \notin short' => data' = [data EXCEPT ![fd[r]] = Written(@, k, r)]
      /\ short' \in {short, short \cup {r}}
  OBVIOUS
<1>e. data' \in [Files -> Contents]
  <2>1. data \in [Files -> Contents]
    BY DEF TypeOK
  <2>2. CASE data' = [data EXCEPT ![fd[r]] = Written(@, k, r)]
    BY <1>1, <1>2, <2>1, <2>2
  <2> QED BY <1>d, <2>1, <2>2
<1>3. TypeOK'
  BY <1>1, <1>d, <1>e DEF TypeOK, Stages, Handling, InDirectory, downloadVars, processVars
<1>4. FilesInPlace' /\ WritersInOrder'
  BY <1>1 DEF TypeOK, FilesInPlace, Created, Filed, WritersInOrder
<1>a. \A q \in Uploads : AssetOf(q)' = AssetOf(q) /\ (Shared(q)' <=> Shared(q))
  BY SameAssets
<1>5. UncrossedInOrder'
  <2> SUFFICES ASSUME NEW q \in Uploads \ crossed
               PROVE  UncrossedInOrder!(q)'
    BY DEF UncrossedInOrder
  <2>a. UncrossedInOrder!(q) /\ AssetOf(q)' = AssetOf(q) /\ (Shared(q)' <=> Shared(q))
    BY <1>a DEF UncrossedInOrder
  <2>1. CASE q = r
    <3> offset[r] \in Nat /\ data[fd[r]] = [i \in 1 .. offset[r] |-> r]
      BY <2>1 DEF TypeOK, UncrossedInOrder
    <3>1. k # r.size \/ r \notin short' => data'[fd[r]] = [i \in 1 .. k |-> r]
      <4>1. Written(data[fd[r]], k, r) = [i \in 1 .. k |-> r]
        BY WrittenExtends
      <4> QED BY <1>1, <1>d, <4>1 DEF TypeOK
    <3>2. fd[r] = cwd[r.name] /\ SameName(r) = {} /\ AssetOf(r) = NoFile
      BY <2>1 DEF UncrossedInOrder, WritersInOrder, AssetOf, InDirectory
    <3>3. SameName(r)' = {} /\ AssetOf(r)' = NoFile /\ cwd'[r.name] = fd[r] /\ fd[r] # NoFile
      BY <1>1, <1>a, <3>2 DEF TypeOK, SameName, InDirectory, Files
    <3>4. CASE k = r.size
      BY <2>1, <3>1, <3>3, <3>4 DEF TypeOK, Whole, InDirectory
    <3>5. CASE k # r.size
      <4> QED BY <2>1, <3>1, <3>3, <3>5 DEF TypeOK, InDirectory
    <3> QED BY <3>4, <3>5
  <2>2. CASE q # r
    <3>1. /\ stage'[q] = stage[q] /\ offset'[q] = offset[q] /\ fd'[q] = fd[q]
          /\ SameName(q)' \subseteq SameName(q) /\ UNCHANGED <<cwd, stuck>>
          /\ q \in short' <=> q \in short
          /\ \A s \in Uploads : fd'[s] \in {fd[s], NoFile}
      BY <2>2 DEF TypeOK, SameName, InDirectory
    <3>2. \A g \in Files : g # fd[r] => data'[g] = data[g]
      BY <1>1 DEF TypeOK
    <3>3. ASSUME stage[q] \in InDirectory
          PROVE  cwd[q.name] \in Files /\ cwd[q.name] # fd[r]
      <4>1. q.name # r.name
        BY <2>2, <3>3 DEF UncrossedInOrder, SameName, InDirectory
      <4>2. cwd[q.name] # NoFile /\ cwd[q.name] \in Files
        BY <3>3 DEF TypeOK, UncrossedInOrder
      <4>3. cwd[q.name].name = q.name
        BY <4>2 DEF FilesInPlace, Created
      <4> QED BY <1>1, <4>1, <4>2, <4>3
    <3>4. AssetOf(q) # NoFile => AssetOf(q) \in Files
      BY AssetFacts
    <3>5. stage[q] \in InDirectory => data'[cwd[q.name]] = data[cwd[q.name]]
      BY <3>2, <3>3
    <3>6. AssetOf(q) # NoFile /\ ~Shared(q) => data'[AssetOf(q)] = data[AssetOf(q)]
      <4>1. AssetOf(q) # NoFile /\ ~Shared(q) => fd[r] # AssetOf(q)
        BY <2>a
      <4> QED BY <3>2, <3>4, <4>1
    <3>7. stage[q] = "saving" => data'[fd[q]] = data[fd[q]]
      BY <2>a, <3>5 DEF InDirectory
    <3> HIDE DEF IInv, SaveChunk, Go
    <3> QED BY <2>a, <3>1, <3>5, <3>6, <3>7 DEF InDirectory, Whole
  <2> QED BY <2>1, <2>2
<1>6. LosersInOrder'
  BY <1>a, BeatenStays DEF TypeOK, LosersInOrder, InDirectory
<1>7. short \subseteq short'
  OBVIOUS
<1> QED BY <1>3, <1>4, <1>5, <1>6, <1>7, DownloadsAsBefore

\* An upload without an id gets one, and has no asset, unless by sharing it.
LEMMA OpenAuctionPreserves ==
    ASSUME IInv, NEW r \in Uploads, OpenAuction(r)
    PROVE  IInv'
<1> USE Fields DEF IInv, OpenAuction, Go
<1>1. PICK i \in Ids : id' = [id EXCEPT ![r] = i] /\ start' = [start EXCEPT ![i] = r]
  OBVIOUS
<1>2. TypeOK'
  BY <1>1 DEF TypeOK, Stages, Handling, InDirectory, downloadVars, processVars
<1>3. id[r] = NoId /\ i # NoId /\ \A q \in Uploads : id[q] # NoId => id'[q] = id[q]
  BY <1>1, NothingAssumption DEF TypeOK, WritersInOrder
<1>4. FilesInPlace' /\ WritersInOrder'
  <2>1. \A g \in Files, n \in Names : Created(g, n) => Created(g, n)'
    BY DEF TypeOK, Created, Files
  <2>2. \A s \in Uploads : Filed(s) /\ id[s] # NoId => Filed(s)' /\ id'[s] = id[s]
    BY <1>3 DEF TypeOK, Filed
  <2>3. FilesInPlace'
    <3>1. \A n \in Names : cwd[n] # NoFile => Created(cwd[n], n)'
      BY <2>1 DEF TypeOK, FilesInPlace
    <3>2. ASSUME NEW j \in Ids, NEW n \in Names, asset[j][n] # NoFile
          PROVE  /\ Created(asset[j][n], n)'
                 /\ \E s \in Uploads : id'[s] = j /\ s.name = n /\ Filed(s)'
      <4>1. Created(asset[j][n], n) /\ asset[j][n] \in Files
        BY <3>2 DEF TypeOK, FilesInPlace
      <4>2. PICK s \in Uploads : id[s] = j /\ s.name = n /\ Filed(s)
        BY <3>2 DEF FilesInPlace
      <4>3. j # NoId
        BY NothingAssumption
      <4> QED BY <2>1, <2>2, <4>1, <4>2, <4>3
    <3> QED BY <3>1, <3>2 DEF FilesInPlace
  <2>4. WritersInOrder'
    <3>1. \A j \in Ids : start'[j] # NoFile => id'[start'[j]] = j
      BY <1>1, <1>3, NothingAssumption DEF TypeOK, WritersInOrder
    <3> QED BY <1>1, <1>3, <2>1, <3>1 DEF TypeOK, WritersInOrder
  <2> QED BY <2>3, <2>4
<1>5. \A q \in Uploads \ {r} : AssetOf(q)' = AssetOf(q) /\ (Shared(q) => Shared(q)')
  BY <1>1, <1>3, SharedStays DEF TypeOK, AssetOf
<1>6. AssetOf(r) = NoFile /\ (AssetOf(r)' # NoFile => Shared(r)')
  <2>1. AssetOf(r) = NoFile
    BY <1>3 DEF AssetOf
  <2>2. ASSUME AssetOf(r)' # NoFile PROVE Shared(r)'
    <3>1. asset[i][r.name] # NoFile /\ id'[r] = i
      BY <1>1, <1>3, <2>2 DEF TypeOK, AssetOf
    <3>2. PICK s \in Uploads : id[s] = i /\ Filed(s)
      BY <3>1 DEF FilesInPlace
    <3>3. s # r /\ id'[s] = i
      BY <1>1, <1>3, <3>2 DEF TypeOK
    <3> QED BY <1>3, <3>1, <3>3 DEF Shared
  <2> QED BY <2>1, <2>2
<1>7. UncrossedInOrder'
  <2> SUFFICES ASSUME NEW q \in Uploads \ crossed
               PROVE  UncrossedInOrder!(q)'
    BY DEF UncrossedInOrder
  <2>1. UncrossedInOrder!(q) /\ SameName(q)' = SameName(q)
    BY DEF TypeOK, UncrossedInOrder, SameName, InDirectory
  <2>2. CASE q = r
    BY <1>6, <2>1, <2>2 DEF TypeOK, InDirectory, Whole
  <2>3. CASE q # r
    BY <1>5, <2>1, <2>3 DEF TypeOK, InDirectory, Whole
  <2> QED BY <2>2, <2>3
<1>8. LosersInOrder'
  <2>1. \A q \in Uploads : Beaten(q) => Beaten(q)'
    BY <1>5, <1>6, BeatenStays
  <2> QED BY <1>5, <2>1 DEF TypeOK, LosersInOrder, InDirectory
<1>9. \A q \in Uploads : AssetOf(q) # NoFile => AssetOf(q)' = AssetOf(q)
  BY <1>5, <1>6
<1> QED BY <1>2, <1>3, <1>4, <1>7, <1>8, <1>9, DownloadsKept

\* The file that is moved is nobody's asset yet; when its owner has met no
\* other upload, nobody writes to it any more.
LEMMA MovePreserves ==
    ASSUME IInv, NEW r \in Uploads, MoveAsset(r)
    PROVE  IInv'
<1> DEFINE f == cwd[r.name]
<1> USE Fields DEF IInv, MoveAsset, Go, Taken
<1>1. /\ f \in Files /\ Created(f, r.name) /\ \A i \in Ids, n \in Names : asset[i][n] # f
      /\ id[r] \in Ids /\ id[r] # NoId
  BY DEF TypeOK, FilesInPlace, WritersInOrder
<1>2. TypeOK'
  BY <1>1 DEF TypeOK, Stages, Handling, Files, downloadVars, processVars
<1>3. WritersInOrder'
  BY DEF TypeOK, WritersInOrder, Created
<1>a. \A i \in Ids, n \in Names :
        asset'[i][n] = IF i = id[r] /\ n = r.name THEN f ELSE asset[i][n]
  BY <1>1 DEF TypeOK
<1>4. FilesInPlace'
  BY <1>1, <1>a DEF TypeOK, FilesInPlace, Created, Filed, Files
<1>b. \A q \in Uploads :
        /\ Shared(q)' <=> Shared(q)
        /\ AssetOf(q)' = IF id[q] = id[r] /\ q.name = r.name THEN f ELSE AssetOf(q)
  BY <1>1, <1>a DEF TypeOK, AssetOf, Shared
<1>c. \A q \in Uploads \ {r} : ~Shared(q) => AssetOf(q)' = AssetOf(q)
  BY <1>1, <1>b DEF Shared
<1>d. \A q \in Uploads : AssetOf(q) # NoFile => AssetOf(q)' # NoFile
  BY <1>1, <1>b
<1>5. UncrossedInOrder'
  <2> SUFFICES ASSUME NEW q \in Uploads \ crossed
               PROVE  UncrossedInOrder!(q)'
    BY DEF UncrossedInOrder
  <2>a. UncrossedInOrder!(q)
    BY DEF UncrossedInOrder
  <2>1. CASE q = r
    <3>1. SameName(r) = {} /\ (r \notin short => data[f] = Whole(r))
      BY <2>1 DEF UncrossedInOrder, InDirectory
    <3>2. \A s \in Uploads : fd[s] # f
      BY <1>1, <3>1 DEF WritersInOrder, Created, SameName, InDirectory
    <3> QED BY <1>1, <1>b, <2>1, <3>1, <3>2 DEF TypeOK, InDirectory, Whole
  <2>2. CASE q # r
    <3>1. stage[q] \in InDirectory => q.name # r.name
      BY <2>2 DEF UncrossedInOrder, SameName, InDirectory
    <3>2. /\ stage'[q] = stage[q] /\ SameName(q)' \subseteq SameName(q)
          /\ stage[q] \in InDirectory => cwd'[q.name] = cwd[q.name]
      BY <2>2, <3>1 DEF TypeOK, SameName, InDirectory
    <3> QED BY <1>b, <1>c, <1>d, <2>2, <2>a, <3>2 DEF InDirectory, Whole
  <2> QED BY <2>1, <2>2
<1>6. LosersInOrder'
  <2>1. \A q \in Uploads : Beaten(q) => Beaten(q)'
    BY <1>d, BeatenStays
  <2>2. AssetOf(r)' # NoFile
    BY <1>1, <1>b
  <2>3. ASSUME NEW q \in Uploads \ {r}, q.name = r.name, stage[q] \in InDirectory
        PROVE  Beaten(q)'
    <3>1. q \in SameName(r) /\ r \in SameName(q)
      BY <2>3 DEF SameName, InDirectory
    <3>2. q \in crossed /\ r \in crossed
      BY <2>3, <3>1 DEF UncrossedInOrder, InDirectory
    <3> QED BY <2>2, <2>3, <3>2 DEF Beaten
  <2>4. ASSUME NEW q \in Uploads, q.name # r.name
        PROVE  cwd'[q.name] = cwd[q.name]
    BY <2>4 DEF TypeOK
  <2> QED BY <1>d, <2>1, <2>2, <2>3, <2>4 DEF TypeOK, LosersInOrder, InDirectory
<1>7. \A q \in Uploads : AssetOf(q) # NoFile /\ ~Shared(q) => AssetOf(q)' = AssetOf(q)
  <2>1. AssetOf(r) # NoFile => Shared(r)
    BY AssetFacts DEF Filed
  <2> QED BY <1>c, <2>1
<1>8. \A i \in Ids, n \in Names : asset[i][n] # NoFile => asset'[i][n] # NoFile
  BY <1>1, <1>a
<1> QED BY <1>2, <1>3, <1>4, <1>5, <1>6, <1>7, <1>8, DownloadsKept

\* A file that is gone was taken by another; a rename that fails is on record.
LEMMA MoveNothingPreserves ==
    ASSUME IInv, NEW r \in Uploads, MoveNothing(r)
    PROVE  IInv'
<1> USE Fields DEF IInv, MoveNothing, Go, diskVars
<1>1. TypeOK'
  BY DEF TypeOK, Stages, Handling, downloadVars, processVars
<1>2. FilesInPlace' /\ WritersInOrder'
  BY DEF TypeOK, FilesInPlace, Created, Filed, WritersInOrder
<1>a. \A q \in Uploads : AssetOf(q)' = AssetOf(q) /\ (Shared(q)' <=> Shared(q))
  BY SameAssets
<1>3. UncrossedInOrder'
  <2> SUFFICES ASSUME NEW q \in Uploads \ crossed
               PROVE  UncrossedInOrder!(q)'
    BY DEF UncrossedInOrder
  <2>1. UncrossedInOrder!(q) /\ AssetOf(q)' = AssetOf(q) /\ (Shared(q)' <=> Shared(q))
    BY <1>a DEF UncrossedInOrder
  <2>2. SameName(q)' \subseteq SameName(q)
    BY DEF TypeOK, SameName, InDirectory
  <2>3. stuck \subseteq stuck' /\ (q = r => cwd[r.name] = NoFile \/ q \in stuck')
    OBVIOUS
  <2>4. stage'[q] = (IF q = r THEN "moved" ELSE stage[q]) /\ stage[r] = "filing"
    BY DEF TypeOK
  <2> QED BY <2>1, <2>2, <2>3, <2>4 DEF InDirectory, Whole
<1>4. LosersInOrder'
  BY <1>a, BeatenStays DEF TypeOK, LosersInOrder, InDirectory
<1> QED BY <1>1, <1>2, <1>3, <1>4, DownloadsAsBefore

LEMMA UploadStepPreserves ==
    ASSUME IInv, NEW r \in Uploads, UploadStep(r)
    PROVE  IInv'
BY ReceivePreserves, LeavePreserves, OpenPreserves, SavePreserves, OpenAuctionPreserves,
   MovePreserves, MoveNothingPreserves DEF UploadStep, ServeUpload

-----------------------------------------------------------------------------
(* The steps of a download.  An asset that a download reads is whole and   *)
(* stays so, unless its owner's upload has met another.                    *)

LEMMA AssetIsWhole ==
    ASSUME IInv, NEW r \in Uploads, Good(r), AssetOf(r) # NoFile
    PROVE  /\ data[AssetOf(r)] = Whole(r)
           /\ Len(data[AssetOf(r)]) = r.size
           /\ \A i \in 1 .. r.size : data[AssetOf(r)][i] = r
<1>1. data[AssetOf(r)] = Whole(r)
  BY DEF IInv, UncrossedInOrder, Good
<1> QED BY <1>1, Fields DEF Whole

\* What a worker that knows its auction finds under its path.
LEMMA FoundAsset ==
    ASSUME IInv, NEW d \in Downloads, sas[d] \in Sending
    PROVE  /\ saw[d] \in Uploads /\ AssetFound(d) = AssetOf(saw[d])
           /\ AssetFound(d) \in Files \cup {NoFile}
           /\ AssetFound(d) # NoFile => Len(data[AssetFound(d)]) \in Nat
<1>1. saw[d] \in Uploads /\ id[saw[d]] = d.of /\ d.of \in Ids /\ d.of # NoId
  BY Asked DEF IInv, DownloadsInOrder
<1>2. AssetFound(d) \in Files \cup {NoFile}
  BY <1>1, Fields DEF IInv, TypeOK, AssetFound
<1> QED BY <1>1, <1>2 DEF AssetFound, AssetOf, IInv, TypeOK, Contents

\* Only the downloads' own order is left to show.
LEMMA DownloadPreserves ==
    ASSUME IInv, TypeOK', NEW d \in Downloads, UNCHANGED <<diskVars, uploadVars>>,
           DownloadsInOrder!(d)',
           \A e \in Downloads \ {d} :
                /\ sas'[e] = sas[e] /\ saw'[e] = saw[e] /\ size'[e] = size[e]
                /\ src'[e] = src[e] /\ pos'[e] = pos[e]
                /\ wire'[e] = wire[e] /\ got'[e] = got[e] /\ result'[e] = result[e]
    PROVE  IInv'
<1>1. DownloadsInOrder'
  <2> SUFFICES ASSUME NEW e \in Downloads \ {d} PROVE DownloadsInOrder!(e)'
    BY DEF DownloadsInOrder
  <2>1. DownloadsInOrder!(e)
    BY DEF IInv, DownloadsInOrder
  <2>2. UNCHANGED <<asset, id, crossed, short>>
    BY DEF diskVars, uploadVars
  <2>3. /\ sas'[e] = sas[e] /\ saw'[e] = saw[e] /\ size'[e] = size[e]
        /\ src'[e] = src[e] /\ pos'[e] = pos[e]
        /\ wire'[e] = wire[e] /\ got'[e] = got[e] /\ result'[e] = result[e]
    OBVIOUS
  <2>4. saw[e] \in Uploads =>
          AssetOf(saw[e])' = AssetOf(saw[e]) /\ (Good(saw[e])' <=> Good(saw[e]))
    BY <2>2, <2>3 DEF Good, AssetOf, Shared
  <2>5. saw[e] \in Uploads /\ Flowing(e) => Flowing(e)'
    BY ZenonT(60), <2>3, <2>4 DEF Flowing
  <2>6. AssetFound(e)' = AssetFound(e)
    BY <2>2, <2>3 DEF AssetFound
  <2> QED BY <2>1, <2>2, <2>3, <2>4, <2>5, <2>6
<1> QED BY <1>1, UploadsKept DEF IInv

LEMMA WorkerTyped ==
    ASSUME TypeOK, NEW d \in Downloads, NEW x \in {"unsent", "closed"} \cup Sending
    PROVE  /\ [sas EXCEPT ![d] = x] \in [Downloads -> {"unsent", "closed"} \cup Sending]
           /\ [pos EXCEPT ![d] = 0] \in [Downloads -> Nat]
           /\ [src EXCEPT ![d] = NoFile] \in [Downloads -> Files \cup {NoFile}]
BY DEF TypeOK

LEMMA FindPreserves ==
    ASSUME IInv, NEW d \in Downloads, FindAsset(d)
    PROVE  IInv'
<1>1. TypeOK'
  <2>1. CASE start[d.of] # NoFile
    <3>1. /\ sas' = [sas EXCEPT ![d] = "found"] /\ UNCHANGED <<src, pos, result>>
          /\ saw' = [saw EXCEPT ![d] = start[d.of]] /\ start[d.of] \in Uploads
      BY <2>1, Asked DEF FindAsset, IInv, TypeOK
    <3>2. /\ sas' \in [Downloads -> {"unsent", "closed"} \cup Sending]
          /\ saw' \in [Downloads -> Uploads \cup {NoFile}]
      BY <3>1, WorkerTyped DEF IInv, Sending, TypeOK
    <3> QED BY <3>1, <3>2 DEF IInv, TypeOK, FindAsset, diskVars, uploadVars, processVars
  <2>2. CASE start[d.of] = NoFile
    <3>1. Hang(d) /\ result' = [result EXCEPT ![d] = "failed"] /\ UNCHANGED saw
      BY <2>2 DEF FindAsset
    <3>2. /\ sas' \in [Downloads -> {"unsent", "closed"} \cup Sending]
          /\ pos' \in [Downloads -> Nat] /\ src' \in [Downloads -> Files \cup {NoFile}]
      BY <3>1, WorkerTyped DEF IInv, Hang
    <3>3. result' \in [Downloads -> {"none", "received", "failed"}]
      BY <3>1 DEF IInv, TypeOK
    <3> QED BY <3>1, <3>2, <3>3 DEF IInv, TypeOK, FindAsset, diskVars, uploadVars, processVars
  <2> QED BY <2>1, <2>2
<1> USE DEF IInv, FindAsset, Hang, uploadVars, diskVars
<1>2. DownloadsInOrder!(d)'
  <2>1. DownloadsInOrder!(d) /\ sas[d] = "unsent" /\ UNCHANGED <<size, wire, got, id>>
    BY DEF DownloadsInOrder
  <2>2. CASE start[d.of] # NoFile
    <3>1. start[d.of] \in Uploads /\ id[start[d.of]] = d.of
      BY <2>2, Asked DEF TypeOK, WritersInOrder
    <3>2. /\ sas'[d] = "found" /\ saw'[d] = start[d.of] /\ pos'[d] = pos[d] /\ pos[d] = 0
          /\ result'[d] = "none" /\ size'[d] = NoSize
          /\ got'[d] = <<>> /\ wire'[d] = <<>> /\ id'[saw'[d]] = d.of
      BY <2>1, <2>2, <3>1 DEF TypeOK
    <3> QED BY <3>1, <3>2 DEF Sending
  <2>3. CASE start[d.of] = NoFile
    BY <2>1, <2>3 DEF TypeOK, Sending
  <2> QED BY <2>2, <2>3
<1>3. \A e \in Downloads \ {d} :
        /\ sas'[e] = sas[e] /\ saw'[e] = saw[e]
        /\ src'[e] = src[e] /\ pos'[e] = pos[e] /\ result'[e] = result[e]
  <2>1. CASE start[d.of] # NoFile
    BY <2>1 DEF TypeOK
  <2>2. CASE start[d.of] = NoFile
    BY <2>2 DEF TypeOK
  <2> QED BY <2>1, <2>2
<1> QED BY <1>1, <1>2, <1>3, DownloadPreserves

LEMMA SendSizePreserves ==
    ASSUME IInv, NEW d \in Downloads, SendSize(d)
    PROVE  IInv'
<1>1. /\ AssetFound(d) # NoFile =>
            AssetFound(d) \in Files /\ Len(data[AssetFound(d)]) \in Nat
      /\ saw[d] \in Uploads /\ AssetFound(d) = AssetOf(saw[d])
  BY FoundAsset DEF SendSize, Sending
<1>2. TypeOK'
  <2>1. CASE AssetFound(d) = NoFile
    <3>1. Hang(d) /\ UNCHANGED size
      BY <2>1 DEF SendSize
    <3>2. /\ sas' \in [Downloads -> {"unsent", "closed"} \cup Sending]
          /\ pos' \in [Downloads -> Nat] /\ src' \in [Downloads -> Files \cup {NoFile}]
      BY <3>1, WorkerTyped DEF IInv, Hang
    <3> QED BY <3>1, <3>2 DEF IInv, TypeOK, SendSize, diskVars, uploadVars, processVars
  <2>2. CASE AssetFound(d) # NoFile
    <3>1. /\ sas' = [sas EXCEPT ![d] = "sized"] /\ UNCHANGED <<src, pos>>
          /\ size' = [size EXCEPT ![d] = Len(data[AssetFound(d)])]
      BY <2>2 DEF SendSize
    <3>2. sas' \in [Downloads -> {"unsent", "closed"} \cup Sending]
      BY <3>1, WorkerTyped DEF IInv, Sending
    <3>3. size' \in [Downloads -> Nat \cup {NoSize}]
      BY <1>1, <2>2, <3>1 DEF IInv, TypeOK
    <3> QED BY <3>1, <3>2, <3>3 DEF IInv, TypeOK, SendSize, diskVars, uploadVars, processVars
  <2> QED BY <2>1, <2>2
<1>3. DownloadsInOrder!(d)'
  <2>1. /\ DownloadsInOrder!(d) /\ pos[d] = 0 /\ size[d] = NoSize /\ sas[d] = "found"
        /\ UNCHANGED <<got, wire, result, saw, id, asset, crossed, short>>
    BY DEF IInv, SendSize, DownloadsInOrder, uploadVars, diskVars
  <2>2. CASE AssetFound(d) = NoFile
    <3>1. sas'[d] = "closed" /\ size'[d] = NoSize
      BY <2>1, <2>2 DEF IInv, TypeOK, SendSize, Hang
    <3>2. Good(saw[d])' => Good(saw[d])
      BY <2>1 DEF Good, Shared
    <3> QED BY <2>1, <3>1, <3>2 DEF Sending
  <2>3. CASE AssetFound(d) # NoFile
    <3>1. /\ sas'[d] = "sized" /\ size'[d] = Len(data[AssetFound(d)]) /\ pos'[d] = 0
          /\ size'[d] # NoSize
      BY <1>1, <2>1, <2>3, NothingAssumption DEF IInv, TypeOK, SendSize
    <3>2. AssetFound(d)' = AssetFound(d) /\ AssetOf(saw[d])' = AssetOf(saw[d])
          /\ (Good(saw[d])' <=> Good(saw[d]))
      BY <2>1 DEF AssetFound, AssetOf, Good, Shared
    <3>3. ASSUME Good(saw[d])', result[d] = "none" PROVE Flowing(d)'
      <4>1. got'[d] = <<>> /\ wire'[d] = <<>>
        BY <2>1, <3>3
      <4>2. size'[d] = saw[d].size /\ saw[d].size \in Nat
        BY <1>1, <2>3, <3>1, <3>2, <3>3, AssetIsWhole, Fields
      <4> QED BY <1>1, <2>1, <2>3, <3>1, <3>2, <4>1, <4>2 DEF Flowing
    <3>4. result[d] = "none" => got[d] = <<>> /\ wire[d] = <<>>
      BY <2>1
    <3> QED BY <1>1, <2>1, <2>3, <3>1, <3>2, <3>3, <3>4 DEF Sending
  <2> QED BY <2>2, <2>3
<1> QED BY <1>2, <1>3, DownloadPreserves DEF IInv, TypeOK, SendSize, Hang

LEMMA OpenAssetPreserves ==
    ASSUME IInv, NEW d \in Downloads, OpenAsset(d)
    PROVE  IInv'
<1>1. /\ AssetFound(d) \in Files /\ AssetFound(d) # NoFile
      /\ saw[d] \in Uploads /\ AssetFound(d) = AssetOf(saw[d])
      /\ DownloadsInOrder!(d) /\ sas[d] = "sized" /\ pos[d] = 0
      /\ UNCHANGED <<diskVars, uploadVars, saw, size, wire, got, result, processVars>>
  BY FoundAsset DEF OpenAsset, Sending, IInv, DownloadsInOrder
<1>2. UNCHANGED <<id, asset, crossed, short>>
  BY <1>1 DEF diskVars, uploadVars
<1>3. AssetOf(saw[d])' = AssetOf(saw[d]) /\ (Good(saw[d])' <=> Good(saw[d]))
      /\ AssetFound(d)' = AssetFound(d)
  BY <1>1, <1>2 DEF AssetFound, AssetOf, Good, Shared
<1>4. CASE Hang(d)
  <2>1. TypeOK'
    <3>1. /\ sas' \in [Downloads -> {"unsent", "closed"} \cup Sending]
          /\ pos' \in [Downloads -> Nat] /\ src' \in [Downloads -> Files \cup {NoFile}]
      BY <1>4, WorkerTyped DEF IInv, Hang
    <3> QED BY <1>1, <3>1 DEF IInv, TypeOK, diskVars, uploadVars, processVars
  <2>2. sas'[d] = "closed"
    BY <1>4 DEF IInv, TypeOK, Hang
  <2>3. Flowing(d) => Flowing(d)'
    BY <1>1, <1>3, <2>2 DEF Flowing
  <2>4. DownloadsInOrder!(d)'
    BY <1>1, <1>3, <2>2, <2>3 DEF Sending
  <2> QED BY <1>1, <1>4, <2>1, <2>4, DownloadPreserves DEF IInv, TypeOK, Hang
<1>5. CASE /\ sas' = [sas EXCEPT ![d] = "sending"]
           /\ src' = [src EXCEPT ![d] = AssetFound(d)]
           /\ UNCHANGED pos
  <2>1. TypeOK'
    <3>1. sas' \in [Downloads -> {"unsent", "closed"} \cup Sending]
      BY <1>5, WorkerTyped DEF IInv, Sending
    <3>2. src' \in [Downloads -> Files \cup {NoFile}]
      BY <1>1, <1>5 DEF IInv, TypeOK
    <3> QED BY <1>1, <1>5, <3>1, <3>2 DEF IInv, TypeOK, diskVars, uploadVars, processVars
  <2>2. sas'[d] = "sending" /\ src'[d] = AssetFound(d) /\ pos'[d] = 0
    BY <1>1, <1>5 DEF IInv, TypeOK
  <2>3. ASSUME Flowing(d), result[d] = "none" PROVE Flowing(d)'
    <3>1. got'[d] = <<>> /\ wire'[d] = <<>> /\ size'[d] = saw[d].size /\ saw[d].size \in Nat
      BY <1>1, <2>3, Fields DEF Flowing
    <3> QED BY <1>1, <1>3, <2>2, <3>1 DEF Flowing
  <2>4. DownloadsInOrder!(d)'
    BY <1>1, <1>2, <1>3, <2>2, <2>3 DEF Sending
  <2> QED BY <1>1, <1>5, <2>1, <2>4, DownloadPreserves DEF IInv, TypeOK
<1> QED BY <1>4, <1>5 DEF OpenAsset

\* The step of one download that leaves its worker's variables but for some,
\* and the facts about it that the others rest on.
LEMMA DownloadFacts ==
    ASSUME IInv, NEW d \in Downloads, UNCHANGED <<diskVars, uploadVars, saw>>
    PROVE  /\ DownloadsInOrder!(d)
           /\ UNCHANGED <<id, asset>> /\ AssetFound(d)' = AssetFound(d)
           /\ AssetOf(saw[d])' = AssetOf(saw[d]) /\ (Good(saw[d])' <=> Good(saw[d]))
BY DEF IInv, DownloadsInOrder, AssetFound, AssetOf, Good, Shared, diskVars, uploadVars

LEMMA SendChunkPreserves ==
    ASSUME IInv, NEW d \in Downloads, SendChunk(d)
    PROVE  IInv'
<1> DEFINE f == src[d]
           c == data[f][pos[d] + 1]
<1>0. /\ UNCHANGED <<diskVars, uploadVars, sas, saw, size, src, got, result, processVars>>
      /\ sas[d] = "sending" /\ result[d] = "none" /\ pos[d] < Len(data[f])
      /\ wire' = [wire EXCEPT ![d] = Append(@, c)]
      /\ pos' = [pos EXCEPT ![d] = @ + 1]
  BY DEF SendChunk, Room, Unsent
<1>1. f \in Files /\ pos[d] \in Nat /\ pos[d] + 1 \in 1 .. Len(data[f])
  BY <1>0 DEF IInv, TypeOK, DownloadsInOrder, Contents
<1>2. c \in Uploads \cup {Hole}
  BY <1>1 DEF IInv, TypeOK, Contents
<1>3. TypeOK'
  <2>1. wire' \in [Downloads -> Seq(Uploads \cup {Hole, Delimiter})] /\ pos' \in [Downloads -> Nat]
    BY <1>0, <1>1, <1>2 DEF IInv, TypeOK
  <2> QED BY <1>0, <2>1 DEF IInv, TypeOK, diskVars, uploadVars, processVars
<1>4. wire'[d] = Append(wire[d], c) /\ pos'[d] = pos[d] + 1 /\ Len(wire[d]) \in Nat
  BY <1>0, <1>1 DEF IInv, TypeOK
<1>5. ASSUME Good(saw[d]), Flowing(d) PROVE Flowing(d)'
  <2> DEFINE r == saw[d]
             n == Len(got[d])
  <2>1. r \in Uploads /\ f = AssetOf(r) /\ size[d] = r.size /\ r.size \in Nat /\ n \in Nat
    BY <1>0, <1>5, Fields DEF Flowing, IInv, TypeOK, DownloadsInOrder, Sending
  <2>a. Len(data[f]) = r.size /\ \A i \in 1 .. r.size : data[f][i] = r
    BY <1>5, <2>1, AssetIsWhole DEF Flowing
  <2>b. pos[d] = n + Len(wire[d])
    BY <1>0, <1>5 DEF Flowing
  <2>2. c = r /\ pos[d] + 1 <= size[d] /\ pos[d] = n + Len(wire[d])
    <3>1. pos[d] + 1 \in 1 .. r.size
      BY <1>1, <2>a
    <3>2. c = r
      BY <2>a, <3>1
    <3>3. pos[d] + 1 <= size[d]
      BY <2>1, <3>1
    <3> QED BY <2>b, <3>2, <3>3
  <2>3. Len(wire'[d]) = Len(wire[d]) + 1
    BY <1>2, <1>4 DEF IInv, TypeOK
  <2>4. \A i \in 1 .. Len(wire'[d]) :
            wire'[d][i] = IF n + i <= size[d] THEN r ELSE Delimiter
    <3> SUFFICES ASSUME NEW i \in 1 .. Len(wire[d]) + 1
                 PROVE  wire'[d][i] = IF n + i <= size[d] THEN r ELSE Delimiter
      BY <2>3
    <3>1. CASE i = Len(wire[d]) + 1
      BY <1>4, <2>1, <2>2, <3>1 DEF IInv, TypeOK
    <3>2. CASE i \in 1 .. Len(wire[d])
      BY <1>4, <1>5, <3>2 DEF IInv, TypeOK, Flowing
    <3> QED BY <1>4, <3>1, <3>2
  <2>5. saw'[d] = r /\ got'[d] = got[d] /\ size'[d] = size[d] /\ sas'[d] = sas[d] /\ src'[d] = f
        /\ AssetOf(r)' = AssetOf(r)
    BY <1>0, DownloadFacts
  <2>6. pos'[d] = n + Len(wire'[d]) /\ pos'[d] <= size[d]
    <3> HIDE DEF n, c, f
    <3> QED BY <1>4, <2>1, <2>2, <2>3
  <2> QED BY <1>5, <2>1, <2>4, <2>5, <2>6 DEF Flowing
<1>6. DownloadsInOrder!(d)'
  BY <1>0, <1>5, DownloadFacts DEF Sending
<1> QED BY <1>0, <1>3, <1>6, DownloadPreserves DEF IInv, TypeOK

\* The worker has left with what was sent so far.
LEMMA HangPreserves ==
    ASSUME IInv, NEW d \in Downloads, sas[d] \in Sending, Hang(d),
           UNCHANGED <<diskVars, uploadVars, saw, size, got, result, processVars>>,
           wire' \in [Downloads -> Seq(Uploads \cup {Hole, Delimiter})],
           \A e \in Downloads \ {d} : wire'[e] = wire[e],
           \/ wire'[d] = wire[d]
           \/ /\ sas[d] = "sending" /\ result[d] = "none"
              /\ Good(saw[d]) /\ Flowing(d) => Flowing(d)'
    PROVE  IInv'
<1>1. TypeOK'
  <2>1. /\ sas' \in [Downloads -> {"unsent", "closed"} \cup Sending]
        /\ pos' \in [Downloads -> Nat] /\ src' \in [Downloads -> Files \cup {NoFile}]
    BY WorkerTyped DEF IInv, Hang
  <2> QED BY <2>1 DEF IInv, TypeOK, diskVars, uploadVars, processVars
<1>2. sas'[d] = "closed"
  BY DEF IInv, TypeOK, Hang
<1>3. wire'[d] = wire[d] /\ Flowing(d) => Flowing(d)'
  BY <1>2, DownloadFacts DEF Flowing
<1>4. DownloadsInOrder!(d)'
  BY <1>2, <1>3, DownloadFacts DEF Sending
<1> QED BY <1>1, <1>4, DownloadPreserves DEF IInv, TypeOK, Hang

LEMMA SendFailsPreserves ==
    ASSUME IInv, NEW d \in Downloads, SendFails(d)
    PROVE  IInv'
BY HangPreserves DEF SendFails, IInv, TypeOK

LEMMA SendDelimiterPreserves ==
    ASSUME IInv, NEW d \in Downloads, SendDelimiter(d)
    PROVE  IInv'
<1>0. /\ UNCHANGED <<diskVars, uploadVars, saw, size, got, result, processVars>>
      /\ sas[d] = "sending" /\ result[d] = "none" /\ ~(pos[d] < Len(data[src[d]]))
      /\ wire' = [wire EXCEPT ![d] = Append(@, Delimiter)] /\ Hang(d)
  BY DEF SendDelimiter, Room, Unsent
<1>1. /\ wire' \in [Downloads -> Seq(Uploads \cup {Hole, Delimiter})]
      /\ wire'[d] = Append(wire[d], Delimiter) /\ Len(wire[d]) \in Nat
      /\ sas'[d] = "closed"
      /\ \A e \in Downloads \ {d} : wire'[e] = wire[e]
  BY <1>0 DEF IInv, TypeOK, Hang
<1>2. ASSUME Good(saw[d]), Flowing(d) PROVE Flowing(d)'
  <2> DEFINE r == saw[d]
             n == Len(got[d])
  <2>1. r \in Uploads /\ src[d] = AssetOf(r) /\ size[d] = r.size /\ r.size \in Nat /\ n \in Nat
        /\ pos[d] \in Nat
    BY <1>0, <1>2, Fields DEF Flowing, IInv, TypeOK, DownloadsInOrder, Sending
  <2>2. n + Len(wire[d]) = size[d]
    BY <1>0, <1>1, <1>2, <2>1, AssetIsWhole DEF Flowing
  <2>3. \A i \in 1 .. Len(wire'[d]) :
            wire'[d][i] = IF n + i <= size[d] THEN r ELSE Delimiter
    <3> SUFFICES ASSUME NEW i \in 1 .. Len(wire[d]) + 1
                 PROVE  wire'[d][i] = IF n + i <= size[d] THEN r ELSE Delimiter
      BY <1>1 DEF IInv, TypeOK
    <3>1. CASE i = Len(wire[d]) + 1
      BY <1>1, <2>1, <2>2, <3>1 DEF IInv, TypeOK
    <3>2. CASE i \in 1 .. Len(wire[d])
      BY <1>1, <1>2, <3>2 DEF IInv, TypeOK, Flowing
    <3> QED BY <1>1, <3>1, <3>2
  <2>4. saw'[d] = r /\ got'[d] = got[d] /\ size'[d] = size[d] /\ AssetOf(r)' = AssetOf(r)
    BY <1>0, DownloadFacts
  <2> QED BY <1>1, <1>2, <2>3, <2>4 DEF Flowing
<1> QED BY <1>0, <1>1, <1>2, HangPreserves DEF Sending

LEMMA TakeChunkPreserves ==
    ASSUME IInv, NEW d \in Downloads, TakeChunk(d)
    PROVE  IInv'
<1> DEFINE n == Len(got[d])
           w == wire[d]
<1>0. /\ UNCHANGED <<diskVars, uploadVars, sas, saw, size, src, pos, result, processVars>>
      /\ sas[d] # "unsent" /\ result[d] = "none" /\ size[d] # NoSize
      /\ w # <<>> /\ n < size[d]
      /\ got' = [got EXCEPT ![d] = Append(@, Head(w))]
      /\ wire' = [wire EXCEPT ![d] = Tail(@)]
  BY DEF TakeChunk, Waits
<1>1. /\ w \in Seq(Uploads \cup {Hole, Delimiter}) /\ n \in Nat /\ size[d] \in Nat
      /\ got[d] \in Seq(Uploads \cup {Hole, Delimiter})
      /\ Head(w) = w[1] /\ w[1] \in Uploads \cup {Hole, Delimiter} /\ Len(w) \in Nat \ {0}
  BY <1>0 DEF IInv, TypeOK
<1>2. TypeOK'
  <2>1. /\ wire' \in [Downloads -> Seq(Uploads \cup {Hole, Delimiter})]
        /\ got' \in [Downloads -> Seq(Uploads \cup {Hole, Delimiter})]
    <3>1. Append(got[d], w[1]) \in Seq(Uploads \cup {Hole, Delimiter})
          /\ Tail(w) \in Seq(Uploads \cup {Hole, Delimiter})
      BY <1>1
    <3>2. got' = [got EXCEPT ![d] = Append(got[d], w[1])] /\ wire' = [wire EXCEPT ![d] = Tail(w)]
      BY <1>0, <1>1
    <3> HIDE DEF n, w
    <3> QED BY <3>1, <3>2 DEF IInv, TypeOK
  <2> QED BY <1>0, <2>1 DEF IInv, TypeOK, diskVars, uploadVars, processVars
<1>a. got'[d] = Append(got[d], w[1]) /\ wire'[d] = Tail(w)
  BY <1>0 DEF IInv, TypeOK
<1>3. /\ got'[d] = Append(got[d], w[1]) /\ Len(got'[d]) = n + 1
      /\ wire'[d] = Tail(w) /\ Len(wire'[d]) = Len(w) - 1
      /\ \A i \in 1 .. Len(wire'[d]) : wire'[d][i] = w[i + 1]
  BY <1>1, <1>a
<1>4. ASSUME saw[d] \in Uploads, Flowing(d) PROVE Flowing(d)'
  <2> DEFINE r == saw[d]
  <2>1. w[1] = r
    <3>1. w[1] = IF n + 1 <= size[d] THEN r ELSE Delimiter
      BY <1>1, <1>4 DEF Flowing
    <3> QED BY <1>0, <1>1, <3>1
  <2>2. \A i \in 1 .. n + 1 : got'[d][i] = r
    BY <1>1, <1>3, <1>4, <2>1 DEF Flowing
  <2>3. \A i \in 1 .. Len(wire'[d]) :
            wire'[d][i] = IF n + 1 + i <= size[d] THEN r ELSE Delimiter
    <3> SUFFICES ASSUME NEW i \in 1 .. Len(wire'[d])
                 PROVE  wire'[d][i] = IF n + 1 + i <= size[d] THEN r ELSE Delimiter
      OBVIOUS
    <3> HIDE DEF n, w
    <3>0. Len(wire'[d]) = Len(w) - 1 /\ Len(w) \in Nat \ {0} /\ n \in Nat
      BY <1>1, <1>3
    <3>1. i + 1 \in 1 .. Len(w) /\ n + (i + 1) = n + 1 + i
      BY <3>0
    <3> USE DEF n, w
    <3>2. w[i + 1] = IF n + (i + 1) <= size[d] THEN r ELSE Delimiter
      BY <1>4, <3>1 DEF Flowing
    <3> QED BY <1>3, <3>1, <3>2
  <2>4. saw'[d] = r /\ size'[d] = size[d] /\ sas'[d] = sas[d] /\ src'[d] = src[d]
        /\ pos'[d] = pos[d] /\ AssetOf(r)' = AssetOf(r)
    BY <1>0, DownloadFacts
  <2>5. sas[d] = "sending" => pos[d] = n + 1 + Len(wire'[d])
    <3>1. sas[d] = "sending" => pos[d] = n + Len(w)
      BY <1>4 DEF Flowing
    <3> HIDE DEF n, w
    <3>2. Len(wire'[d]) = Len(w) - 1 /\ Len(w) \in Nat \ {0} /\ n \in Nat
      BY <1>1, <1>3
    <3> QED BY <3>1, <3>2
  <2> HIDE DEF n, w
  <2>6. n + 1 <= size[d]
    BY <1>0, <1>1
  <2> QED BY <1>3, <1>4, <2>2, <2>3, <2>4, <2>5, <2>6 DEF Flowing
<1>5. DownloadsInOrder!(d)'
  BY <1>0, <1>4, DownloadFacts DEF Sending
<1> QED BY <1>0, <1>2, <1>5, DownloadPreserves DEF IInv, TypeOK

\* A command that does not end in "received" promises nothing; one that does
\* has read all of the file and the delimiter.
LEMMA EndsPreserves ==
    ASSUME IInv, NEW d \in Downloads, Waits(d), NEW how \in {"received", "failed"}, Ends(d, how),
           how = "received" => size[d] # NoSize /\ Len(got[d]) = size[d]
    PROVE  IInv'
<1>0. /\ UNCHANGED <<diskVars, uploadVars, sas, saw, src, pos, processVars>>
      /\ sas[d] # "unsent" /\ result[d] = "none"
      /\ result' = [result EXCEPT ![d] = how]
      /\ got' = [got EXCEPT ![d] = IF how = "received" THEN @ ELSE <<>>]
      /\ wire' = [wire EXCEPT ![d] = <<>>]
      /\ size' = [size EXCEPT ![d] = NoSize]
  BY DEF Ends, Waits
<1>1. TypeOK'
  <2>1. /\ result' \in [Downloads -> {"none", "received", "failed"}]
        /\ got' \in [Downloads -> Seq(Uploads \cup {Hole, Delimiter})]
        /\ wire' \in [Downloads -> Seq(Uploads \cup {Hole, Delimiter})]
        /\ size' \in [Downloads -> Nat \cup {NoSize}]
    BY <1>0 DEF IInv, TypeOK
  <2> QED BY <1>0, <2>1 DEF IInv, TypeOK, diskVars, uploadVars, processVars
<1>2. /\ result'[d] = how /\ size'[d] = NoSize
      /\ how = "received" => got'[d] = got[d]
  BY <1>0 DEF IInv, TypeOK
<1>3. ASSUME how = "received", Good(saw[d]) PROVE got[d] = Whole(saw[d])
  <2>1. Flowing(d) /\ saw[d] \in Uploads /\ Len(got[d]) = saw[d].size
    BY <1>0, <1>3 DEF IInv, DownloadsInOrder, Flowing
  <2> QED BY <2>1, Fields DEF IInv, TypeOK, Flowing, Whole
<1>4. DownloadsInOrder!(d)'
  BY <1>0, <1>2, <1>3, DownloadFacts DEF Sending, Whole
<1> QED BY <1>0, <1>1, <1>4, DownloadPreserves DEF IInv, TypeOK

LEMMA DownloadStepPreserves ==
    ASSUME IInv, NEW d \in Downloads, DownloadStep(d)
    PROVE  IInv'
<1>1. CASE TakeDelimiter(d)
  BY <1>1, EndsPreserves DEF TakeDelimiter
<1>2. CASE EndOfStream(d) \/ GiveUp(d)
  BY <1>2, EndsPreserves DEF EndOfStream, EndMeans, GiveUp
<1> QED
  BY <1>1, <1>2, FindPreserves, SendSizePreserves, OpenAssetPreserves, SendChunkPreserves,
     SendDelimiterPreserves, SendFailsPreserves, TakeChunkPreserves
     DEF DownloadStep, ServeDownload, ReadDownload

-----------------------------------------------------------------------------
(* The process.                                                            *)

LEMMA StopPreserves ==
    ASSUME IInv, RequestStop \/ Restart
    PROVE  IInv'
<1>1. UNCHANGED <<diskVars, uploadVars, downloadVars>>
  BY DEF RequestStop, Restart
<1>2. stop' \in BOOLEAN
  BY DEF RequestStop, Restart, Boot
<1>3. boots' = boots \/ boots' = boots + 1
  BY DEF RequestStop, Restart, Boot
<1>4. TypeOK'
  BY <1>1, <1>2, <1>3 DEF IInv, TypeOK, diskVars, uploadVars, downloadVars
<1> QED BY <1>1, <1>4, UploadsKept, DownloadsAsBefore DEF IInv, diskVars, uploadVars

LEMMA CrashPreserves ==
    ASSUME IInv, Crash
    PROVE  IInv'
<1> USE DEF IInv, Crash, Boot, diskVars
<1>1. TypeOK'
  <2>1. stage' \in [Uploads -> Stages]
    BY DEF TypeOK, Stages
  <2>2. sas' \in [Downloads -> {"unsent", "closed"} \cup Sending]
    BY DEF TypeOK
  <2>3. fd' \in [Uploads -> Files \cup {NoFile}] /\ src' \in [Downloads -> Files \cup {NoFile}]
    OBVIOUS
  <2>4. offset' \in [Uploads -> Nat] /\ pos' \in [Downloads -> Nat]
    OBVIOUS
  <2>5. stop' \in BOOLEAN
    OBVIOUS
  <2>6. boots' \in Nat
    BY DEF TypeOK
  <2> QED BY <2>1, <2>2, <2>3, <2>4, <2>5, <2>6 DEF TypeOK
<1>a. \A q \in Uploads : AssetOf(q)' = AssetOf(q) /\ (Shared(q)' <=> Shared(q))
  BY SameAssets
<1>2. FilesInPlace' /\ WritersInOrder'
  <2>1. \A f \in Files, n \in Names : Created(f, n) => Created(f, n)'
    BY DEF TypeOK, Created, Files
  <2>2. \A s \in Uploads : Filed(s) => Filed(s)'
    BY DEF TypeOK, Filed
  <2>3. FilesInPlace'
    BY <2>1, <2>2 DEF TypeOK, FilesInPlace
  <2>4. WritersInOrder'
    BY DEF TypeOK, WritersInOrder, Handling, InDirectory
  <2> QED BY <2>3, <2>4
<1>3. UncrossedInOrder'
  <2> SUFFICES ASSUME NEW q \in Uploads \ crossed
               PROVE  UncrossedInOrder!(q)'
    BY DEF UncrossedInOrder
  <2>1. UncrossedInOrder!(q) /\ AssetOf(q)' = AssetOf(q) /\ (Shared(q)' <=> Shared(q))
    BY <1>a DEF UncrossedInOrder
  <2>2. stage'[q] \in {"failed", "unsent", "OK"} /\ (stage'[q] = "OK" => stage[q] = "OK")
    BY DEF TypeOK, Stages, Handling
  <2>3. \A s \in Uploads : fd'[s] = NoFile
    OBVIOUS
  <2> QED BY <2>1, <2>2, <2>3 DEF InDirectory, Whole
<1>4. LosersInOrder'
  <2>1. \A q \in Uploads : Beaten(q) => Beaten(q)'
    BY <1>a, BeatenStays
  <2> QED BY <1>a, <2>1 DEF TypeOK, LosersInOrder, Handling, InDirectory
<1>5. DownloadsInOrder'
  <2> SUFFICES ASSUME NEW d \in Downloads PROVE DownloadsInOrder!(d)'
    BY DEF DownloadsInOrder
  <2>1. /\ DownloadsInOrder!(d) /\ AssetOf(saw[d])' = AssetOf(saw[d])
        /\ Good(saw[d])' <=> Good(saw[d])
    BY DEF DownloadsInOrder, AssetOf, Good, Shared
  <2>2. sas'[d] \in {"unsent", "closed"} /\ (sas'[d] = "unsent" => sas[d] = "unsent")
        /\ pos'[d] = 0 /\ UNCHANGED <<saw, size, wire, got, result>>
    BY DEF TypeOK
  <2> HIDE DEF IInv, Crash, Boot, diskVars
  <2>3. Flowing(d) => Flowing(d)'
    BY <2>1, <2>2 DEF Flowing
  <2> QED BY <2>1, <2>2, <2>3 DEF Sending, Whole
<1> QED BY <1>1, <1>2, <1>3, <1>4, <1>5

LEMMA NextPreserves ==
    ASSUME IInv, [Next]_vars
    PROVE  IInv'
<1>1. CASE UNCHANGED vars
  <2> USE <1>1 DEF vars
  <2>1. TypeOK'
    BY DEF IInv, TypeOK, diskVars, uploadVars, downloadVars, processVars
  <2> QED BY <2>1, UploadsKept, DownloadsAsBefore DEF IInv, diskVars, uploadVars
<1>2. CASE Next
  BY <1>2, UploadStepPreserves, DownloadStepPreserves, StopPreserves, CrashPreserves DEF Next
<1> QED BY <1>1, <1>2

-----------------------------------------------------------------------------
(* The theorems.                                                           *)

THEOREM InOrder == Spec => []IInv
BY InitIInv, NextPreserves, PTL DEF Spec

\* Every variable keeps its type, and no file in the server's directories gets
\* longer than the longest upload (OpenFile, SaveChunk).
THEOREM TypeCorrect == Spec => []TypeOK
<1>1. IInv => TypeOK BY DEF IInv
<1> QED BY <1>1, InOrder, PTL

\* An auction whose upload met no other has an asset if its rename did not
\* fail, and it is the whole file of its owner if its last chunk was written and
\* its id is its own (readAndSaveToFile, createAuctionAssetFile).
THEOREM UncrossedIsWholeHolds == Spec => []UncrossedIsWhole
<1>1. IInv => UncrossedIsWhole
  BY DEF IInv, UncrossedInOrder, UncrossedIsWhole
<1> QED BY <1>1, InOrder, PTL

\* An upload that was answered OK and has no asset, though its rename did not
\* fail, lost it to an auction of the same file name (createAuctionAssetFile).
THEOREM LostToAnotherHolds == Spec => []LostToAnother
<1>1. IInv => LostToAnother
  BY DEF IInv, LosersInOrder, Beaten, LostToAnother
<1> QED BY <1>1, InOrder, PTL

\* A client that reports an asset as received has all of it
\* (ReplyShowAssetClientbound::receive).
THEOREM ReceivedIsWholeHolds == Spec => []ReceivedIsWhole
<1>1. IInv => ReceivedIsWhole
  BY DEF IInv, DownloadsInOrder, ReceivedIsWhole, Good
<1> QED BY <1>1, InOrder, PTL

\* The files that a step writes to, and the assets that it moves.
LEMMA StepOfFiles ==
    ASSUME IInv, [Next]_vars, NEW r \in Uploads \ crossed, AssetOf(r) # NoFile, ~Shared(r)
    PROVE  AssetOf(r)' = AssetOf(r) /\ data'[AssetOf(r)] = data[AssetOf(r)]
<1>0. AssetOf(r) \in Files /\ Filed(r) /\ id[r] # NoId /\ \A n \in Names : cwd[n] # AssetOf(r)
  BY AssetFacts, NothingAssumption
<1>1. CASE UNCHANGED <<id, asset, data>>
  BY <1>1, SameAssets
<1>2. ASSUME NEW s \in Uploads, OpenFile(s)
      PROVE  AssetOf(r)' = AssetOf(r) /\ data'[AssetOf(r)] = data[AssetOf(r)]
  <2>1. AssetOf(r) # (IF cwd[s.name] = NoFile THEN s ELSE cwd[s.name])
    BY <1>0, <1>2, Fields, AssetFacts DEF Created, OpenFile, Go
  <2>2. UNCHANGED <<id, asset>> /\ data' = Opened(s, IF cwd[s.name] = NoFile THEN s ELSE cwd[s.name])
    BY <1>2 DEF OpenFile
  <2> QED BY <1>0, <2>1, <2>2, SameAssets DEF Opened, IInv, TypeOK
<1>3. ASSUME NEW s \in Uploads, SaveChunk(s)
      PROVE  AssetOf(r)' = AssetOf(r) /\ data'[AssetOf(r)] = data[AssetOf(r)]
  <2>1. AssetOf(r) # fd[s]
    BY DEF IInv, UncrossedInOrder
  <2>2. UNCHANGED <<id, asset>>
    BY <1>3 DEF SaveChunk
  <2> QED BY <1>0, <1>3, <2>1, <2>2, SameAssets DEF SaveChunk, IInv, TypeOK
<1>4. ASSUME NEW s \in Uploads, OpenAuction(s)
      PROVE  AssetOf(r)' = AssetOf(r) /\ data'[AssetOf(r)] = data[AssetOf(r)]
  <2>1. s # r
    BY <1>0, <1>4 DEF OpenAuction, Go, Filed
  <2> QED BY <1>4, <2>1 DEF OpenAuction, AssetOf, IInv, TypeOK
<1>5. ASSUME NEW s \in Uploads, MoveAsset(s)
      PROVE  AssetOf(r)' = AssetOf(r) /\ data'[AssetOf(r)] = data[AssetOf(r)]
  <2>1. s # r /\ id[s] \in Ids
    BY <1>0, <1>5 DEF MoveAsset, Go, Filed, IInv, TypeOK, WritersInOrder
  <2>2. id[s] # id[r]
    BY <1>0, <2>1 DEF Shared
  <2>3. asset'[id[r]] = asset[id[r]] /\ UNCHANGED <<id, data>>
    BY <1>5, <2>1, <2>2 DEF MoveAsset, IInv, TypeOK
  <2> QED BY <2>3 DEF AssetOf
<1>6. Next => \/ UNCHANGED <<id, asset, data>>
              \/ \E s \in Uploads : OpenFile(s) \/ SaveChunk(s) \/ OpenAuction(s) \/ MoveAsset(s)
  BY DEF Next, UploadStep, ServeUpload, ReceiveUpload, Cut, Refuse, MoveNothing,
         ReplyOpen, DownloadStep, FindAsset, ServeDownload, SendSize, OpenAsset, SendChunk,
         SendDelimiter, SendFails, ReadDownload, TakeChunk, TakeDelimiter, EndOfStream, GiveUp,
         Ends, RequestStop, Restart, Crash, diskVars, uploadVars
<1> QED BY <1>1, <1>2, <1>3, <1>4, <1>5, <1>6 DEF vars, diskVars, uploadVars

\* Nothing changes such an asset once it is in place, but an upload whose
\* auction is given the same id (createAuctionAssetFile).
THEOREM UncrossedIsFinalHolds == Spec => UncrossedIsFinal
<1>1. IInv /\ [Next]_vars =>
        [\A r \in Uploads \ crossed :
            AssetOf(r) # NoFile /\ ~Shared(r) =>
                AssetOf(r)' = AssetOf(r) /\ data'[AssetOf(r)] = data[AssetOf(r)]]_vars
  BY StepOfFiles
<1> QED BY <1>1, InOrder, PTL DEF Spec, UncrossedIsFinal
=============================================================================
