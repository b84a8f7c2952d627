---------------------------- MODULE Wire_proofs ----------------------------
(***************************************************************************)
(* Proofs about Wire, for any texts, lists, records and numbers of bids.   *)
(***************************************************************************)
EXTENDS Wire, SequenceTheorems, FiniteSetTheorems, TLAPS

-----------------------------------------------------------------------------
(* What packets are made of                                                *)

Types == {"user", "word", "auction", "int", "file", "date", "state"}
Said == LoginStatuses \cup LogoutStatuses \cup MineStatuses \cup OpenStatuses
            \cup CloseStatuses \cup BidStatuses

\* The tokens that say something, the sizes of files, the marks of a record's
\* events and the contents of a file.
Values == (UNION {Field(t) : t \in Types}) \cup {Status(s) : s \in Said}
Sizes == Field("size")
Marks == {BidMark, EndMark}
Chunks == {Chunk(i) : i \in Nat}
Names == {Char(c) : c \in Alphabet}
Tokens == Values \cup Sizes \cup Marks \cup Chunks \cup {Space, Newline} \cup Names

\* A packet without a file has no size in it; in one with a file, the size is
\* the last field, and the file's.
WellFormed(p) ==
    /\ p.kind \in DOMAIN Letters
    /\ p.body \in Seq(Values \cup Sizes)
    /\ p.bids \in Seq(Bids)
    /\ p.end \in Ends \cup {<<>>}
    /\ p.data \in Seq(Chunks)
    /\ ~HasFile(p) => p.body \in Seq(Values) /\ p.data = <<>>
    /\ HasFile(p) =>
        /\ p.bids = <<>> /\ p.end = <<>>
        /\ \A j \in 1 .. Len(p.body) :
            p.body[j] \in Sizes => j = Len(p.body) /\ p.body[j][2] = Len(p.data)

\* Fields and statuses are values.
LEMMA FieldsAreValues ==
    /\ \A t \in Types : Field(t) \subseteq Values
    /\ \A s \in Said : Status(s) \in Values
    /\ \A t \in Types : \A f \in Field(t) : f[1] = t /\ f = <<t, f[2]>>
BY DEF Field, Values

\* A value is told from a size by its type.
LEMMA SizesAreNoValues ==
    /\ \A f \in Values : f[1] \in Types \cup {"status"} /\ f = <<f[1], f[2]>> /\ f \notin Sizes
    /\ \A f \in Sizes : f[1] = "size" /\ f = <<f[1], f[2]>> /\ f[2] \in Nat
BY TextAssumption DEF Field, Values, Sizes, Types, Status

\* Every kind has its letters, and every answer its statuses.
LEMMA KindsHaveLetters ==
    /\ Requests \subseteq DOMAIN Letters
    /\ \A k \in Requests : ReplyTo(k) \in DOMAIN Letters
    /\ \A k \in Requests : ReplyTo(k) \in DOMAIN Statuses
    /\ \A k \in UdpRequests : UdpReply[k] = ReplyTo(k)
    /\ \A k \in DOMAIN Statuses : Statuses[k] \subseteq Said
BY DEF Requests, UdpRequests, TcpRequests, UdpReply, TcpReply, Letters, ReplyTo, Statuses, Said,
       LoginStatuses, LogoutStatuses, MineStatuses, ListStatuses, RecordStatuses, OpenStatuses,
       CloseStatuses, AssetStatuses, BidStatuses

\* A packet without file or events is well formed.
LEMMA PlainPackets ==
    ASSUME NEW k \in DOMAIN Letters, NEW b \in Seq(Values), k # "OPA",
           k = "RSA" => b[1] # Status("OK")
    PROVE  WellFormed(Packet(k, b)) /\ Packet(k, b).kind = k
<1>1. b \in Seq(Values \cup Sizes) /\ <<>> \in Seq(Bids) /\ <<>> \in Seq(Chunks)
  OBVIOUS
<1> QED BY <1>1 DEF WellFormed, Packet, HasFile

\* The contents of a file, piece by piece.
LEMMA ChunksMakeData ==
    ASSUME NEW n \in Nat
    PROVE  [i \in 1 .. n |-> Chunk(i)] \in Seq(Chunks) /\ Len([i \in 1 .. n |-> Chunk(i)]) = n
<1>1. \A i \in 1 .. n : Chunk(i) \in Chunks
  BY DEF Chunks
<1> QED BY <1>1

\* A packet with a file is well formed when only its last field is a size.
LEMMA FilePackets ==
    ASSUME NEW k \in DOMAIN Letters, NEW b \in Seq(Values), NEW f \in Sizes,
           NEW c, c = b \o <<f>>,
           \/ k = "OPA"
           \/ k = "RSA" /\ b # <<>> /\ b[1] = Status("OK"),
           NEW p, p = WithFile(k, c)
    PROVE  WellFormed(p) /\ p.kind = k
<1>1. /\ c \in Seq(Values \cup Sizes) /\ Len(c) = Len(b) + 1 /\ c[Len(c)] = f
      /\ \A j \in 1 .. Len(b) : c[j] = b[j]
  <2>1. b \in Seq(Values \cup Sizes) /\ <<f>> \in Seq(Values \cup Sizes) /\ Len(<<f>>) = 1
    OBVIOUS
  <2> QED BY <2>1, ConcatProperties
<1>2. f[2] \in Nat
  BY SizesAreNoValues
<1>3. /\ p.kind = k /\ p.body = c /\ p.bids = <<>> /\ p.end = <<>>
      /\ p.data = [i \in 1 .. f[2] |-> Chunk(i)]
  BY <1>1 DEF WithFile, Packet
<1>4. p.data \in Seq(Chunks) /\ Len(p.data) = f[2]
  BY <1>2, <1>3, ChunksMakeData
<1>5. \A j \in 1 .. Len(c) : c[j] \in Sizes => j = Len(c)
  <2>1. \A j \in 1 .. Len(b) : c[j] \in Values
    BY <1>1
  <2> QED BY <1>1, <2>1, SizesAreNoValues
<1>6. HasFile(p)
  <2>1. k = "RSA" => c[1] = Status("OK")
    BY <1>1
  <2> QED BY <1>3, <2>1 DEF HasFile
<1>7. <<>> \in Seq(Bids)
  OBVIOUS
<1> QED BY <1>1, <1>3, <1>4, <1>5, <1>6, <1>7 DEF WellFormed

\* Whatever a client asks is well formed.
LEMMA RequestsAreWellFormed ==
    ASSUME NEW k \in Requests, NEW p \in RequestPackets(k)
    PROVE  WellFormed(p) /\ p.kind = k
<1>1. k \in DOMAIN Letters
  BY KindsHaveLetters
<1>2. /\ Field("user") \subseteq Values /\ Field("word") \subseteq Values
      /\ Field("auction") \subseteq Values /\ Field("int") \subseteq Values
      /\ Field("file") \subseteq Values
  BY FieldsAreValues DEF Types
<1>3. CASE k \in {"LIN", "LOU", "UNR"}
  <2>1. PICK f \in Field("user"), g \in Field("word") : p = Packet(k, <<f, g>>)
    BY <1>3 DEF RequestPackets, AccountRequests, Packets
  <2>2. <<f, g>> \in Seq(Values)
    BY <1>2
  <2> QED BY <1>1, <1>3, <2>1, <2>2, PlainPackets
<1>4. CASE k \in {"LMA", "LMB"}
  <2>1. PICK f \in Field("user") : p = Packet(k, <<f>>)
    BY <1>4 DEF RequestPackets, MineRequests, Packets, Single
  <2>2. <<f>> \in Seq(Values)
    BY <1>2
  <2> QED BY <1>1, <1>4, <2>1, <2>2, PlainPackets
<1>5. CASE k = "LST"
  <2>1. p = Packet(k, <<>>)
    BY <1>5 DEF RequestPackets, ListRequests, Packets
  <2>2. <<>> \in Seq(Values)
    OBVIOUS
  <2> QED BY <1>1, <1>5, <2>1, <2>2, PlainPackets
<1>6. CASE k \in {"SRC", "SAS"}
  <2>1. PICK f \in Field("auction") : p = Packet(k, <<f>>)
    BY <1>6 DEF RequestPackets, AuctionRequests, Packets, Single
  <2>2. <<f>> \in Seq(Values)
    BY <1>2
  <2> QED BY <1>1, <1>6, <2>1, <2>2, PlainPackets
<1>7. CASE k = "OPA"
  <2>1. \E b \in Seq(Values), f \in Sizes : p = WithFile("OPA", b \o <<f>>)
    <3>1. PICK c \in Field("user") \X Field("word") \X Field("word") \X Field("int")
                     \X Field("int") \X Field("file") \X Field("size") : p = WithFile("OPA", c)
      BY <1>7 DEF RequestPackets, OpenRequests, Files
    <3>2. PICK f1 \in Field("user"), f2 \in Field("word"), f3 \in Field("word"),
               f4 \in Field("int"), f5 \in Field("int"), f6 \in Field("file"),
               f7 \in Field("size") : c = <<f1, f2, f3, f4, f5, f6, f7>>
      OBVIOUS
    <3>3. <<f1, f2, f3, f4, f5, f6>> \in Seq(Values) /\ f7 \in Sizes
      BY <1>2 DEF Sizes
    <3>4. c = <<f1, f2, f3, f4, f5, f6>> \o <<f7>>
      BY <3>2
    <3> QED BY <3>1, <3>3, <3>4
  <2>2. PICK b \in Seq(Values), f \in Sizes : p = WithFile("OPA", b \o <<f>>)
    BY <2>1
  <2> QED BY <1>1, <1>7, <2>2, FilePackets
<1>8. CASE k = "CLS"
  <2>1. PICK f \in Field("user"), g \in Field("word"), h \in Field("auction") :
          p = Packet(k, <<f, g, h>>)
    BY <1>8 DEF RequestPackets, CloseRequests, Packets
  <2>2. <<f, g, h>> \in Seq(Values)
    BY <1>2
  <2> QED BY <1>1, <1>8, <2>1, <2>2, PlainPackets
<1>9. CASE k = "BID"
  <2>1. PICK f \in Field("user"), g \in Field("word"), h \in Field("auction"), i \in Field("int") :
          p = Packet(k, <<f, g, h, i>>)
    BY <1>9 DEF RequestPackets, BidRequests, Packets
  <2>2. <<f, g, h, i>> \in Seq(Values)
    BY <1>2
  <2> QED BY <1>1, <1>9, <2>1, <2>2, PlainPackets
<1> QED BY <1>3, <1>4, <1>5, <1>6, <1>7, <1>8, <1>9
        DEF Requests, UdpRequests, TcpRequests, UdpReply, TcpReply

\* Rows laid one after the other.
LEMMA FlatIsASeq ==
    ASSUME NEW S, NEW n \in {2, 5}, NEW rows, Len(rows) \in Nat,
           \A i \in 1 .. Len(rows) : \A j \in 1 .. n : rows[i][j] \in S
    PROVE  Flat(rows, n) \in Seq(S) /\ Len(Flat(rows, n)) = n * Len(rows)
<1>1. n * Len(rows) \in Nat
  OBVIOUS
<1>2. \A i \in 1 .. n * Len(rows) :
        (i - 1) \div n + 1 \in 1 .. Len(rows) /\ ((i - 1) % n) + 1 \in 1 .. n
  OBVIOUS
<1>3. \A i \in 1 .. n * Len(rows) : rows[(i - 1) \div n + 1][((i - 1) % n) + 1] \in S
  BY <1>2
<1> QED BY <1>1, <1>3 DEF Flat

\* Short sequences, joined.
LEMMA ThreeInARow ==
    ASSUME NEW a, NEW b, NEW c
    PROVE  <<a>> \o <<b, c>> = <<a, b, c>> /\ <<a, b>> \o <<c>> = <<a, b, c>>
<1> DEFINE S == {a, b, c}
<1>1. /\ <<a>> \in Seq(S) /\ Len(<<a>>) = 1 /\ <<c>> \in Seq(S) /\ Len(<<c>>) = 1
      /\ <<b, c>> \in Seq(S) /\ Len(<<b, c>>) = 2 /\ <<a, b>> \in Seq(S) /\ Len(<<a, b>>) = 2
      /\ <<a, b, c>> \in Seq(S) /\ Len(<<a, b, c>>) = 3
  OBVIOUS
<1> HIDE DEF S
<1>2. /\ <<a>> \o <<b, c>> \in Seq(S) /\ Len(<<a>> \o <<b, c>>) = 3
      /\ \A i \in 1 .. 3 : (<<a>> \o <<b, c>>)[i] = IF i <= 1 THEN <<a>>[i] ELSE <<b, c>>[i - 1]
  BY <1>1, ConcatProperties
<1>3. \A i \in 1 .. 3 : (<<a>> \o <<b, c>>)[i] = <<a, b, c>>[i]
  BY <1>2
<1>4. <<a>> \o <<b, c>> = <<a, b, c>>
  BY <1>1, <1>2, <1>3, SeqEqual
<1>5. /\ <<a, b>> \o <<c>> \in Seq(S) /\ Len(<<a, b>> \o <<c>>) = 3
      /\ \A i \in 1 .. 3 : (<<a, b>> \o <<c>>)[i] = IF i <= 2 THEN <<a, b>>[i] ELSE <<c>>[i - 2]
  BY <1>1, ConcatProperties
<1>6. \A i \in 1 .. 3 : (<<a, b>> \o <<c>>)[i] = <<a, b, c>>[i]
  BY <1>5
<1> QED BY <1>1, <1>4, <1>5, <1>6, SeqEqual

ReplyKinds == {ReplyTo(k) : k \in Requests}

\* Whatever a server answers is well formed.
LEMMA RepliesAreWellFormed ==
    ASSUME NEW k \in ReplyKinds, NEW p \in ReplyPackets(k)
    PROVE  WellFormed(p) /\ p.kind = k
<1>1. /\ k \in {"RLI", "RLO", "RUR", "RMA", "RMB", "RLS", "RRC", "ROA", "RCL", "RSA", "RBD"}
      /\ k \in DOMAIN Letters /\ k \in DOMAIN Statuses /\ k # "OPA"
  BY DEF ReplyKinds, ReplyTo, Requests, UdpRequests, TcpRequests, UdpReply, TcpReply,
         Letters, Statuses
<1>2. /\ Field("user") \subseteq Values /\ Field("word") \subseteq Values
      /\ Field("auction") \subseteq Values /\ Field("int") \subseteq Values
      /\ Field("file") \subseteq Values /\ Field("date") \subseteq Values
      /\ Field("state") \subseteq Values
  BY FieldsAreValues DEF Types
<1>3. \A s \in Statuses[k] : Status(s) \in Values
  BY <1>1, FieldsAreValues, KindsHaveLetters
<1>4. Status("OK") \in Values
  BY FieldsAreValues DEF Said, LoginStatuses
<1>5. \A b \in Seq(Values) :
        /\ <<Status("OK")>> \o b \in Seq(Values)
        /\ <<Status("OK")>> \o b # <<>>
        /\ (<<Status("OK")>> \o b)[1] = Status("OK")
  <2>1. <<Status("OK")>> \in Seq(Values) /\ Len(<<Status("OK")>>) = 1
    BY <1>4
  <2> QED BY <2>1, ConcatProperties
<1>6. CASE p \in {Packet(k, <<Status(s)>>) : s \in Statuses[k] \ {"OK"}}
  <2>1. PICK s \in Statuses[k] \ {"OK"} : p = Packet(k, <<Status(s)>>)
    BY <1>6
  <2>2. <<Status(s)>> \in Seq(Values) /\ <<Status(s)>>[1] # Status("OK")
    BY <1>3 DEF Status
  <2> QED BY <1>1, <2>1, <2>2, PlainPackets
<1>7. CASE p \in OkPackets(k) /\ k \in {"RMA", "RMB", "RLS"}
  <2>1. PICK n \in 1 .. MaxRows : \E rows \in Rows(n) : p = Packet(k, <<Status("OK")>> \o Flat(rows, 2))
    BY <1>7 DEF OkPackets, Packets, Lists, Ok
  <2>2. PICK rows \in [1 .. n -> Field("auction") \X Field("state")] :
          p = Packet(k, <<Status("OK")>> \o Flat(rows, 2))
    BY <2>1 DEF Rows
  <2>3. n \in Nat /\ Len(rows) = n
    BY <2>2, BoundAssumption
  <2>4. \A i \in 1 .. Len(rows) : \A j \in 1 .. 2 : rows[i][j] \in Values
    BY <1>2, <2>2, <2>3
  <2>5. Flat(rows, 2) \in Seq(Values)
    BY <2>3, <2>4, FlatIsASeq
  <2> QED BY <1>1, <1>5, <1>7, <2>2, <2>5, PlainPackets
<1>8. CASE p \in OkPackets(k) /\ k = "RRC"
  <2>1. PICK b \in RecordBodies, bids \in BidLists, end \in Ends \cup {<<>>} :
          p = Record(<<Status("OK")>> \o b, bids, end)
    <3>1. PICK c \in Ok(RecordBodies), bids \in BidLists, end \in Ends \cup {<<>>} :
            p = Record(c, bids, end)
      BY <1>8 DEF OkPackets, Records
    <3>2. PICK b \in RecordBodies : c = <<Status("OK")>> \o b
      BY DEF Ok
    <3> QED BY <3>1, <3>2
  <2>2. b \in Seq(Values)
    <3>1. PICK f1 \in Field("user"), f2 \in Field("word"), f3 \in Field("file"),
               f4 \in Field("int"), f5 \in Field("date"), f6 \in Field("int") :
            b = <<f1, f2, f3, f4, f5, f6>>
      BY DEF RecordBodies
    <3>2. <<f1, f2, f3, f4, f5, f6>> \in Seq(Values)
      BY <1>2
    <3> QED BY <3>1, <3>2
  <2>3. bids \in Seq(Bids) /\ <<>> \in Seq(Chunks)
    BY BoundAssumption DEF BidLists
  <2>4. /\ p.kind = "RRC" /\ p.body = <<Status("OK")>> \o b /\ p.bids = bids /\ p.end = end
        /\ p.data = <<>>
    BY <2>1 DEF Record, Packet
  <2>5. p.body \in Seq(Values) /\ p.body \in Seq(Values \cup Sizes)
    BY <1>5, <2>2, <2>4
  <2> QED BY <1>1, <1>8, <2>3, <2>4, <2>5 DEF WellFormed, HasFile
<1>9. CASE p \in OkPackets(k) /\ k = "ROA"
  <2>1. PICK f \in Field("auction") : p = Packet(k, <<Status("OK")>> \o <<f>>)
    BY <1>9 DEF OkPackets, Packets, Ok, Single
  <2>2. <<f>> \in Seq(Values)
    BY <1>2
  <2> QED BY <1>1, <1>5, <1>9, <2>1, <2>2, PlainPackets
<1>10. CASE p \in OkPackets(k) /\ k = "RSA"
  <2>1. PICK f \in Field("file"), g \in Sizes :
          p = WithFile(k, <<Status("OK"), f, g>>)
    <3>1. PICK c \in Ok(Field("file") \X Field("size")) : p = WithFile(k, c)
      BY <1>10 DEF OkPackets, Files
    <3>2. PICK b \in Field("file") \X Field("size") : c = <<Status("OK")>> \o b
      BY DEF Ok
    <3>3. PICK f \in Field("file"), g \in Field("size") : b = <<f, g>>
      OBVIOUS
    <3>4. c = <<Status("OK"), f, g>>
      BY <3>2, <3>3, ThreeInARow
    <3> QED BY <3>1, <3>4 DEF Sizes
  <2>2. <<Status("OK"), f>> \in Seq(Values)
    BY <1>2, <1>4
  <2>3. PICK b : b = <<Status("OK"), f>>
    OBVIOUS
  <2>4. b \in Seq(Values) /\ b # <<>> /\ b[1] = Status("OK")
    BY <2>2, <2>3
  <2>5. <<Status("OK"), f, g>> = b \o <<g>>
    BY <2>3, ThreeInARow
  <2>6. PICK c : c = <<Status("OK"), f, g>>
    OBVIOUS
  <2>7. c = b \o <<g>> /\ p = WithFile(k, c)
    BY <2>1, <2>5, <2>6
  <2> QED BY <1>1, <1>10, <2>4, <2>7, FilePackets
<1>11. CASE p \in OkPackets(k) /\ k \notin {"RMA", "RMB", "RLS", "RRC", "ROA", "RSA"}
  <2>1. p = Packet(k, <<Status("OK")>>)
    BY <1>11 DEF OkPackets
  <2>2. <<Status("OK")>> \in Seq(Values)
    BY <1>4
  <2> QED BY <1>1, <1>11, <2>1, <2>2, PlainPackets
<1> QED BY <1>6, <1>7, <1>8, <1>9, <1>10, <1>11 DEF ReplyPackets

\* So is its refusal.
LEMMA RefusalIsWellFormed ==
    WellFormed(Packet("ERR", <<>>)) /\ Packet("ERR", <<>>).kind = "ERR"
<1>1. "ERR" \in DOMAIN Letters /\ <<>> \in Seq(Values)
  BY DEF Letters
<1> QED BY <1>1, PlainPackets

-----------------------------------------------------------------------------
(* What is written, token by token                                         *)

\* The fields and marks of a packet, in order.
Text(p) == p.body \o Events(p)

\* A record shows the latest bids, each after its mark.
LEMMA ShownAreLatest ==
    ASSUME NEW p, p.bids \in Seq(Bids)
    PROVE  /\ [i \in DOMAIN Shown(p.bids) |-> <<BidMark>> \o Shown(p.bids)[i]] = LatestBids(p)
           /\ Len(LatestBids(p)) \in Nat
           /\ \A i \in 1 .. Len(LatestBids(p)) : \E b \in Bids : LatestBids(p)[i] = <<BidMark>> \o b
<1> DEFINE L == Len(p.bids)
           k == IF L > MaxShown THEN MaxShown ELSE L
           from == IF L > MaxShown THEN L - MaxShown + 1 ELSE 1
<1>1. L \in Nat /\ MaxShown \in Nat \ {0} /\ \A i \in from .. L : p.bids[i] \in Bids
  BY BoundAssumption
<1>2. k \in Nat /\ from \in Int /\ L - from + 1 = k /\ from = L - k + 1
  BY <1>1
<1>3. /\ Shown(p.bids) \in Seq(Bids)
      /\ Len(Shown(p.bids)) = k
      /\ \A i \in 1 .. k : Shown(p.bids)[i] = p.bids[L - k + i]
  <2>1. Shown(p.bids) = SubSeq(p.bids, from, L)
    BY DEF Shown
  <2> HIDE DEF from, L
  <2>2. /\ Shown(p.bids) \in Seq(Bids)
        /\ Len(Shown(p.bids)) = IF from <= L THEN L - from + 1 ELSE 0
        /\ \A i \in 1 .. L - from + 1 : Shown(p.bids)[i] = p.bids[from + i - 1]
    BY <1>1, <1>2, <2>1, SubSeqProperties
  <2> HIDE DEF k
  <2>3. from + 0 = L - k + 1 /\ L \in Nat /\ k \in Nat /\ from \in Int
    BY <1>1, <1>2
  <2> QED BY <2>2, <2>3
<1>4. DOMAIN Shown(p.bids) = 1 .. k
  BY <1>3
<1>5. LatestBids(p) = [i \in 1 .. k |-> <<BidMark>> \o p.bids[L - k + i]]
  BY DEF LatestBids
<1> HIDE DEF k, L
<1>6. [i \in DOMAIN Shown(p.bids) |-> <<BidMark>> \o Shown(p.bids)[i]] = LatestBids(p)
  BY <1>3, <1>4, <1>5
<1>7. Len(LatestBids(p)) = k
  BY <1>2, <1>5
<1>8. \A i \in 1 .. k : Shown(p.bids)[i] \in Bids
  BY <1>3
<1>9. \A i \in 1 .. k : LatestBids(p)[i] = <<BidMark>> \o Shown(p.bids)[i]
  <2> SUFFICES ASSUME NEW i \in 1 .. k
               PROVE  LatestBids(p)[i] = <<BidMark>> \o Shown(p.bids)[i]
    OBVIOUS
  <2>1. LatestBids(p)[i] = <<BidMark>> \o p.bids[L - k + i]
    BY <1>5
  <2>2. Shown(p.bids)[i] = p.bids[L - k + i]
    BY <1>3
  <2> QED BY <2>1, <2>2
<1> QED BY <1>2, <1>6, <1>7, <1>8, <1>9

\* The events of a record are values and marks.
LEMMA EventsAreValues ==
    ASSUME NEW p, p.bids \in Seq(Bids), p.end \in Ends \cup {<<>>}
    PROVE  /\ Events(p) = Flat(LatestBids(p), 5)
                 \o (IF p.end = <<>> THEN <<>> ELSE <<EndMark>> \o p.end)
           /\ Flat(LatestBids(p), 5) \in Seq(Values \cup Marks)
           /\ (IF p.end = <<>> THEN <<>> ELSE <<EndMark>> \o p.end) \in Seq(Values \cup Marks)
           /\ p.bids = <<>> /\ p.end = <<>> => Events(p) = <<>>
<1> DEFINE S == Values \cup Marks
<1>1. /\ Field("user") \subseteq Values /\ Field("int") \subseteq Values
      /\ Field("date") \subseteq Values
  BY FieldsAreValues DEF Types
<1>2. \A i \in 1 .. Len(LatestBids(p)) : \A j \in 1 .. 5 : LatestBids(p)[i][j] \in S
  <2> SUFFICES ASSUME NEW i \in 1 .. Len(LatestBids(p))
               PROVE  \A j \in 1 .. 5 : LatestBids(p)[i][j] \in S
    OBVIOUS
  <2>1. PICK b \in Bids : LatestBids(p)[i] = <<BidMark>> \o b
    BY ShownAreLatest
  <2>2. PICK f1 \in Field("user"), f2 \in Field("int"), f3 \in Field("date"), f4 \in Field("int") :
          b = <<f1, f2, f3, f4>>
    BY DEF Bids
  <2>3. b \in Seq(S) /\ Len(b) = 4 /\ <<BidMark>> \in Seq(S) /\ Len(<<BidMark>>) = 1
    BY <1>1, <2>2 DEF Marks
  <2> HIDE DEF S
  <2>4. <<BidMark>> \o b \in Seq(S) /\ Len(<<BidMark>> \o b) = Len(<<BidMark>>) + Len(b)
    BY <2>3, ConcatProperties
  <2> QED BY <2>1, <2>3, <2>4, ElementOfSeq
<1>3. Flat(LatestBids(p), 5) \in Seq(S) /\ Len(Flat(LatestBids(p), 5)) = 5 * Len(LatestBids(p))
  <2> HIDE DEF S
  <2> QED BY <1>2, FlatIsASeq, ShownAreLatest
<1>4. (IF p.end = <<>> THEN <<>> ELSE <<EndMark>> \o p.end) \in Seq(S)
  <2>1. CASE p.end = <<>>
    BY <2>1
  <2>2. CASE p.end # <<>>
    <3>1. PICK f1 \in Field("date"), f2 \in Field("int") : p.end = <<f1, f2>>
      BY <2>2 DEF Ends
    <3>2. <<EndMark>> \in Seq(S) /\ p.end \in Seq(S)
      BY <1>1, <3>1 DEF Marks
    <3> HIDE DEF S
    <3>3. <<EndMark>> \o p.end \in Seq(S)
      BY <3>2, ConcatProperties
    <3> QED BY <2>2, <3>3
  <2> QED BY <2>1, <2>2
<1>5. ASSUME p.bids = <<>> PROVE Flat(LatestBids(p), 5) = <<>>
  <2>1. Len(LatestBids(p)) = 0
    BY <1>5, BoundAssumption DEF LatestBids
  <2>2. Len(Flat(LatestBids(p), 5)) = 0
    BY <1>3, <2>1
  <2> HIDE DEF S
  <2> QED BY <1>3, <2>2, EmptySeq
<1>6. Events(p) = Flat(LatestBids(p), 5)
         \o (IF p.end = <<>> THEN <<>> ELSE <<EndMark>> \o p.end)
  BY ShownAreLatest DEF Events
<1>7. ASSUME p.bids = <<>>, p.end = <<>> PROVE Events(p) = <<>>
  <2>1. Events(p) = <<>> \o <<>>
    BY <1>5, <1>6, <1>7
  <2> QED BY <2>1
<1> QED BY <1>3, <1>4, <1>6, <1>7

\* What a packet says is its text and its file.
LEMMA ContentIsText ==
    ASSUME NEW p, WellFormed(p)
    PROVE  /\ Events(p) \in Seq(Values \cup Marks)
           /\ Text(p) \in Seq(Values \cup Sizes \cup Marks)
           /\ HasFile(p) => Text(p) = p.body
           /\ Content(p) = Text(p) \o p.data
<1> DEFINE S == Values \cup Sizes \cup Marks
           A == Flat(LatestBids(p), 5)
           E == IF p.end = <<>> THEN <<>> ELSE <<EndMark>> \o p.end
<1>1. p.body \in Seq(S) /\ A \in Seq(S) /\ E \in Seq(S) /\ Events(p) = A \o E
  <2>1. p.body \in Seq(Values \cup Sizes) /\ A \in Seq(Values \cup Marks) /\ E \in Seq(Values \cup Marks)
    BY EventsAreValues DEF WellFormed
  <2>2. Events(p) = A \o E
    BY EventsAreValues DEF WellFormed
  <2> HIDE DEF A, E
  <2> QED BY <2>1, <2>2, SeqMonotonic
<1>2. Content(p) = p.body \o A \o E \o p.data
  BY DEF Content
<1>3. Events(p) \in Seq(Values \cup Marks)
  <2>1. A \in Seq(Values \cup Marks) /\ E \in Seq(Values \cup Marks)
    BY EventsAreValues DEF WellFormed
  <2> HIDE DEF A, E
  <2> QED BY <1>1, <2>1, ConcatProperties
<1>4. HasFile(p) => Events(p) = <<>>
  BY EventsAreValues DEF WellFormed
<1> HIDE DEF S, A, E
<1>5. Text(p) = (p.body \o A) \o E /\ Text(p) \in Seq(S)
  <2>1. Text(p) = p.body \o (A \o E)
    BY <1>1 DEF Text
  <2>2. (p.body \o A) \o E = p.body \o (A \o E)
    <3>1. PICK body \in Seq(S) : body = p.body
      BY <1>1
    <3>2. A \in Seq(S) /\ E \in Seq(S)
      BY <1>1
    <3>3. (body \o A) \o E = body \o (A \o E)
      BY <3>2, ConcatAssociative
    <3> QED BY <3>1, <3>3
  <2>3. Events(p) \in Seq(S)
    BY <1>3, SeqMonotonic DEF S
  <2>4. p.body \o Events(p) \in Seq(S)
    BY <1>1, <2>3, ConcatProperties
  <2> QED BY <1>1, <2>1, <2>2, <2>4
<1>6. HasFile(p) => Text(p) = p.body
  BY <1>1, <1>4, ConcatEmptySeq DEF Text
<1> QED BY <1>2, <1>3, <1>5, <1>6 DEF S

\* Where a token is: the letters of the name, then spaces and fields in turn,
\* then a file after one more space, and the newline last.
TextLength(p) == Len(Text(p))
FileLength(p) == IF HasFile(p) THEN 1 + Len(p.data) ELSE 0

Layout(p) ==
    /\ TextLength(p) \in Nat /\ FileLength(p) \in Nat
    /\ Written(p) \in Seq(Tokens)
    /\ Len(Written(p)) = 4 + 2 * TextLength(p) + FileLength(p)
    /\ \A i \in 1 .. 3 : Written(p)[i] = Char(Letters[p.kind][i])
    /\ \A i \in 1 .. 2 * TextLength(p) :
        Written(p)[3 + i] = IF i % 2 = 1 THEN Space ELSE Text(p)[i \div 2]
    /\ HasFile(p) => Written(p)[4 + 2 * TextLength(p)] = Space
    /\ HasFile(p) =>
        \A i \in 1 .. Len(p.data) : Written(p)[4 + 2 * TextLength(p) + i] = p.data[i]
    /\ Written(p)[Len(Written(p))] = Newline

\* Two sequences in a row, element by element.
LEMMA Joined ==
    ASSUME NEW S, NEW s \in Seq(S), NEW t \in Seq(S), NEW r, r = s \o t
    PROVE  /\ r \in Seq(S) /\ Len(r) = Len(s) + Len(t)
           /\ \A i \in 1 .. Len(s) : r[i] = s[i]
           /\ \A i \in 1 .. Len(t) : r[Len(s) + i] = t[i]
BY ConcatProperties

\* What is written is the name, the text with a space before each token, the file
\* after one more, and the newline.
LEMMA WrittenIsLaidOut ==
    ASSUME NEW p, WellFormed(p)
    PROVE  Layout(p)
<1> DEFINE F == Text(p)
           L == TextLength(p)
           N == Name(p.kind)
           X == Spaced(F)
           D == IF HasFile(p) THEN <<Space>> \o p.data ELSE <<>>
           Z == <<Newline>>
<1>1. /\ F \in Seq(Values \cup Sizes \cup Marks) /\ L = Len(F) /\ L \in Nat
      /\ F \in Seq(Tokens) /\ p.data \in Seq(Tokens) /\ Len(p.data) \in Nat
  <2>1. F \in Seq(Values \cup Sizes \cup Marks)
    BY ContentIsText
  <2>2. p.data \in Seq(Chunks)
    BY DEF WellFormed
  <2>3. Values \cup Sizes \cup Marks \subseteq Tokens /\ Chunks \subseteq Tokens
    BY DEF Tokens
  <2> HIDE DEF F
  <2> QED BY <2>1, <2>2, <2>3, SeqMonotonic DEF TextLength, F
<1>2. /\ N \in Seq(Tokens) /\ Len(N) = 3
      /\ \A i \in 1 .. 3 : N[i] = Char(Letters[p.kind][i])
  <2>1. \A i \in 1 .. 3 : Char(Letters[p.kind][i]) \in Tokens
    BY DEF WellFormed, Tokens, Names, Alphabet
  <2> QED BY <2>1 DEF Name
<1>3. /\ X \in Seq(Tokens) /\ Len(X) = 2 * L
      /\ \A i \in 1 .. 2 * L : X[i] = IF i % 2 = 1 THEN Space ELSE F[i \div 2]
  <2> HIDE DEF F
  <2>1. \A i \in 1 .. 2 * L : i % 2 = 1 \/ i \div 2 \in 1 .. L
    BY <1>1
  <2>2. Space \in Tokens
    BY DEF Tokens
  <2>3. \A i \in 1 .. 2 * L : (IF i % 2 = 1 THEN Space ELSE F[i \div 2]) \in Tokens
    BY <1>1, <2>1, <2>2
  <2> QED BY <1>1, <2>3 DEF Spaced
<1>4. /\ D \in Seq(Tokens) /\ Len(D) = FileLength(p) /\ FileLength(p) \in Nat
      /\ HasFile(p) => D[1] = Space /\ \A i \in 1 .. Len(p.data) : D[1 + i] = p.data[i]
  <2>1. CASE HasFile(p)
    <3>1. <<Space>> \in Seq(Tokens) /\ Len(<<Space>>) = 1 /\ <<Space>>[1] = Space
      BY DEF Tokens
    <3>2. D = <<Space>> \o p.data /\ FileLength(p) = 1 + Len(p.data)
      BY <2>1 DEF FileLength
    <3> HIDE DEF D
    <3>3. /\ D \in Seq(Tokens) /\ Len(D) = Len(<<Space>>) + Len(p.data)
          /\ \A i \in 1 .. Len(<<Space>>) : D[i] = <<Space>>[i]
          /\ \A i \in 1 .. Len(p.data) : D[Len(<<Space>>) + i] = p.data[i]
      BY <1>1, <3>1, <3>2, Joined
    <3> QED BY <1>1, <3>1, <3>2, <3>3
  <2>2. CASE ~HasFile(p)
    BY <2>2 DEF FileLength
  <2> QED BY <2>1, <2>2
<1>5. Z \in Seq(Tokens) /\ Len(Z) = 1 /\ Z[1] = Newline
  BY DEF Tokens
<1> DEFINE NX == N \o X
           NXD == NX \o D
<1>6. Written(p) = NXD \o Z
  BY DEF Written, Text
<1> HIDE DEF F, N, X, D, Z, L
<1>16. NX = N \o X /\ NXD = NX \o D
  OBVIOUS
<1> HIDE DEF NX, NXD
<1>17. N \in Seq(Tokens) /\ X \in Seq(Tokens) /\ D \in Seq(Tokens) /\ Z \in Seq(Tokens)
  BY <1>2, <1>3, <1>4, <1>5
<1>7. /\ NX \in Seq(Tokens) /\ Len(NX) = 3 + 2 * L
      /\ \A i \in 1 .. 3 : NX[i] = N[i]
      /\ \A i \in 1 .. 2 * L : NX[3 + i] = X[i]
  <2>1. /\ NX \in Seq(Tokens) /\ Len(NX) = Len(N) + Len(X)
        /\ \A i \in 1 .. Len(N) : NX[i] = N[i]
        /\ \A i \in 1 .. Len(X) : NX[Len(N) + i] = X[i]
    BY <1>16, <1>17, Joined
  <2> QED BY <1>2, <1>3, <2>1
<1>8. /\ NXD \in Seq(Tokens) /\ Len(NXD) = 3 + 2 * L + FileLength(p)
      /\ \A i \in 1 .. 3 + 2 * L : NXD[i] = NX[i]
      /\ \A i \in 1 .. FileLength(p) : NXD[3 + 2 * L + i] = D[i]
  <2>1. NX \in Seq(Tokens)
    BY <1>7
  <2>2. /\ NXD \in Seq(Tokens) /\ Len(NXD) = Len(NX) + Len(D)
        /\ \A i \in 1 .. Len(NX) : NXD[i] = NX[i]
        /\ \A i \in 1 .. Len(D) : NXD[Len(NX) + i] = D[i]
    BY <1>16, <1>17, <2>1, Joined
  <2> QED BY <1>4, <1>7, <2>2
<1>9. /\ Written(p) \in Seq(Tokens) /\ Len(Written(p)) = 3 + 2 * L + FileLength(p) + 1
      /\ \A i \in 1 .. 3 + 2 * L + FileLength(p) : Written(p)[i] = NXD[i]
      /\ Written(p)[3 + 2 * L + FileLength(p) + 1] = Newline
  <2>1. NXD \in Seq(Tokens)
    BY <1>8
  <2>2. /\ Written(p) \in Seq(Tokens) /\ Len(Written(p)) = Len(NXD) + Len(Z)
        /\ \A i \in 1 .. Len(NXD) : Written(p)[i] = NXD[i]
        /\ \A i \in 1 .. Len(Z) : Written(p)[Len(NXD) + i] = Z[i]
    BY <1>6, <1>17, <2>1, Joined
  <2>3. 1 \in 1 .. Len(Z)
    BY <1>5
  <2>4. Written(p)[Len(NXD) + 1] = Newline
    BY <1>5, <2>2, <2>3
  <2> QED BY <1>5, <1>8, <2>2, <2>4
<1>10. L \in Nat /\ FileLength(p) \in Nat /\ Len(p.data) \in Nat
  BY <1>1, <1>4
<1>11. \A i \in 1 .. 3 : Written(p)[i] = Char(Letters[p.kind][i])
  BY <1>2, <1>7, <1>8, <1>9, <1>10
<1>12. \A i \in 1 .. 2 * L : Written(p)[3 + i] = X[i]
  <2> TAKE i \in 1 .. 2 * L
  <2>1. 3 + i \in 1 .. 3 + 2 * L /\ 3 + i \in 1 .. 3 + 2 * L + FileLength(p)
    BY <1>10
  <2> QED BY <1>7, <1>8, <1>9, <2>1
<1>13. \A i \in 1 .. FileLength(p) : Written(p)[3 + 2 * L + i] = D[i]
  <2> TAKE i \in 1 .. FileLength(p)
  <2>1. 3 + 2 * L + i \in 1 .. 3 + 2 * L + FileLength(p)
    BY <1>10
  <2> QED BY <1>8, <1>9, <2>1
<1>14. Len(Written(p)) = 4 + 2 * L + FileLength(p) /\ Written(p)[4 + 2 * L + FileLength(p)] = Newline
  <2>1. 3 + 2 * L + FileLength(p) + 1 = 4 + 2 * L + FileLength(p)
    BY <1>10
  <2> QED BY <1>9, <2>1
<1>15. HasFile(p) =>
        /\ Written(p)[4 + 2 * L] = Space
        /\ \A i \in 1 .. Len(p.data) : Written(p)[4 + 2 * L + i] = p.data[i]
  <2> SUFFICES ASSUME HasFile(p)
               PROVE  /\ Written(p)[4 + 2 * L] = Space
                      /\ \A i \in 1 .. Len(p.data) : Written(p)[4 + 2 * L + i] = p.data[i]
    OBVIOUS
  <2>1. FileLength(p) = 1 + Len(p.data)
    BY DEF FileLength
  <2>2. \A i \in 0 .. Len(p.data) : Written(p)[4 + 2 * L + i] = D[1 + i]
    <3> TAKE i \in 0 .. Len(p.data)
    <3>1. 1 + i \in 1 .. FileLength(p) /\ 3 + 2 * L + (1 + i) = 4 + 2 * L + i
      BY <1>10, <2>1
    <3> QED BY <1>13, <3>1
  <2>3. Written(p)[4 + 2 * L + 0] = D[1 + 0] /\ 4 + 2 * L + 0 = 4 + 2 * L
    BY <1>10, <2>2
  <2> QED BY <1>4, <1>10, <2>2, <2>3
<1> QED BY <1>3, <1>9, <1>10, <1>11, <1>12, <1>14, <1>15 DEF Layout, L, F

\* No letter is one of the other calls.
LEMMA LettersOfTheAlphabet ==
    /\ Alphabet \subseteq {"A", "B", "C", "D", "E", "I", "K", "L", "M", "N", "O", "P", "R", "S", "T", "U"}
    /\ \A k \in DOMAIN Letters : \A i \in 1 .. 3 : Letters[k][i] \in Alphabet
<1>1. \A k \in DOMAIN Letters : \A i \in 1 .. 3 : Letters[k][i] \in Alphabet
  BY DEF Alphabet
<1>2. \A k \in DOMAIN Letters : \A i \in 1 .. 3 :
        Letters[k][i] \in {"A", "B", "C", "D", "E", "I", "K", "L", "M", "N", "O", "P", "R", "S", "T", "U"}
  BY DEF Letters
<1> QED BY <1>1, <1>2 DEF Alphabet

\* Tokens of different kinds differ.
LEMMA Disjoint ==
    /\ \A f \in Values \cup Sizes \cup Marks : f # Space /\ f # Newline /\ f \notin Chunks
    /\ \A f \in Chunks : f # Space /\ f # Newline
    /\ Space # Newline
    /\ \A f \in Names : f # Space /\ f # Newline
<1>1. \A f \in Values \cup Sizes : f[1] # "char" /\ f[1] # "data"
  BY SizesAreNoValues DEF Types
<1>2. \A f \in Chunks : f[1] = "data"
  BY DEF Chunks, Chunk
<1>3. Space[1] = "char" /\ Newline[1] = "char" /\ Space[2] = " " /\ Newline[2] = "\n"
  BY DEF Space, Newline, Char
<1>4. \A f \in Marks : f[1] = "char" /\ (f[2] = "B" \/ f[2] = "E")
  BY DEF Marks, BidMark, EndMark, Char
<1>5. \A f \in Names : f # Space /\ f # Newline
  <2> SUFFICES ASSUME NEW c \in Alphabet
               PROVE  Char(c) # Space /\ Char(c) # Newline
    BY DEF Names
  <2>1. c # " " /\ c # "\n"
    BY LettersOfTheAlphabet
  <2>2. Char(c)[2] = c
    BY DEF Char
  <2> QED BY <1>3, <2>1, <2>2
<1>6. \A f \in Values \cup Sizes \cup Marks : f # Space /\ f # Newline /\ f \notin Chunks
  BY <1>1, <1>2, <1>3, <1>4
<1>7. Space # Newline
  BY <1>3
<1> QED BY <1>2, <1>3, <1>5, <1>6, <1>7

\* A newline is the last token, a space comes at the even places, and what says
\* something where the text has it.
LEMMA Places ==
    ASSUME NEW p, WellFormed(p), NEW i \in 1 .. Len(Written(p))
    PROVE  /\ Written(p)[i] \in Tokens
           /\ Written(p)[i] = Newline => i = Len(Written(p))
           /\ i > 3 /\ Written(p)[i] = Space => i % 2 = 0 /\ i <= 4 + 2 * TextLength(p)
           /\ i > 3 /\ Written(p)[i] \in Values \cup Sizes \cup Marks =>
                /\ i % 2 = 1 /\ i <= 3 + 2 * TextLength(p)
                /\ Written(p)[i] = Text(p)[(i - 3) \div 2]
<1> DEFINE W == Written(p)
           L == TextLength(p)
<1>1. Layout(p)
  BY WrittenIsLaidOut
<1>2. L \in Nat /\ i \in Nat /\ i >= 1 /\ FileLength(p) \in Nat /\ i <= 4 + 2 * L + FileLength(p)
  BY <1>1 DEF Layout
<1>10. Len(W) = 4 + 2 * L + FileLength(p)
  BY <1>1 DEF Layout
<1>9. W[i] \in Tokens
  BY <1>1, ElementOfSeq DEF Layout
<1> HIDE DEF W, L
<1>3. CASE i \in 1 .. 3
  <2>1. W[i] = Char(Letters[p.kind][i]) /\ Letters[p.kind][i] \in Alphabet
    BY <1>1, <1>3, LettersOfTheAlphabet DEF Layout, WellFormed, W
  <2>2. W[i] # Newline
    BY <2>1, LettersOfTheAlphabet DEF Newline, Char
  <2> QED BY <1>2, <1>3, <1>9, <2>2 DEF W, L
<1>4. CASE i \in 4 .. 3 + 2 * L
  <2>1. i - 3 \in 1 .. 2 * L /\ 3 + (i - 3) = i /\ i <= 4 + 2 * L
    BY <1>2, <1>4
  <2>2. W[i] = IF (i - 3) % 2 = 1 THEN Space ELSE Text(p)[(i - 3) \div 2]
    BY <1>1, <2>1 DEF Layout, W, L
  <2>3. CASE (i - 3) % 2 = 1
    <3>1. i % 2 = 0
      BY <2>3, <1>2
    <3> QED BY <1>2, <1>4, <1>9, <2>1, <2>2, <2>3, <3>1, Disjoint DEF W, L
  <2>4. CASE (i - 3) % 2 # 1
    <3>1. i % 2 = 1 /\ (i - 3) \div 2 \in 1 .. L
      BY <2>4, <1>4, <1>2
    <3>2. Text(p)[(i - 3) \div 2] \in Values \cup Sizes \cup Marks
      BY <3>1, ContentIsText, ElementOfSeq DEF TextLength, L
    <3>3. W[i] = Text(p)[(i - 3) \div 2]
      BY <2>2, <2>4
    <3>4. W[i] # Space /\ W[i] # Newline
      BY <3>2, <3>3, Disjoint
    <3> QED BY <1>2, <1>4, <1>9, <3>1, <3>3, <3>4 DEF W, L
  <2> QED BY <2>3, <2>4
<1>5. CASE i = 4 + 2 * L /\ HasFile(p)
  <2>1. W[i] = Space /\ i % 2 = 0 /\ i > 3
    BY <1>1, <1>2, <1>5 DEF Layout, W, L
  <2> QED BY <1>2, <1>5, <1>9, <2>1, Disjoint DEF W, L
<1>6. CASE i > 4 + 2 * L /\ i # 4 + 2 * L + FileLength(p)
  <2>1. HasFile(p)
    <3> SUFFICES ASSUME ~HasFile(p) PROVE FALSE
      OBVIOUS
    <3>1. FileLength(p) = 0
      BY DEF FileLength
    <3> QED BY <1>2, <1>6, <3>1
  <2>6. PICK d \in Nat : d = Len(p.data)
    BY DEF WellFormed
  <2>7. FileLength(p) = 1 + d
    BY <2>1, <2>6 DEF FileLength
  <2>8. i - (4 + 2 * L) \in 1 .. d /\ 4 + 2 * L + (i - (4 + 2 * L)) = i
    BY <1>2, <1>6, <2>7
  <2>2. i - (4 + 2 * L) \in 1 .. Len(p.data) /\ 4 + 2 * L + (i - (4 + 2 * L)) = i
    BY <2>6, <2>8
  <2>3. W[i] = p.data[i - (4 + 2 * L)]
    BY <1>1, <2>1, <2>2 DEF Layout, W, L
  <2>4. W[i] \in Chunks
    BY <2>2, <2>3, ElementOfSeq DEF WellFormed
  <2> QED BY <1>2, <1>9, <2>4, Disjoint DEF W, L
<1>7. CASE i = 4 + 2 * L + FileLength(p)
  <2>1. W[i] = Newline
    BY <1>1, <1>7, <1>10 DEF Layout, W
  <2> QED BY <1>2, <1>7, <1>9, <1>10, <2>1, Disjoint DEF W, L
<1>8. \/ i \in 1 .. 3
      \/ i \in 4 .. 3 + 2 * L
      \/ (i = 4 + 2 * L /\ HasFile(p))
      \/ (i > 4 + 2 * L /\ i # 4 + 2 * L + FileLength(p))
      \/ i = 4 + 2 * L + FileLength(p)
  <2>1. HasFile(p) \/ FileLength(p) = 0
    BY DEF FileLength
  <2> QED BY <1>2, <2>1
<1> QED BY <1>3, <1>4, <1>5, <1>6, <1>7, <1>8

-----------------------------------------------------------------------------
(* Where the reader is                                                     *)

\* It has taken k of the m tokens that arrived.
Stands(k, m) ==
    /\ m \in 0 .. Len(Written(packet)) /\ k \in 0 .. m
    /\ Ahead = SubSeq(Written(packet), k + 1, m)
    /\ whole = (m = Len(Written(packet)))

\* It holds the fields that come before token k, and the file when it has read that.
Told(k) ==
    \/ /\ k \in 3 .. 4 + 2 * TextLength(packet)
       /\ fields = SubSeq(Text(packet), 1, (k - 3) \div 2)
    \/ /\ HasFile(packet)
       /\ k = 4 + 2 * TextLength(packet) + Len(packet.data)
       /\ fields = Text(packet) \o packet.data

\* What is called on a stream: after a string, whose delimiter is kept, only what
\* takes that; and a file only after a size and a space.
StreamCalls ==
    {"space", "user", "word", "auction", "int", "file", "size", "status", "data", "delimiter"}

OnStream(s) ==
    /\ s \in Seq(StreamCalls)
    /\ \A i \in 1 .. Len(s) - 1 :
        /\ s[i] \notin {"space", "data", "delimiter"} => s[i + 1] \in {"space", "delimiter"}
        /\ s[i + 1] = "data" => s[i] = "space"
    /\ \A i \in 1 .. Len(s) - 2 : s[i + 2] = "data" => s[i] = "size"

\* What is called on a datagram.
DatagramCalls ==
    {"space", "user", "word", "auction", "int", "file", "date", "state", "status", "delimiter",
     "auctions", "events", "mark"}

OnDatagram(s) ==
    /\ s \in Seq(DatagramCalls)
    /\ \A i \in 2 .. Len(s) : s[i] # "mark"

Ordered ==
    /\ ~OverUdp =>
        /\ OnStream(ops)
        /\ pending # <<>> /\ ops # <<>> => ops[1] \in {"space", "delimiter"}
    /\ OverUdp =>
        /\ OnDatagram(ops)
        /\ pending = <<>>
        /\ ops # <<>> /\ ops[1] = "mark" => line # <<>> /\ Head(line) \in Marks

SizeRead == fields # <<>> /\ fields[Len(fields)] \in Sizes
FileAhead(k) ==
    /\ ops # <<>> /\ ops[1] = "data" => SizeRead /\ k % 2 = 0
    /\ Len(ops) >= 2 /\ ops[2] = "data" => SizeRead /\ k % 2 = 1

AtKind(k) ==
    /\ side = "server" /\ k = 0
    /\ ops = <<"kind">> /\ pending = <<>> /\ fields = <<>> /\ errors = 0

\* The letters that are still to be read.
CallsFrom(i) ==
    LET l == Letters[ReplyTo(asked)]
    IN  CASE i = 1 -> <<l[1], l[2], l[3], "space", "status">>
          [] i = 2 -> <<l[2], l[3], "space", "status">>
          [] i = 3 -> <<l[3], "space", "status">>
          [] i = 4 -> <<"space", "status">>
LettersFit(i) ==
    \A j \in 1 .. i : Letters[packet.kind][j] = Letters[ReplyTo(asked)][j]

\* The letter that is read next is the i-th, or the packet ended before.
Naming(k, m) ==
    /\ side = "client" /\ pending = <<>> /\ fields = <<>> /\ errors \in 0 .. 2
    /\ packet.kind \in ReplyKinds \/ packet = Packet("ERR", <<>>)
    /\ \E i \in 1 .. 3 :
        /\ ops = CallsFrom(i)
        /\ \/ /\ k = i - 1
              /\ errors = 0 => LettersFit(k)
              /\ errors > 0 => packet.kind = "ERR"
           \/ k = m /\ m < i - 1

\* Nothing is left of the packet but what the next call refuses.
Lost ==
    /\ side = "client" /\ ops = <<"space", "status">>
    /\ Ahead = <<>> \/ Head(Ahead) # Space

Refused == ops = <<"delimiter">> /\ errors = 3

Telling(k) ==
    /\ k >= 3 /\ packet.kind \in Expected /\ errors = 0
    /\ Told(k) /\ Ordered /\ FileAhead(k)

IInv ==
    /\ side \in {"none", "server", "client"}
    /\ side # "none" =>
        /\ asked \in Requests
        /\ WellFormed(packet)
        /\ side = "server" => packet.kind = asked
        /\ line \in Seq(Tokens)
        /\ pending \in Seq(Tokens) /\ Len(pending) <= 1
        /\ outcome = "none" =>
            \E m, k \in 0 .. Len(Written(packet)) :
                Stands(k, m) /\ (AtKind(k) \/ Naming(k, m) \/ Lost \/ Refused \/ Telling(k))
        /\ AcceptedIsSent
    /\ side = "none" => outcome = "none" /\ ops = <<>>

\* What is ahead, token by token.
LEMMA AheadAt ==
    ASSUME WellFormed(packet), NEW k, NEW m, Stands(k, m)
    PROVE  /\ k \in Nat /\ m \in Nat /\ k <= m /\ m <= Len(Written(packet))
           /\ Len(Written(packet)) \in Nat /\ Written(packet) \in Seq(Tokens)
           /\ Ahead \in Seq(Tokens) /\ Len(Ahead) = m - k
           /\ \A i \in 1 .. m - k : Ahead[i] = Written(packet)[k + i]
           /\ Ahead # <<>> =>
                /\ k + 1 \in 1 .. m
                /\ Head(Ahead) = Written(packet)[k + 1]
                /\ Tail(Ahead) = SubSeq(Written(packet), (k + 1) + 1, m)
<1> DEFINE W == Written(packet)
<1>1. W \in Seq(Tokens) /\ Len(W) \in Nat
  BY WrittenIsLaidOut, LenProperties DEF Layout
<1> HIDE DEF W
<1>2. k \in Nat /\ m \in Nat /\ k <= m /\ m <= Len(W) /\ Ahead = SubSeq(W, k + 1, m)
  BY <1>1 DEF Stands, W
<1>3. \A i \in k + 1 .. m : W[i] \in Tokens
  <2> TAKE i \in k + 1 .. m
  <2>1. i \in 1 .. Len(W)
    BY <1>1, <1>2
  <2> QED BY <1>1, <2>1, ElementOfSeq
<1>4. /\ Ahead \in Seq(Tokens)
      /\ Len(Ahead) = IF k + 1 <= m THEN m - (k + 1) + 1 ELSE 0
      /\ \A i \in 1 .. m - (k + 1) + 1 : Ahead[i] = W[(k + 1) + i - 1]
  <2>1. k + 1 \in Int /\ m \in Int
    BY <1>2
  <2> QED BY <1>2, <1>3, <2>1, SubSeqProperties
<1>5. Len(Ahead) = m - k
  BY <1>2, <1>4
<1>6. \A i \in 1 .. m - k : Ahead[i] = W[k + i]
  <2> TAKE i \in 1 .. m - k
  <2>1. i \in 1 .. m - (k + 1) + 1 /\ (k + 1) + i - 1 = k + i
    BY <1>2
  <2> QED BY <1>4, <2>1
<1>7. ASSUME Ahead # <<>>
      PROVE  /\ k + 1 \in 1 .. m
             /\ Head(Ahead) = W[k + 1]
             /\ Tail(Ahead) = SubSeq(W, (k + 1) + 1, m)
  <2>1. k + 1 \in 1 .. m
    <3>1. Len(Ahead) # 0
      BY <1>4, <1>7, EmptySeq
    <3> QED BY <1>2, <1>5, <3>1
  <2>2. k + 1 \in 1 .. Len(W) /\ m \in k + 1 .. Len(W)
    BY <1>1, <1>2, <2>1
  <2> QED BY <1>1, <1>2, <2>1, <2>2, HeadTailOfSubSeq
<1> QED BY <1>1, <1>2, <1>4, <1>5, <1>6, <1>7 DEF W

\* readChar takes the first token ahead.
LEMMA TakeCharMoves ==
    ASSUME line \in Seq(Tokens), pending \in Seq(Tokens), Len(pending) <= 1, Ahead # <<>>, TakeChar
    PROVE  Ahead' = Tail(Ahead) /\ pending' = <<>> /\ line' \in Seq(Tokens)
<1>1. CASE pending = <<>>
  <2>1. Ahead = line
    BY <1>1, ConcatEmptySeq DEF Ahead
  <2>2. Tail(line) \in Seq(Tokens)
    BY <2>1, HeadTailProperties
  <2>3. line' = Tail(line) /\ pending' = <<>>
    BY <1>1 DEF TakeChar
  <2>4. <<>> \o Tail(line) = Tail(line)
    BY <2>2, ConcatEmptySeq
  <2> QED BY <2>1, <2>2, <2>3, <2>4 DEF Ahead
<1>2. CASE pending # <<>>
  <2>1. Len(pending) = 1
    <3>1. Len(pending) \in Nat \ {0}
      BY <1>2, EmptySeq
    <3> QED BY <3>1
  <2>2. Tail(pending) = <<>>
    <3>1. Tail(pending) \in Seq(Tokens) /\ Len(Tail(pending)) = Len(pending) - 1
      BY <1>2, HeadTailProperties
    <3>2. Len(Tail(pending)) = 0
      BY <2>1, <3>1
    <3> QED BY <3>1, <3>2, EmptySeq
  <2>3. Tail(Ahead) = line
    <3>1. Ahead \in Seq(Tokens) /\ Len(Ahead) = Len(pending) + Len(line)
          /\ \A i \in 1 .. Len(pending) + Len(line) :
                Ahead[i] = IF i <= Len(pending) THEN pending[i] ELSE line[i - Len(pending)]
      BY ConcatProperties DEF Ahead
    <3>2. Tail(Ahead) \in Seq(Tokens) /\ Len(Tail(Ahead)) = Len(line)
          /\ \A i \in 1 .. Len(line) : Tail(Ahead)[i] = Ahead[i + 1]
      BY <2>1, <3>1
    <3>3. \A i \in 1 .. Len(line) : Tail(Ahead)[i] = line[i]
      <4> TAKE i \in 1 .. Len(line)
      <4>1. Ahead[i + 1] = line[i]
        BY <2>1, <3>1
      <4> QED BY <3>2, <4>1
    <3> QED BY <3>2, <3>3, SeqEqual
  <2>4. line' = line /\ pending' = <<>> /\ Ahead' = line
    <3>1. line' = line /\ pending' = <<>>
      BY <1>2 DEF TakeChar
    <3> QED BY <3>1, ConcatEmptySeq DEF Ahead
  <2> QED BY <2>3, <2>4
<1> QED BY <1>1, <1>2

\* A sequence without its first element.
LEMMA TailIs ==
    ASSUME NEW S, NEW s \in Seq(S), NEW t \in Seq(S), Len(s) = Len(t) + 1,
           \A i \in 1 .. Len(t) : s[i + 1] = t[i]
    PROVE  s # <<>> /\ Head(s) = s[1] /\ Tail(s) = t
<1>1. s # <<>>
  <2>1. Len(t) \in Nat
    OBVIOUS
  <2>2. Len(s) # 0
    BY <2>1
  <2> QED BY <2>2
<1>2. Tail(s) \in Seq(S) /\ Len(Tail(s)) = Len(t) /\ \A i \in 1 .. Len(t) : Tail(s)[i] = s[i + 1]
  BY <1>1
<1>3. \A i \in 1 .. Len(t) : Tail(s)[i] = t[i]
  BY <1>2
<1>4. Tail(s) = t
  BY <1>2, <1>3, SeqEqual
<1> QED BY <1>1, <1>4

\* The calls by which the client reads a name.
LEMMA CallsOfAName ==
    ASSUME asked \in Requests
    PROVE  /\ CallsFrom(1) = ReadReply(ReplyTo(asked))
           /\ \A i \in 1 .. 3 :
                /\ CallsFrom(i) # <<>>
                /\ Head(CallsFrom(i)) = Letters[ReplyTo(asked)][i]
                /\ Letters[ReplyTo(asked)][i] \in Alphabet
                /\ Tail(CallsFrom(i)) = CallsFrom(i + 1)
           /\ CallsFrom(4) = <<"space", "status">>
<1>1. /\ ReplyTo(asked) \in DOMAIN Letters
      /\ \A i \in 1 .. 3 : Letters[ReplyTo(asked)][i] \in Alphabet
  BY KindsHaveLetters, LettersOfTheAlphabet
<1>2. PICK a \in Alphabet, b \in Alphabet, c \in Alphabet :
        /\ a = Letters[ReplyTo(asked)][1]
        /\ b = Letters[ReplyTo(asked)][2]
        /\ c = Letters[ReplyTo(asked)][3]
  BY <1>1
<1>3. /\ CallsFrom(1) = <<a, b, c, "space", "status">>
      /\ CallsFrom(2) = <<b, c, "space", "status">>
      /\ CallsFrom(3) = <<c, "space", "status">>
      /\ CallsFrom(4) = <<"space", "status">>
  BY <1>2 DEF CallsFrom
<1>4. \A i \in 1 .. 3 :
        /\ CallsFrom(i) # <<>>
        /\ Head(CallsFrom(i)) = Letters[ReplyTo(asked)][i]
        /\ Tail(CallsFrom(i)) = CallsFrom(i + 1)
  <2> DEFINE S == Alphabet \cup {"space", "status"}
  <2>1. PICK c1, c2, c3, c4 :
          /\ c1 = <<a, b, c, "space", "status">>
          /\ c2 = <<b, c, "space", "status">>
          /\ c3 = <<c, "space", "status">>
          /\ c4 = <<"space", "status">>
    OBVIOUS
  <2>2. /\ c1 \in Seq(S) /\ Len(c1) = 5 /\ c1[1] = a /\ c1[2] = b /\ c1[3] = c
        /\ c1[4] = "space" /\ c1[5] = "status"
    BY <2>1
  <2>3. /\ c2 \in Seq(S) /\ Len(c2) = 4 /\ c2[1] = b /\ c2[2] = c
        /\ c2[3] = "space" /\ c2[4] = "status"
    BY <2>1
  <2>4. c3 \in Seq(S) /\ Len(c3) = 3 /\ c3[1] = c /\ c3[2] = "space" /\ c3[3] = "status"
    BY <2>1
  <2>5. c4 \in Seq(S) /\ Len(c4) = 2 /\ c4[1] = "space" /\ c4[2] = "status"
    BY <2>1
  <2> HIDE DEF S
  <2>6. c1 # <<>> /\ Head(c1) = a /\ Tail(c1) = c2
    <3>1. \A i \in 1 .. Len(c2) : c1[i + 1] = c2[i]
      BY <2>2, <2>3
    <3>2. Len(c1) = Len(c2) + 1 /\ c1 \in Seq(S) /\ c2 \in Seq(S)
      BY <2>2, <2>3
    <3>3. c1 # <<>> /\ Head(c1) = c1[1] /\ Tail(c1) = c2
      BY <3>1, <3>2, TailIs
    <3> QED BY <2>2, <3>3
  <2>7. c2 # <<>> /\ Head(c2) = b /\ Tail(c2) = c3
    <3>1. \A i \in 1 .. Len(c3) : c2[i + 1] = c3[i]
      BY <2>3, <2>4
    <3>2. Len(c2) = Len(c3) + 1 /\ c2 \in Seq(S) /\ c3 \in Seq(S)
      BY <2>3, <2>4
    <3>3. c2 # <<>> /\ Head(c2) = c2[1] /\ Tail(c2) = c3
      BY <3>1, <3>2, TailIs
    <3> QED BY <2>3, <3>3
  <2>8. c3 # <<>> /\ Head(c3) = c /\ Tail(c3) = c4
    <3>1. \A i \in 1 .. Len(c4) : c3[i + 1] = c4[i]
      BY <2>4, <2>5
    <3>2. Len(c3) = Len(c4) + 1 /\ c3 \in Seq(S) /\ c4 \in Seq(S)
      BY <2>4, <2>5
    <3>3. c3 # <<>> /\ Head(c3) = c3[1] /\ Tail(c3) = c4
      BY <3>1, <3>2, TailIs
    <3> QED BY <2>4, <3>3
  <2>9. CallsFrom(1) = c1 /\ CallsFrom(2) = c2 /\ CallsFrom(3) = c3 /\ CallsFrom(4) = c4
    BY <1>3, <2>1
  <2> TAKE i \in 1 .. 3
  <2>10. CASE i = 1
    BY <1>2, <2>6, <2>9, <2>10
  <2>11. CASE i = 2
    BY <1>2, <2>7, <2>9, <2>11
  <2>12. CASE i = 3
    BY <1>2, <2>8, <2>9, <2>12
  <2> QED BY <2>10, <2>11, <2>12
<1>5. CallsFrom(1) = ReadReply(ReplyTo(asked))
  <2>1. Letters[ReplyTo(asked)] = <<a, b, c>>
    BY <1>1, <1>2 DEF Letters
  <2>2. <<a, b, c>> \o <<"space", "status">> = <<a, b, c, "space", "status">>
    <3> DEFINE S == Alphabet \cup {"space", "status"}
    <3>1. PICK l : l = <<a, b, c>>
      OBVIOUS
    <3>2. PICK n : n = <<"space", "status">>
      OBVIOUS
    <3>3. PICK all : all = <<a, b, c, "space", "status">>
      OBVIOUS
    <3>4. /\ l \in Seq(S) /\ Len(l) = 3 /\ l[1] = a /\ l[2] = b /\ l[3] = c
          /\ n \in Seq(S) /\ Len(n) = 2 /\ n[1] = "space" /\ n[2] = "status"
          /\ all \in Seq(S) /\ Len(all) = 5 /\ all[1] = a /\ all[2] = b /\ all[3] = c
          /\ all[4] = "space" /\ all[5] = "status"
      BY <3>1, <3>2, <3>3
    <3> HIDE DEF S
    <3>5. l \in Seq(S) /\ n \in Seq(S)
      BY <3>4
    <3>6. /\ l \o n \in Seq(S) /\ Len(l \o n) = Len(l) + Len(n)
          /\ \A i \in 1 .. Len(l) : (l \o n)[i] = l[i]
          /\ \A i \in 1 .. Len(n) : (l \o n)[Len(l) + i] = n[i]
      BY <3>5, Joined
    <3>7. /\ Len(l \o n) = 5
          /\ \A i \in 1 .. 3 : (l \o n)[i] = l[i]
          /\ \A i \in 1 .. 2 : (l \o n)[3 + i] = n[i]
      BY <3>4, <3>6
    <3>8. (l \o n)[3 + 1] = "space" /\ (l \o n)[3 + 2] = "status"
      BY <3>4, <3>7
    <3>9. \A i \in 1 .. 5 : (l \o n)[i] = all[i]
      BY <3>4, <3>7, <3>8
    <3>10. l \o n = all
      BY <3>4, <3>6, <3>7, <3>9, SeqEqual
    <3> QED BY <3>1, <3>2, <3>3, <3>10
  <2> QED BY <1>3, <2>1, <2>2 DEF ReadReply
<1> QED BY <1>1, <1>3, <1>4, <1>5

\* The calls that are left after one of them.
LEMMA TailOrdered ==
    ASSUME Ordered, ops # <<>>
    PROVE  /\ Head(ops) = ops[1]
           /\ ~OverUdp => OnStream(Tail(ops))
           /\ OverUdp => OnDatagram(Tail(ops)) /\ (Tail(ops) # <<>> => Tail(ops)[1] # "mark")
           /\ Tail(ops) # <<>> /\ Tail(ops)[1] = "data" =>
                ops[1] = "space" /\ Len(ops) >= 2 /\ ops[2] = "data"
           /\ Len(Tail(ops)) >= 2 /\ Tail(ops)[2] = "data" => ops[1] = "size"
           /\ ~OverUdp /\ ops[1] \notin {"space", "data", "delimiter"} /\ Tail(ops) # <<>> =>
                Tail(ops)[1] \in {"space", "delimiter"}
<1>1. PICK S : S \in {StreamCalls, DatagramCalls} /\ ops \in Seq(S)
  BY DEF Ordered, OnStream, OnDatagram
<1>2. /\ Tail(ops) \in Seq(S) /\ Len(Tail(ops)) = Len(ops) - 1 /\ Len(ops) \in Nat
      /\ \A i \in 1 .. Len(ops) - 1 : Tail(ops)[i] = ops[i + 1]
      /\ Head(ops) = ops[1]
  BY <1>1
<1>3. ASSUME ~OverUdp PROVE OnStream(Tail(ops))
  <2>1. OnStream(ops)
    BY <1>3 DEF Ordered
  <2>2. Tail(ops) \in Seq(StreamCalls)
    BY <2>1 DEF OnStream
  <2> QED BY <1>2, <2>1, <2>2 DEF OnStream
<1>4. ASSUME OverUdp PROVE OnDatagram(Tail(ops)) /\ \A i \in 1 .. Len(Tail(ops)) : Tail(ops)[i] # "mark"
  <2>1. OnDatagram(ops)
    BY <1>4 DEF Ordered
  <2>2. Tail(ops) \in Seq(DatagramCalls)
    BY <2>1 DEF OnDatagram
  <2> QED BY <1>2, <2>1, <2>2 DEF OnDatagram
<1>5. Tail(ops) # <<>> => Len(Tail(ops)) >= 1
  BY <1>2, EmptySeq
<1>6. ASSUME OverUdp PROVE \A i \in 1 .. Len(Tail(ops)) : Tail(ops)[i] # "data"
  <2>1. Tail(ops) \in Seq(DatagramCalls)
    BY <1>4, <1>6 DEF OnDatagram
  <2> QED BY <2>1, ElementOfSeq DEF DatagramCalls
<1>7. ASSUME ~OverUdp PROVE OnStream(ops)
  BY <1>7 DEF Ordered
<1>8. Tail(ops) # <<>> /\ Tail(ops)[1] = "data" => ops[1] = "space" /\ Len(ops) >= 2 /\ ops[2] = "data"
  BY <1>2, <1>5, <1>6, <1>7 DEF OnStream
<1>9. Len(Tail(ops)) >= 2 /\ Tail(ops)[2] = "data" => ops[1] = "size"
  BY <1>2, <1>5, <1>6, <1>7 DEF OnStream
<1>10. ~OverUdp /\ ops[1] \notin {"space", "data", "delimiter"} /\ Tail(ops) # <<>> =>
        Tail(ops)[1] \in {"space", "delimiter"}
  BY <1>2, <1>5, <1>7 DEF OnStream
<1>11. ASSUME OverUdp, Tail(ops) # <<>> PROVE Tail(ops)[1] # "mark"
  <2>1. 1 \in 1 .. Len(Tail(ops))
    BY <1>2, <1>5, <1>11
  <2> QED BY <1>4, <1>11, <2>1
<1> QED BY <1>2, <1>3, <1>4, <1>8, <1>9, <1>10, <1>11

\* A reading that ends other than by accepting.
LEMMA EndKeeps ==
    ASSUME IInv, side # "none", NEW how, how \notin {"none", "read"}, End(how)
    PROVE  IInv'
BY DEF IInv, End, AcceptedIsSent

\* A reading that goes on.
LEMMA TellingKeeps ==
    ASSUME IInv, side # "none", UNCHANGED <<asked, packet, whole, side>>, outcome' = "none",
           line' \in Seq(Tokens), pending' \in Seq(Tokens), Len(pending') <= 1,
           NEW k, NEW m, Stands(k, m)', Telling(k)'
    PROVE  IInv'
<1>1. m \in 0 .. Len(Written(packet')) /\ k \in 0 .. Len(Written(packet'))
  <2>1. Len(Written(packet)) \in Nat
    BY WrittenIsLaidOut, LenProperties DEF IInv, Layout
  <2> QED BY <2>1 DEF Stands
<1> QED BY <1>1 DEF IInv, AcceptedIsSent

\* Where the reader stands when it calls what reads neither a kind nor a letter.
LEMMA AtCalls ==
    ASSUME IInv, outcome = "none", ops # <<>>, Head(ops) \notin Alphabet \cup {"kind"}
    PROVE  /\ side \in {"server", "client"} /\ asked \in Requests /\ WellFormed(packet)
           /\ line \in Seq(Tokens) /\ pending \in Seq(Tokens) /\ Len(pending) <= 1
           /\ \E k, m : Stands(k, m) /\ (Lost \/ Refused \/ Telling(k))
<1>1. \A k, m : ~Naming(k, m)
  <2> SUFFICES ASSUME NEW k, NEW m, Naming(k, m) PROVE FALSE
    OBVIOUS
  <2>1. PICK i \in 1 .. 3 : ops = CallsFrom(i)
    BY DEF Naming
  <2>2. asked \in Requests
    BY DEF IInv, Naming
  <2> QED BY <2>1, <2>2, CallsOfAName
<1>2. \A k : ~AtKind(k)
  BY DEF AtKind
<1> QED BY <1>1, <1>2 DEF IInv

\* The reader takes a token.
LEMMA StandsNext ==
    ASSUME WellFormed(packet), NEW k, NEW m, Stands(k, m), Ahead # <<>>,
           UNCHANGED <<packet, whole>>, Ahead' = Tail(Ahead)
    PROVE  Stands(k + 1, m)'
<1>1. k \in Nat /\ m \in Nat /\ k + 1 \in 1 .. m /\ Tail(Ahead) = SubSeq(Written(packet), (k + 1) + 1, m)
  BY AheadAt
<1>2. Written(packet)' = Written(packet)
  BY DEF Written, Name, Spaced, HasFile, Events, Shown
<1>3. m \in 0 .. Len(Written(packet)) /\ whole = (m = Len(Written(packet)))
  BY DEF Stands
<1> QED BY <1>1, <1>2, <1>3 DEF Stands

\* One more token of a text.
LEMMA TextGrows ==
    ASSUME NEW S, NEW s \in Seq(S), NEW n \in Nat, n < Len(s)
    PROVE  Append(SubSeq(s, 1, n), s[n + 1]) = SubSeq(s, 1, n + 1)
<1>1. Len(s) \in Nat /\ n + 1 \in 1 .. Len(s) /\ 1 \in 1 .. Len(s) /\ n + 1 \in 1 .. Len(s)
  OBVIOUS
<1>2. SubSeq(s, 1, n + 1) = SubSeq(s, 1, (n + 1) - 1) \o <<s[n + 1]>>
  BY <1>1, SubSeqRecursiveSecond
<1>3. \A i \in 1 .. n : s[i] \in S
  BY <1>1
<1>4. SubSeq(s, 1, n) \in Seq(S) /\ s[n + 1] \in S
  BY <1>1, <1>3, SubSeqProperties
<1>5. Append(SubSeq(s, 1, n), s[n + 1]) = SubSeq(s, 1, n) \o <<s[n + 1]>>
  BY <1>4, AppendIsConcat
<1> QED BY <1>2, <1>5

\* A space comes before a field, or before the file.
LEMMA SpaceTells ==
    ASSUME WellFormed(packet), NEW k, NEW m, Stands(k, m), Telling(k),
           Ahead # <<>>, Head(Ahead) = Space, UNCHANGED <<packet, fields>>
    PROVE  k \in Nat /\ k % 2 = 1 /\ Told(k + 1)'
<1> DEFINE L == TextLength(packet)
<1>1. k \in Nat /\ k >= 3 /\ k + 1 \in 1 .. Len(Written(packet)) /\ Head(Ahead) = Written(packet)[k + 1]
  BY AheadAt DEF Telling
<1>2. (k + 1) % 2 = 0 /\ k + 1 <= 4 + 2 * L
  BY <1>1, Places
<1>3. L \in Nat
  BY WrittenIsLaidOut DEF Layout
<1>4. k % 2 = 1 /\ ((k + 1) - 3) \div 2 = (k - 3) \div 2 /\ k + 1 \in 3 .. 4 + 2 * L
  BY <1>1, <1>2, <1>3
<1>5. fields = SubSeq(Text(packet), 1, (k - 3) \div 2)
  <2>1. Len(packet.data) \in Nat
    BY DEF WellFormed
  <2>2. k # 4 + 2 * L + Len(packet.data)
    BY <1>1, <1>2, <1>3, <2>1
  <2> QED BY <2>2 DEF Telling, Told
<1>6. Text(packet)' = Text(packet) /\ TextLength(packet)' = L
  BY DEF Text, TextLength, Events, Shown
<1> QED BY <1>1, <1>4, <1>5, <1>6 DEF Told

\* The field that is read next, by the number of the tokens that were.
LEMMA HalfWay ==
    ASSUME NEW k \in Nat, NEW L \in Nat, k >= 3, (k + 1) % 2 = 1, k + 1 <= 3 + 2 * L
    PROVE  /\ k % 2 = 0 /\ ((k + 1) - 3) \div 2 = (k - 3) \div 2 + 1
           /\ (((k + 1) + 1) - 3) \div 2 = (k - 3) \div 2 + 1
           /\ k + 1 \in 3 .. 4 + 2 * L /\ (k + 1) + 1 \in 3 .. 4 + 2 * L
           /\ (k - 3) \div 2 \in Nat /\ (k - 3) \div 2 < L
<1>1. k % 2 = 0
  OBVIOUS
<1>2. PICK h \in Nat : k = 2 * h /\ h >= 2
  <2>1. k = 2 * (k \div 2) /\ k \div 2 \in Nat
    BY <1>1
  <2> QED BY <2>1
<1>3. /\ ((k + 1) - 3) \div 2 = h - 1 /\ (k - 3) \div 2 = h - 2 /\ (((k + 1) + 1) - 3) \div 2 = h - 1
  BY <1>2
<1> QED BY <1>1, <1>2, <1>3

\* What says something is the next field of the text.
LEMMA ValueTells ==
    ASSUME WellFormed(packet), NEW k, NEW m, Stands(k, m), Telling(k),
           Ahead # <<>>, Head(Ahead) \in Values \cup Sizes \cup Marks,
           UNCHANGED packet, fields' = Append(fields, Head(Ahead))
    PROVE  k \in Nat /\ k % 2 = 0 /\ Told(k + 1)' /\ Told((k + 1) + 1)'
<1> DEFINE L == TextLength(packet)
           n == (k - 3) \div 2
<1>1. k \in Nat /\ k >= 3 /\ k + 1 \in 1 .. Len(Written(packet)) /\ Head(Ahead) = Written(packet)[k + 1]
  BY AheadAt DEF Telling
<1>2. /\ (k + 1) % 2 = 1 /\ k + 1 <= 3 + 2 * L
      /\ Head(Ahead) = Text(packet)[((k + 1) - 3) \div 2]
  BY <1>1, Places
<1>3. L \in Nat
  BY WrittenIsLaidOut DEF Layout
<1>4. /\ k % 2 = 0 /\ ((k + 1) - 3) \div 2 = n + 1 /\ (((k + 1) + 1) - 3) \div 2 = n + 1
      /\ k + 1 \in 3 .. 4 + 2 * L /\ (k + 1) + 1 \in 3 .. 4 + 2 * L /\ n \in Nat /\ n < L
  BY <1>1, <1>2, <1>3, HalfWay
<1>5. fields = SubSeq(Text(packet), 1, n)
  <2>1. Len(packet.data) \in Nat
    BY DEF WellFormed
  <2>2. k # 4 + 2 * L + Len(packet.data)
    BY <1>1, <1>2, <1>3, <2>1
  <2> QED BY <2>2 DEF Telling, Told
<1>6. Text(packet)' = Text(packet) /\ TextLength(packet)' = L
  BY DEF Text, TextLength, Events, Shown
<1> HIDE DEF n
<1>7. Append(fields, Head(Ahead)) = SubSeq(Text(packet), 1, n + 1)
  <2>1. Text(packet) \in Seq(Values \cup Sizes \cup Marks) /\ n < Len(Text(packet))
    BY <1>4, ContentIsText DEF TextLength
  <2>2. Append(SubSeq(Text(packet), 1, n), Text(packet)[n + 1]) = SubSeq(Text(packet), 1, n + 1)
    BY <1>4, <2>1, TextGrows
  <2> QED BY <1>2, <1>4, <1>5, <2>2
<1> QED BY <1>1, <1>4, <1>6, <1>7 DEF Told

\* readString, and what it leaves for the next call.
LEMMA FieldMoves ==
    ASSUME line \in Seq(Tokens), pending = <<>>, line # <<>>, OverUdp \/ Separated,
           NEW calls, TakeField(calls)
    PROVE  /\ Ahead = line /\ Ahead' = Tail(Ahead)
           /\ line' \in Seq(Tokens) /\ pending' \in Seq(Tokens) /\ Len(pending') <= 1
           /\ OverUdp => pending' = <<>>
<1>1. Ahead = line
  BY ConcatEmptySeq DEF Ahead
<1>2. CASE OverUdp
  <2>1. line' = Tail(line) /\ pending' = <<>>
    BY <1>2 DEF TakeField
  <2>2. Tail(line) \in Seq(Tokens)
    BY HeadTailProperties
  <2>3. Ahead' = <<>> \o Tail(line)
    BY <2>1 DEF Ahead
  <2>4. <<>> \o Tail(line) = Tail(line)
    BY <2>2, ConcatEmptySeq
  <2> QED BY <1>1, <2>1, <2>2, <2>3, <2>4
<1>3. CASE ~OverUdp
  <2>1. Len(line) >= 2 /\ line' = Tail(Tail(line)) /\ pending' = <<line[2]>>
    BY <1>3 DEF TakeField, Separated
  <2>2. PICK t \in Seq(Tokens) : t = Tail(line)
    BY HeadTailProperties
  <2>3. t # <<>> /\ Head(t) = line[2]
    <3>1. Len(t) = Len(line) - 1 /\ Len(line) \in Nat /\ \A i \in 1 .. Len(line) - 1 : t[i] = line[i + 1]
      BY <2>2
    <3>2. 1 \in 1 .. Len(line) - 1 /\ Len(t) # 0
      BY <2>1, <3>1
    <3>3. t[1] = line[1 + 1]
      BY <3>1, <3>2
    <3> QED BY <3>2, <3>3
  <2>4. Tail(t) \in Seq(Tokens) /\ Head(t) \in Tokens
    BY <2>3, HeadTailProperties
  <2>5. <<Head(t)>> \o Tail(t) = t
    <3>1. Len(t) \in Nat /\ 1 \in 1 .. Len(t) /\ Len(t) \in 1 .. Len(t) /\ t = SubSeq(t, 1, Len(t))
      BY <2>3, SubSeqFull
    <3>2. SubSeq(t, 1, Len(t)) = <<t[1]>> \o SubSeq(t, 1 + 1, Len(t))
      BY <3>1, SubSeqRecursiveFirst
    <3>3. Tail(t) = SubSeq(t, 2, Len(t))
      BY <2>3, TailIsSubSeq
    <3>4. Head(t) = t[1]
      BY <2>3
    <3> QED BY <3>1, <3>2, <3>3, <3>4
  <2>6. Ahead' = <<Head(t)>> \o Tail(t)
    BY <2>1, <2>2, <2>3 DEF Ahead
  <2>7. <<line[2]>> \in Seq(Tokens) /\ Len(<<line[2]>>) = 1
    BY <2>3, <2>4
  <2>8. pending' \in Seq(Tokens) /\ Len(pending') <= 1
    BY <2>1, <2>7
  <2>9. Ahead' = Tail(Ahead)
    BY <1>1, <2>2, <2>5, <2>6
  <2>10. line' \in Seq(Tokens)
    BY <2>1, <2>2, <2>4
  <2> QED BY <1>1, <1>3, <2>8, <2>9, <2>10
<1> QED BY <1>2, <1>3

\* The calls that follow a name or a status.
LEMMA ScriptsInOrder ==
    /\ \A k \in TcpRequests : OnStream(ReadRequest(k))
    /\ \A k \in UdpRequests : OnDatagram(ReadRequest(k))
    /\ \A k \in TcpRequests : OnStream(ReadOk(ReplyTo(k)))
    /\ \A k \in UdpRequests : OnDatagram(ReadOk(ReplyTo(k)))
    /\ OnStream(<<"space", "status">>) /\ OnDatagram(<<"space", "status">>)
    /\ OnStream(<<"delimiter">>) /\ OnDatagram(<<"delimiter">>)
<1>1. OnStream(<<"delimiter">>) /\ OnDatagram(<<"delimiter">>)
  BY DEF OnStream, OnDatagram, StreamCalls, DatagramCalls
<1>2. OnStream(<<"space", "status">>) /\ OnDatagram(<<"space", "status">>)
  BY DEF OnStream, OnDatagram, StreamCalls, DatagramCalls
<1>3. OnDatagram(ReadAccount) /\ OnDatagram(ReadMine) /\ OnDatagram(ReadAuction)
  BY DEF OnDatagram, DatagramCalls, ReadAccount, ReadMine, ReadAuction
<1>4. OnStream(ReadAuction) /\ OnStream(ReadOpened)
  BY DEF OnStream, StreamCalls, ReadAuction, ReadOpened
<1>5. OnStream(ReadClose) /\ OnStream(ReadBid)
  BY DEF OnStream, StreamCalls, ReadClose, ReadBid
<1>6. OnStream(ReadAsset)
  BY DEF OnStream, StreamCalls, ReadAsset
<1>7. OnStream(ReadOpen)
  BY DEF OnStream, StreamCalls, ReadOpen
<1>8. OnDatagram(ReadAuctions) /\ OnDatagram(ReadRecord)
  BY DEF OnDatagram, DatagramCalls, ReadAuctions, ReadRecord
<1>9. \A k \in TcpRequests : OnStream(ReadRequest(k))
  BY <1>4, <1>5, <1>7 DEF ReadRequest, TcpRequests, TcpReply
<1>10. \A k \in UdpRequests : OnDatagram(ReadRequest(k))
  BY <1>1, <1>3 DEF ReadRequest, UdpRequests, UdpReply
<1>11. \A k \in TcpRequests : OnStream(ReadOk(ReplyTo(k)))
  BY <1>1, <1>4, <1>6 DEF ReadOk, ReplyTo, TcpRequests, TcpReply, UdpRequests, UdpReply
<1>12. \A k \in UdpRequests : OnDatagram(ReadOk(ReplyTo(k)))
  BY <1>1, <1>8 DEF ReadOk, ReplyTo, UdpRequests, UdpReply
<1> QED BY <1>1, <1>2, <1>9, <1>10, <1>11, <1>12

-----------------------------------------------------------------------------
(* The reader's steps                                                      *)

\* A space is read.
LEMMA SpaceKeeps ==
    ASSUME IInv, ReadSpace
    PROVE  IInv'
<1>1. outcome = "none" /\ ops # <<>> /\ Head(ops) = "space"
  BY DEF ReadSpace, AtCall, Next1
<1>2. Head(ops) \notin Alphabet \cup {"kind"}
  BY <1>1, LettersOfTheAlphabet
<1>3. /\ side \in {"server", "client"} /\ asked \in Requests /\ WellFormed(packet)
      /\ line \in Seq(Tokens) /\ pending \in Seq(Tokens) /\ Len(pending) <= 1
  BY <1>1, <1>2, AtCalls
<1>4. PICK k, m : Stands(k, m) /\ (Lost \/ Refused \/ Telling(k))
  BY <1>1, <1>2, AtCalls
<1>5. CASE ~(Ahead # <<>> /\ Head(Ahead) = Space)
  BY <1>3, <1>5, EndKeeps DEF ReadSpace, Invalid
<1>6. CASE Ahead # <<>> /\ Head(Ahead) = Space
  <2>1. /\ TakeChar /\ ops' = Tail(ops)
        /\ UNCHANGED <<asked, packet, whole, side, last, errors, fields, outcome>>
    BY <1>6 DEF ReadSpace
  <2>2. ~Lost /\ ~Refused
    BY <1>1, <1>6 DEF Lost, Refused
  <2>3. Telling(k) /\ Ordered
    BY <1>4, <2>2 DEF Telling
  <2>4. Ahead' = Tail(Ahead) /\ pending' = <<>> /\ line' \in Seq(Tokens)
    BY <1>3, <1>6, <2>1, TakeCharMoves
  <2>5. Stands(k + 1, m)'
    BY <1>3, <1>4, <1>6, <2>1, <2>4, StandsNext
  <2>6. k \in Nat /\ k % 2 = 1 /\ Told(k + 1)'
    BY <1>3, <1>4, <1>6, <2>1, <2>3, SpaceTells
  <2>7. ops[1] = "space"
    BY <1>1, <2>3, TailOrdered
  <2>8. Ordered'
    BY <1>1, <2>1, <2>3, <2>4, TailOrdered DEF Ordered, OverUdp
  <2>9. FileAhead(k + 1)'
    <3>1. ASSUME ops' # <<>>, ops'[1] = "data" PROVE SizeRead' /\ (k + 1) % 2 = 0
      <4>1. Len(ops) >= 2 /\ ops[2] = "data"
        BY <1>1, <2>1, <2>3, <3>1, TailOrdered
      <4>2. SizeRead /\ k % 2 = 1
        BY <2>3, <4>1 DEF Telling, FileAhead
      <4> QED BY <2>1, <2>6, <4>2 DEF SizeRead
    <3>2. ~(Len(ops') >= 2 /\ ops'[2] = "data")
      BY <1>1, <2>1, <2>3, <2>7, TailOrdered
    <3> QED BY <3>1, <3>2 DEF FileAhead
  <2>10. Telling(k + 1)'
    BY <2>1, <2>3, <2>6, <2>8, <2>9 DEF Telling, Expected
  <2>11. <<>> \in Seq(Tokens) /\ Len(<<>>) <= 1
    OBVIOUS
  <2> QED BY <1>1, <1>3, <2>1, <2>4, <2>5, <2>10, <2>11, TellingKeeps
<1> QED BY <1>5, <1>6

\* A token with the type of a field is one.
LEMMA TypedTokens ==
    ASSUME NEW f \in Tokens, f[1] \in Types \cup {"size", "status"}
    PROVE  f \in Values \cup Sizes /\ (f[1] = "size" => f \in Sizes)
<1>1. \A g \in Chunks : g[1] = "data"
  BY DEF Chunks, Chunk
<1>2. \A g \in Marks \cup {Space, Newline} \cup Names : g[1] = "char"
  <2>1. \A c : Char(c)[1] = "char"
    BY DEF Char
  <2> QED BY <2>1 DEF Marks, BidMark, EndMark, Space, Newline, Names
<1>3. f \in Values \cup Sizes
  BY <1>1, <1>2 DEF Tokens, Types
<1> QED BY <1>3, SizesAreNoValues DEF Types

\* A field is read: what follows from where the reader stands.
LEMMA FieldKeeps ==
    ASSUME IInv, outcome = "none", ops # <<>>, Head(ops) \notin {"space", "data", "delimiter"},
           side \in {"server", "client"}, asked \in Requests, WellFormed(packet),
           line \in Seq(Tokens), NEW k, NEW m, Stands(k, m), Telling(k),
           line # <<>>, Head(line) \in Values \cup Sizes \cup Marks, OverUdp \/ Separated,
           NEW calls, TakeField(calls),
           OverUdp => OnDatagram(calls) /\ (calls # <<>> => calls[1] # "mark"),
           ~OverUdp => OnStream(calls) /\ (calls # <<>> => calls[1] \in {"space", "delimiter"}),
           Len(calls) >= 2 /\ calls[2] = "data" => Head(line) \in Sizes
    PROVE  IInv'
<1>1. Ordered /\ Head(ops) = ops[1] /\ Len(ops) \in Nat
  <2>1. Ordered
    BY DEF Telling
  <2> QED BY <2>1, TailOrdered DEF Ordered, OnStream, OnDatagram
<1>2. pending = <<>>
  BY <1>1 DEF Ordered
<1>3. /\ Ahead = line /\ Ahead' = Tail(Ahead)
      /\ line' \in Seq(Tokens) /\ pending' \in Seq(Tokens) /\ Len(pending') <= 1
      /\ OverUdp => pending' = <<>>
  BY <1>2, FieldMoves
<1>4. /\ fields' = Append(fields, Head(Ahead)) /\ ops' = calls
      /\ UNCHANGED <<asked, packet, whole, side, last, errors, outcome>>
  BY <1>3 DEF TakeField
<1>5. Stands(k + 1, m)'
  BY <1>3, <1>4, StandsNext
<1>6. k \in Nat /\ k % 2 = 0 /\ Told(k + 1)'
  BY <1>3, <1>4, ValueTells
<1>7. Ordered'
  BY <1>3, <1>4 DEF Ordered, OverUdp
<1>8. FileAhead(k + 1)'
  <2>1. ASSUME calls # <<>> PROVE calls[1] # "data"
    <3>1. CASE OverUdp
      <4>1. calls \in Seq(DatagramCalls)
        BY <3>1 DEF OnDatagram
      <4> QED BY <2>1, <4>1 DEF DatagramCalls
    <3>2. CASE ~OverUdp
      BY <2>1, <3>2
    <3> QED BY <3>1, <3>2
  <2>2. ASSUME Len(calls) >= 2, calls[2] = "data" PROVE SizeRead' /\ (k + 1) % 2 = 1
    <3>1. Head(line) \in Sizes
      BY <2>2
    <3>2. fields' = Append(fields, Head(line)) /\ fields \in Seq(Values \cup Sizes \cup Marks \cup Chunks)
      <4>1. Text(packet) \in Seq(Values \cup Sizes \cup Marks)
        BY ContentIsText
      <4>2. PICK S : S = Values \cup Sizes \cup Marks \cup Chunks
        OBVIOUS
      <4>3. Text(packet) \in Seq(S) /\ packet.data \in Seq(S)
        BY <4>1, <4>2, SeqMonotonic DEF WellFormed
      <4>4. Text(packet) \o packet.data \in Seq(S)
        BY <4>3, ConcatProperties
      <4>5. ASSUME k \in 3 .. 4 + 2 * TextLength(packet)
            PROVE  SubSeq(Text(packet), 1, (k - 3) \div 2) \in Seq(S)
        <5>1. TextLength(packet) \in Nat
          BY WrittenIsLaidOut DEF Layout
        <5>2. (k - 3) \div 2 \in Nat /\ (k - 3) \div 2 <= TextLength(packet)
          BY <1>6, <4>5, <5>1
        <5>3. PICK n \in Nat : n = (k - 3) \div 2
          BY <5>2
        <5>4. \A i \in 1 .. n : Text(packet)[i] \in S
          BY <4>3, <5>2, <5>3 DEF TextLength
        <5>5. SubSeq(Text(packet), 1, n) \in Seq(S)
          BY <5>4, SubSeqProperties
        <5> QED BY <5>3, <5>5
      <4> QED BY <1>3, <1>4, <4>2, <4>4, <4>5 DEF Telling, Told
    <3>3. fields' # <<>> /\ fields'[Len(fields')] = Head(line)
      BY <3>1, <3>2
    <3>4. (k + 1) % 2 = 1
      BY <1>6
    <3> QED BY <3>1, <3>3, <3>4 DEF SizeRead
  <2> QED BY <1>4, <2>1, <2>2 DEF FileAhead
<1>9. Telling(k + 1)'
  BY <1>4, <1>6, <1>7, <1>8 DEF Telling, Expected
<1> QED BY <1>3, <1>4, <1>5, <1>9, TellingKeeps

\* A field is read.
LEMMA ReadFieldKeeps ==
    ASSUME IInv, ReadField
    PROVE  IInv'
<1>1. /\ outcome = "none" /\ ops # <<>> /\ Head(ops) = Next1
      /\ Next1 \in {"user", "word", "auction", "int", "file", "size", "state", "mark"}
  BY DEF ReadField, Next1
<1>2. Head(ops) \notin Alphabet \cup {"kind"}
  BY <1>1, LettersOfTheAlphabet
<1>3. /\ side \in {"server", "client"} /\ asked \in Requests /\ WellFormed(packet)
      /\ line \in Seq(Tokens) /\ pending \in Seq(Tokens) /\ Len(pending) <= 1
  BY <1>1, <1>2, AtCalls
<1>4. PICK k, m : Stands(k, m) /\ (Lost \/ Refused \/ Telling(k))
  BY <1>1, <1>2, AtCalls
<1>5. ~Lost /\ ~Refused
  BY <1>1 DEF Lost, Refused
<1>6. Telling(k) /\ Ordered
  BY <1>4, <1>5 DEF Telling
<1> DEFINE Fits == Typed(IF Next1 = "mark" THEN "char" ELSE Next1) /\ (OverUdp \/ Separated)
<1>7. CASE ~Fits
  BY <1>3, <1>7, EndKeeps DEF ReadField, Invalid
<1>8. CASE Fits
  <2>1. TakeField(Tail(ops))
    BY <1>8 DEF ReadField
  <2>2. line # <<>> /\ (OverUdp \/ Separated)
    BY <1>8 DEF Typed
  <2>3. Head(line) \in Tokens
    BY <1>3, <2>2, HeadTailProperties
  <2>4. /\ Head(ops) = ops[1]
        /\ ~OverUdp => OnStream(ops) /\ OnStream(Tail(ops))
        /\ OverUdp => OnDatagram(Tail(ops)) /\ (Tail(ops) # <<>> => Tail(ops)[1] # "mark")
        /\ Len(Tail(ops)) >= 2 /\ Tail(ops)[2] = "data" => ops[1] = "size"
        /\ ~OverUdp => (Tail(ops) # <<>> => Tail(ops)[1] \in {"space", "delimiter"})
    BY <1>1, <1>6, TailOrdered DEF Ordered
  <2>5. Head(line) \in Values \cup Sizes \cup Marks /\ (ops[1] = "size" => Head(line) \in Sizes)
    <3>1. CASE Next1 = "mark"
      <4>1. OverUdp
        <5> SUFFICES ASSUME ~OverUdp PROVE FALSE
          OBVIOUS
        <5>1. ops \in Seq(StreamCalls)
          BY <2>4 DEF OnStream
        <5>2. Head(ops) \in StreamCalls
          BY <1>1, <5>1, HeadTailProperties
        <5> QED BY <1>1, <3>1, <5>2 DEF StreamCalls
      <4>2. Head(line) \in Marks
        BY <1>1, <1>6, <2>4, <3>1, <4>1 DEF Ordered
      <4> QED BY <1>1, <2>4, <3>1, <4>2
    <3>2. CASE Next1 # "mark"
      <4>1. Head(line)[1] = Next1
        BY <1>8, <3>2 DEF Typed
      <4> QED BY <1>1, <2>3, <2>4, <3>2, <4>1, TypedTokens DEF Types
    <3> QED BY <3>1, <3>2
  <2>6. Head(ops) \notin {"space", "data", "delimiter"}
    BY <1>1
  <2> QED BY <1>1, <1>3, <1>4, <1>6, <2>1, <2>2, <2>4, <2>5, <2>6, FieldKeeps
<1> QED BY <1>7, <1>8

\* A status is read.
LEMMA StatusKeeps ==
    ASSUME IInv, ReadStatus
    PROVE  IInv'
<1>1. outcome = "none" /\ ops # <<>> /\ Head(ops) = "status"
  BY DEF ReadStatus, AtCall, Next1
<1>2. Head(ops) \notin Alphabet \cup {"kind"}
  BY <1>1, LettersOfTheAlphabet
<1>3. /\ side \in {"server", "client"} /\ asked \in Requests /\ WellFormed(packet)
      /\ line \in Seq(Tokens) /\ pending \in Seq(Tokens) /\ Len(pending) <= 1
  BY <1>1, <1>2, AtCalls
<1>4. PICK k, m : Stands(k, m) /\ (Lost \/ Refused \/ Telling(k))
  BY <1>1, <1>2, AtCalls
<1>5. ~Lost /\ ~Refused
  BY <1>1 DEF Lost, Refused
<1>6. Telling(k) /\ Ordered
  BY <1>4, <1>5 DEF Telling
<1> DEFINE Fits == Typed("status") /\ (OverUdp \/ Separated)
                     /\ Head(line)[2] \in Statuses[ReplyTo(asked)]
<1>7. CASE ~Fits
  BY <1>3, <1>7, EndKeeps DEF ReadStatus, Invalid
<1>8. CASE Fits
  <2>1. PICK calls : /\ calls \in {ReadOk(ReplyTo(asked)), <<"delimiter">>}
                     /\ TakeField(calls)
    BY <1>8 DEF ReadStatus
  <2>2. line # <<>> /\ (OverUdp \/ Separated) /\ Head(line)[1] = "status"
    BY <1>8 DEF Typed
  <2>3. Head(line) \in Values \cup Sizes \cup Marks
    BY <1>3, <2>2, HeadTailProperties, TypedTokens
  <2>4. OverUdp => OnDatagram(calls)
    BY <2>1, ScriptsInOrder DEF OverUdp
  <2>5. ~OverUdp => OnStream(calls)
    BY <1>3, <2>1, ScriptsInOrder DEF OverUdp, Requests
  <2>6. /\ calls[1] # "mark" /\ (Len(calls) >= 2 => calls[2] # "data")
        /\ ~OverUdp => calls[1] \in {"space", "delimiter"}
    <3>1. CASE calls = <<"delimiter">>
      BY <3>1
    <3>2. CASE calls = ReadAuctions
      BY <1>3, <2>5, <3>2 DEF ReadAuctions, OnStream, StreamCalls
    <3>3. CASE calls \in {ReadRecord, ReadOpened, ReadAsset}
      BY <3>3 DEF ReadRecord, ReadOpened, ReadAsset
    <3> QED BY <2>1, <3>1, <3>2, <3>3 DEF ReadOk
  <2>7. Head(ops) \notin {"space", "data", "delimiter"}
    BY <1>1
  <2> QED BY <1>1, <1>3, <1>4, <1>6, <2>1, <2>2, <2>3, <2>4, <2>5, <2>6, <2>7, FieldKeeps
<1> QED BY <1>7, <1>8

\* On a datagram nothing is kept back.
LEMMA OnlyOnDatagrams ==
    ASSUME Ordered, ops # <<>>, Head(ops) \in {"date", "auctions", "events", "mark", "state"}
    PROVE  OverUdp /\ OnDatagram(ops) /\ pending = <<>>
<1>1. OverUdp
  <2> SUFFICES ASSUME ~OverUdp PROVE FALSE
    OBVIOUS
  <2>1. ops \in Seq(StreamCalls)
    BY DEF Ordered, OnStream
  <2>2. Head(ops) \in StreamCalls
    BY <2>1, HeadTailProperties
  <2> QED BY <2>2 DEF StreamCalls
<1> QED BY <1>1 DEF Ordered

\* No file is sent by datagram.
LEMMA NoDataOnDatagrams ==
    ASSUME NEW s, OnDatagram(s)
    PROVE  (s # <<>> => s[1] # "data") /\ (Len(s) >= 2 => s[2] # "data")
<1>1. s \in Seq(DatagramCalls)
  BY DEF OnDatagram
<1> QED BY <1>1 DEF DatagramCalls

\* read_date_time takes the space after a date too.
LEMMA DateMoves ==
    ASSUME WellFormed(packet), line \in Seq(Tokens), pending = <<>>, NEW k, NEW m, Stands(k, m),
           Len(line) >= 2, line' = Tail(Tail(line)), UNCHANGED <<packet, whole, pending>>
    PROVE  Ahead = line /\ Stands((k + 1) + 1, m)' /\ line' \in Seq(Tokens)
<1>1. Ahead = line /\ line # <<>> /\ Len(line) \in Nat
  BY ConcatEmptySeq DEF Ahead
<1>2. /\ Tail(line) \in Seq(Tokens) /\ Tail(line) # <<>>
      /\ Tail(Tail(line)) \in Seq(Tokens)
  <2>1. Tail(line) \in Seq(Tokens) /\ Len(Tail(line)) = Len(line) - 1
    BY <1>1, HeadTailProperties
  <2>2. Len(Tail(line)) # 0
    BY <1>1, <2>1
  <2>3. Tail(line) # <<>>
    BY <2>2, EmptySeq
  <2> QED BY <2>1, <2>3, HeadTailProperties
<1>3. Ahead' = Tail(Tail(line))
  BY <1>2, ConcatEmptySeq DEF Ahead
<1>4. /\ k \in Nat /\ m \in Nat /\ k + 1 \in 1 .. m /\ m <= Len(Written(packet))
      /\ Tail(line) = SubSeq(Written(packet), (k + 1) + 1, m)
      /\ Written(packet) \in Seq(Tokens) /\ Len(Written(packet)) \in Nat
  BY <1>1, AheadAt
<1>5. k + 1 < m
  <2> SUFFICES ASSUME m < (k + 1) + 1 PROVE FALSE
    BY <1>4
  <2>1. SubSeq(Written(packet), (k + 1) + 1, m) = <<>>
    BY <1>4, SubSeqEmpty
  <2> QED BY <1>2, <1>4, <2>1
<1>6. Tail(Tail(line)) = SubSeq(Written(packet), ((k + 1) + 1) + 1, m)
  <2>1. (k + 1) + 1 \in 1 .. Len(Written(packet)) /\ m \in (k + 1) + 1 .. Len(Written(packet))
    BY <1>4, <1>5
  <2> QED BY <1>4, <2>1, HeadTailOfSubSeq
<1>7. Written(packet)' = Written(packet)
  BY DEF Written, Name, Spaced, HasFile, Events, Shown
<1>8. m \in 0 .. Len(Written(packet)) /\ whole = (m = Len(Written(packet))) /\ (k + 1) + 1 \in 0 .. m
  BY <1>4, <1>5 DEF Stands
<1> QED BY <1>1, <1>2, <1>3, <1>6, <1>7, <1>8 DEF Stands

\* A date is read.
LEMMA DateKeeps ==
    ASSUME IInv, ReadDate
    PROVE  IInv'
<1>1. outcome = "none" /\ ops # <<>> /\ Head(ops) = "date"
  BY DEF ReadDate, AtCall, Next1
<1>2. Head(ops) \notin Alphabet \cup {"kind"}
  BY <1>1, LettersOfTheAlphabet
<1>3. /\ side \in {"server", "client"} /\ asked \in Requests /\ WellFormed(packet)
      /\ line \in Seq(Tokens) /\ pending \in Seq(Tokens) /\ Len(pending) <= 1
  BY <1>1, <1>2, AtCalls
<1>4. PICK k, m : Stands(k, m) /\ (Lost \/ Refused \/ Telling(k))
  BY <1>1, <1>2, AtCalls
<1>5. ~Lost /\ ~Refused
  BY <1>1 DEF Lost, Refused
<1>6. Telling(k) /\ Ordered
  BY <1>4, <1>5 DEF Telling
<1>7. OverUdp /\ pending = <<>>
  BY <1>1, <1>6, OnlyOnDatagrams
<1> DEFINE Fits == Typed("date") /\ Len(line) >= 2 /\ line[2] = Space
<1>8. CASE ~Fits
  BY <1>3, <1>8, EndKeeps DEF ReadDate, Invalid
<1>9. CASE Fits
  <2>1. /\ fields' = Append(fields, Head(line)) /\ line' = Tail(Tail(line)) /\ ops' = Tail(ops)
        /\ UNCHANGED <<asked, packet, whole, side, last, errors, pending, outcome>>
    BY <1>9 DEF ReadDate
  <2>2. line # <<>> /\ Head(line)[1] = "date"
    BY <1>9 DEF Typed
  <2>3. Head(line) \in Values \cup Sizes
    BY <1>3, <2>2, HeadTailProperties, TypedTokens DEF Types
  <2>4. /\ Ahead = line /\ Stands((k + 1) + 1, m)' /\ line' \in Seq(Tokens)
    BY <1>3, <1>4, <1>7, <1>9, <2>1, DateMoves
  <2>5. k \in Nat /\ Told((k + 1) + 1)'
    BY <1>3, <1>4, <1>6, <2>1, <2>2, <2>3, <2>4, ValueTells
  <2>6. OnDatagram(ops') /\ (ops' # <<>> => ops'[1] # "mark")
    BY <1>1, <1>6, <1>7, <2>1, TailOrdered
  <2>7. Ordered' /\ FileAhead((k + 1) + 1)'
    <3>1. FileAhead((k + 1) + 1)'
      BY <2>6, NoDataOnDatagrams DEF FileAhead
    <3> QED BY <1>7, <2>1, <2>6, <3>1 DEF Ordered, OverUdp
  <2>8. Telling((k + 1) + 1)'
    BY <1>6, <2>1, <2>5, <2>7 DEF Telling, Expected
  <2>9. pending' \in Seq(Tokens) /\ Len(pending') <= 1
    BY <1>3, <1>7, <2>1
  <2> QED BY <1>1, <1>3, <2>1, <2>4, <2>8, <2>9, TellingKeeps
<1> QED BY <1>8, <1>9

\* The calls of one more row or event come before those that are left.
LEMMA MoreCalls ==
    ASSUME NEW c, NEW s, OnDatagram(c), c # <<>>, OnDatagram(s), s # <<>> => s[1] # "mark"
    PROVE  OnDatagram(c \o s) /\ c \o s # <<>> /\ (c \o s)[1] = c[1]
<1>1. c \in Seq(DatagramCalls) /\ s \in Seq(DatagramCalls)
  BY DEF OnDatagram
<1>2. PICK r : r = c \o s
  OBVIOUS
<1>3. /\ r \in Seq(DatagramCalls) /\ Len(r) = Len(c) + Len(s)
      /\ \A i \in 1 .. Len(c) : r[i] = c[i]
      /\ \A i \in 1 .. Len(s) : r[Len(c) + i] = s[i]
  BY <1>1, <1>2, Joined
<1>4. Len(c) \in Nat \ {0} /\ Len(s) \in Nat /\ (s # <<>> => Len(s) \in Nat \ {0})
  BY <1>1, EmptySeq
<1>5. r # <<>> /\ r[1] = c[1]
  <2>1. Len(r) # 0 /\ 1 \in 1 .. Len(c)
    BY <1>3, <1>4
  <2> QED BY <1>3, <2>1, EmptySeq
<1>6. \A i \in 2 .. Len(r) : r[i] # "mark"
  <2> TAKE i \in 2 .. Len(r)
  <2>1. CASE i <= Len(c)
    BY <1>3, <1>4, <2>1 DEF OnDatagram
  <2>2. CASE i > Len(c)
    <3>1. i - Len(c) \in 1 .. Len(s) /\ Len(c) + (i - Len(c)) = i
      BY <1>3, <1>4, <2>2
    <3>2. r[i] = s[i - Len(c)]
      BY <1>3, <3>1
    <3>3. s # <<>>
      BY <3>1
    <3> QED BY <1>4, <3>1, <3>2, <3>3 DEF OnDatagram
  <2> QED BY <1>4, <2>1, <2>2
<1> QED BY <1>2, <1>3, <1>5, <1>6 DEF OnDatagram

\* Nothing is read: the reader stands where it stood.
LEMMA StandsStill ==
    ASSUME NEW k, NEW m, Stands(k, m), UNCHANGED <<packet, whole, line, pending>>
    PROVE  Stands(k, m)'
<1>1. Written(packet)' = Written(packet) /\ Ahead' = Ahead
  BY DEF Written, Name, Spaced, HasFile, Events, Shown, Ahead
<1> QED BY <1>1 DEF Stands

\* Nothing is read: as much is told as before.
LEMMA ToldStill ==
    ASSUME NEW k, Told(k), UNCHANGED <<packet, fields>>
    PROVE  Told(k)'
<1>1. Text(packet)' = Text(packet) /\ TextLength(packet)' = TextLength(packet)
  BY DEF Text, TextLength, Events, Shown
<1> QED BY <1>1 DEF Told, HasFile

\* The loop over a list goes on, or is left.
LEMMA AuctionsKeep ==
    ASSUME IInv, NextAuction
    PROVE  IInv'
<1>1. outcome = "none" /\ ops # <<>> /\ Head(ops) = "auctions"
  BY DEF NextAuction, AtCall, Next1
<1>2. Head(ops) \notin Alphabet \cup {"kind"}
  BY <1>1, LettersOfTheAlphabet
<1>3. /\ side \in {"server", "client"} /\ asked \in Requests /\ WellFormed(packet)
      /\ line \in Seq(Tokens) /\ pending \in Seq(Tokens) /\ Len(pending) <= 1
  BY <1>1, <1>2, AtCalls
<1>4. PICK k, m : Stands(k, m) /\ (Lost \/ Refused \/ Telling(k))
  BY <1>1, <1>2, AtCalls
<1>5. ~Lost /\ ~Refused
  BY <1>1 DEF Lost, Refused
<1>6. Telling(k) /\ Ordered
  BY <1>4, <1>5 DEF Telling
<1>7. OverUdp /\ OnDatagram(ops) /\ pending = <<>> /\ ops[1] = "auctions"
  BY <1>1, <1>6, OnlyOnDatagrams, TailOrdered
<1> DEFINE calls == <<"space", "auction", "space", "state">>
<1>8. /\ ops' = IF AtEnd THEN Tail(ops) ELSE calls \o ops
      /\ UNCHANGED <<asked, packet, whole, side, line, last, errors, pending, fields, outcome>>
  BY DEF NextAuction, Again
<1>9. OnDatagram(ops') /\ (ops' # <<>> => ops'[1] # "mark")
  <2>1. CASE AtEnd
    BY <1>1, <1>6, <1>7, <1>8, <2>1, TailOrdered
  <2>2. CASE ~AtEnd
    <3>1. OnDatagram(calls) /\ calls # <<>> /\ calls[1] = "space"
      BY DEF OnDatagram, DatagramCalls
    <3> HIDE DEF calls
    <3> QED BY <1>7, <1>8, <2>2, <3>1, MoreCalls
  <2> QED BY <2>1, <2>2
<1>10. Telling(k)'
  <2>1. Told(k)'
    BY <1>6, <1>8, ToldStill DEF Telling
  <2>2. FileAhead(k)'
    BY <1>9, NoDataOnDatagrams DEF FileAhead
  <2> QED BY <1>6, <1>7, <1>8, <1>9, <2>1, <2>2 DEF Telling, Expected, Ordered, OverUdp
<1>11. Stands(k, m)'
  BY <1>4, <1>8, StandsStill
<1> QED BY <1>1, <1>3, <1>8, <1>10, <1>11, TellingKeeps

\* The loop over a record's events goes on, or is left.
LEMMA EventsKeep ==
    ASSUME IInv, NextEvent
    PROVE  IInv'
<1>1. outcome = "none" /\ ops # <<>> /\ Head(ops) = "events"
  BY DEF NextEvent, AtCall, Next1
<1>2. Head(ops) \notin Alphabet \cup {"kind"}
  BY <1>1, LettersOfTheAlphabet
<1>3. /\ side \in {"server", "client"} /\ asked \in Requests /\ WellFormed(packet)
      /\ line \in Seq(Tokens) /\ pending \in Seq(Tokens) /\ Len(pending) <= 1
  BY <1>1, <1>2, AtCalls
<1>4. PICK k, m : Stands(k, m) /\ (Lost \/ Refused \/ Telling(k))
  BY <1>1, <1>2, AtCalls
<1>5. ~Lost /\ ~Refused
  BY <1>1 DEF Lost, Refused
<1>6. Telling(k) /\ Ordered
  BY <1>4, <1>5 DEF Telling
<1>7. /\ OverUdp /\ OnDatagram(ops) /\ pending = <<>> /\ ops[1] = "events"
      /\ OnDatagram(Tail(ops)) /\ (Tail(ops) # <<>> => Tail(ops)[1] # "mark")
  BY <1>1, <1>6, OnlyOnDatagrams, TailOrdered
<1>8. CASE TooManyBids
  BY <1>3, <1>8, EndKeeps DEF NextEvent, Invalid
<1>9. CASE ~TooManyBids
  <2>1. UNCHANGED <<asked, packet, whole, side, last, errors, pending, fields, outcome>>
    BY <1>9 DEF NextEvent
  <2> DEFINE AtMark == Len(line) >= 2 /\ line[1] = Space /\ line[2] \in Marks
  <2>2. CASE AtMark
    <3>1. /\ line' = Tail(line)
          /\ ops' = ReadBidEvent \o ops \/ ops' = ReadEndEvent \o Tail(ops)
      BY <1>9, <2>2 DEF NextEvent, Marks
    <3>2. /\ OnDatagram(ops') /\ ops' # <<>> /\ ops'[1] = "mark"
      <4>1. /\ OnDatagram(ReadBidEvent) /\ ReadBidEvent # <<>> /\ ReadBidEvent[1] = "mark"
            /\ OnDatagram(ReadEndEvent) /\ ReadEndEvent # <<>> /\ ReadEndEvent[1] = "mark"
        BY DEF OnDatagram, DatagramCalls, ReadBidEvent, ReadEndEvent
      <4>2. ops # <<>> => ops[1] # "mark"
        BY <1>7
      <4>3. CASE ops' = ReadBidEvent \o ops
        BY <1>7, <4>1, <4>2, <4>3, MoreCalls
      <4>4. CASE ops' = ReadEndEvent \o Tail(ops)
        BY <1>7, <4>1, <4>4, MoreCalls
      <4> QED BY <3>1, <4>3, <4>4
    <3>3. Ahead = line /\ line # <<>> /\ Head(line) = Space
      <4>1. line # <<>>
        BY <1>3, <2>2
      <4> QED BY <1>3, <1>7, <2>2, <4>1, ConcatEmptySeq DEF Ahead
    <3>4. Tail(line) \in Seq(Tokens) /\ Tail(line) # <<>> /\ Head(Tail(line)) = line[2]
      <4>1. /\ Tail(line) \in Seq(Tokens) /\ Len(Tail(line)) = Len(line) - 1 /\ Len(line) \in Nat
            /\ \A i \in 1 .. Len(line) - 1 : Tail(line)[i] = line[i + 1]
        BY <1>3, <3>3
      <4>2. 1 \in 1 .. Len(line) - 1 /\ Len(Tail(line)) # 0
        BY <2>2, <4>1
      <4>3. Tail(line)[1] = line[1 + 1]
        BY <4>1, <4>2
      <4>4. Tail(line) # <<>>
        BY <4>2, EmptySeq
      <4> QED BY <4>1, <4>3, <4>4
    <3>5. Ahead' = Tail(Ahead)
      BY <1>7, <2>1, <3>1, <3>3, <3>4, ConcatEmptySeq DEF Ahead
    <3>6. Stands(k + 1, m)'
      BY <1>3, <1>4, <2>1, <3>3, <3>5, StandsNext
    <3>7. k \in Nat /\ Told(k + 1)'
      BY <1>3, <1>4, <1>6, <2>1, <3>3, SpaceTells
    <3>8. FileAhead(k + 1)'
      BY <3>2, NoDataOnDatagrams DEF FileAhead
    <3>9. Ordered'
      BY <1>7, <2>1, <2>2, <3>1, <3>2, <3>4 DEF Ordered, OverUdp
    <3>10. Telling(k + 1)'
      BY <1>6, <2>1, <3>7, <3>8, <3>9 DEF Telling, Expected
    <3> QED BY <1>1, <1>3, <1>7, <2>1, <3>1, <3>4, <3>6, <3>10, TellingKeeps
  <2>3. CASE ~AtMark
    <3>1. line' = line /\ ops' = Tail(ops)
      BY <1>9, <2>3 DEF NextEvent, Marks
    <3>2. Told(k)'
      BY <1>6, <2>1, ToldStill DEF Telling
    <3>3. FileAhead(k)'
      BY <1>7, <3>1, NoDataOnDatagrams DEF FileAhead
    <3>4. Telling(k)'
      BY <1>6, <1>7, <2>1, <3>1, <3>2, <3>3 DEF Telling, Expected, Ordered, OverUdp
    <3>5. Stands(k, m)'
      BY <1>4, <2>1, <3>1, StandsStill
    <3> QED BY <1>1, <1>3, <2>1, <3>1, <3>4, <3>5, TellingKeeps
  <2> QED BY <2>2, <2>3
<1> QED BY <1>8, <1>9

\* The first n tokens of what is ahead, and the others.
LEMMA Split ==
    ASSUME NEW S, NEW s \in Seq(S), NEW k \in Nat, NEW m \in Nat, k <= m, m <= Len(s),
           NEW t, t = SubSeq(s, k + 1, m), NEW n \in Nat, n <= m - k
    PROVE  /\ t \in Seq(S) /\ Len(t) = m - k
           /\ SubSeq(t, 1, n) \in Seq(S) /\ Len(SubSeq(t, 1, n)) = n
           /\ \A i \in 1 .. n : SubSeq(t, 1, n)[i] = s[k + i]
           /\ SubSeq(t, n + 1, Len(t)) = SubSeq(s, (k + n) + 1, m)
<1>1. \A i \in k + 1 .. m : s[i] \in S
  BY ElementOfSeq
<1>2. /\ t \in Seq(S)
      /\ Len(t) = IF k + 1 <= m THEN m - (k + 1) + 1 ELSE 0
      /\ \A i \in 1 .. m - (k + 1) + 1 : t[i] = s[(k + 1) + i - 1]
  BY <1>1, SubSeqProperties
<1>3. Len(t) = m - k /\ \A i \in 1 .. m - k : t[i] = s[k + i]
  <2>1. \A i \in 1 .. m - k : i \in 1 .. m - (k + 1) + 1 /\ (k + 1) + i - 1 = k + i
    OBVIOUS
  <2> QED BY <1>2, <2>1
<1>4. \A i \in 1 .. n : t[i] \in S
  BY <1>2, <1>3, ElementOfSeq
<1>5. /\ SubSeq(t, 1, n) \in Seq(S)
      /\ Len(SubSeq(t, 1, n)) = IF 1 <= n THEN n - 1 + 1 ELSE 0
      /\ \A i \in 1 .. n - 1 + 1 : SubSeq(t, 1, n)[i] = t[1 + i - 1]
  BY <1>4, SubSeqProperties
<1>6. Len(SubSeq(t, 1, n)) = n /\ \A i \in 1 .. n : SubSeq(t, 1, n)[i] = s[k + i]
  <2>1. \A i \in 1 .. n : i \in 1 .. n - 1 + 1 /\ 1 + i - 1 = i /\ i \in 1 .. m - k
    OBVIOUS
  <2> QED BY <1>3, <1>5, <2>1
<1>7. SubSeq(t, n + 1, Len(t)) = SubSeq(s, (k + n) + 1, m)
  <2>1. PICK u : u = SubSeq(t, n + 1, Len(t))
    OBVIOUS
  <2>2. PICK v : v = SubSeq(s, (k + n) + 1, m)
    OBVIOUS
  <2>3. \A i \in n + 1 .. m - k : t[i] \in S
    BY <1>2, <1>3, ElementOfSeq
  <2>4. /\ u \in Seq(S) /\ Len(u) = IF n + 1 <= m - k THEN (m - k) - (n + 1) + 1 ELSE 0
        /\ \A i \in 1 .. (m - k) - (n + 1) + 1 : u[i] = t[(n + 1) + i - 1]
    BY <1>3, <2>1, <2>3, SubSeqProperties
  <2>5. \A i \in (k + n) + 1 .. m : s[i] \in S
    BY <1>1
  <2>6. /\ v \in Seq(S) /\ Len(v) = IF (k + n) + 1 <= m THEN m - ((k + n) + 1) + 1 ELSE 0
        /\ \A i \in 1 .. m - ((k + n) + 1) + 1 : v[i] = s[((k + n) + 1) + i - 1]
    BY <2>2, <2>5, SubSeqProperties
  <2>7. Len(u) = m - k - n /\ Len(v) = m - k - n
    BY <2>4, <2>6
  <2>8. \A i \in 1 .. m - k - n : u[i] = v[i]
    <3> TAKE i \in 1 .. m - k - n
    <3>1. /\ i \in 1 .. (m - k) - (n + 1) + 1 /\ i \in 1 .. m - ((k + n) + 1) + 1
          /\ (n + 1) + i - 1 \in 1 .. m - k
          /\ k + ((n + 1) + i - 1) = ((k + n) + 1) + i - 1
      OBVIOUS
    <3>2. u[i] = t[(n + 1) + i - 1] /\ t[(n + 1) + i - 1] = s[k + ((n + 1) + i - 1)]
      BY <1>3, <2>4, <3>1
    <3> QED BY <2>6, <3>1, <3>2
  <2>9. u = v
    BY <2>4, <2>6, <2>7, <2>8, SeqEqual
  <2> QED BY <2>1, <2>2, <2>9
<1> QED BY <1>2, <1>3, <1>5, <1>6, <1>7

\* When the file is read next, its size is the last field, and the whole text is read.
LEMMA AtTheFile ==
    ASSUME WellFormed(packet), NEW k, Told(k), SizeRead, k % 2 = 0, k \in Nat
    PROVE  /\ HasFile(packet) /\ fields = Text(packet)
           /\ k = 4 + 2 * TextLength(packet)
           /\ fields[Len(fields)][2] = Len(packet.data)
<1> DEFINE T == Text(packet)
           L == TextLength(packet)
<1>1. /\ T \in Seq(Values \cup Sizes \cup Marks) /\ L = Len(T) /\ L \in Nat
      /\ packet.data \in Seq(Chunks) /\ Len(packet.data) \in Nat
  <2>1. packet.data \in Seq(Chunks)
    BY DEF WellFormed
  <2>2. L \in Nat
    BY WrittenIsLaidOut DEF Layout
  <2> QED BY <2>1, <2>2, ContentIsText DEF TextLength
<1> HIDE DEF T, L
<1>2. PICK S : S = Values \cup Sizes \cup Marks \cup Chunks
  OBVIOUS
<1>3. T \in Seq(S) /\ packet.data \in Seq(S)
  BY <1>1, <1>2, SeqMonotonic
<1>4. PICK n \in Nat : k >= 3 /\ n = (k - 3) \div 2 /\ n <= L /\ fields = SubSeq(T, 1, n)
  <2>1. CASE k \in 3 .. 4 + 2 * L /\ fields = SubSeq(T, 1, (k - 3) \div 2)
    <3>1. k >= 3 /\ (k - 3) \div 2 \in Nat /\ (k - 3) \div 2 <= L
      BY <1>1, <2>1
    <3> QED BY <2>1, <3>1
  <2>2. CASE k = 4 + 2 * L + Len(packet.data) /\ fields = T \o packet.data
    <3>1. packet.data = <<>>
      <4> SUFFICES ASSUME packet.data # <<>> PROVE FALSE
        OBVIOUS
      <4>1. PICK d \in Seq(S) : d = packet.data
        BY <1>3
      <4>2. Len(d) \in Nat \ {0}
        BY <4>1, EmptySeq
      <4>3. /\ fields \in Seq(S) /\ Len(fields) = Len(T) + Len(d)
            /\ \A i \in 1 .. Len(d) : fields[Len(T) + i] = d[i]
        BY <1>3, <2>2, <4>1, Joined
      <4>4. fields[Len(fields)] = d[Len(d)]
        BY <4>2, <4>3
      <4>5. d[Len(d)] \in Chunks
        <5>1. d \in Seq(Chunks)
          BY <1>1, <4>1
        <5> QED BY <4>2, <5>1
      <4> QED BY <4>4, <4>5, Disjoint DEF SizeRead
    <3>2. fields = T
      BY <1>3, <2>2, <3>1, ConcatEmptySeq
    <3>3. Len(packet.data) = 0
      BY <3>1
    <3>4. k >= 3 /\ L = (k - 3) \div 2
      BY <1>1, <2>2, <3>3
    <3>5. SubSeq(T, 1, L) = T
      BY <1>1, SubSeqFull
    <3> QED BY <1>1, <3>2, <3>4, <3>5
  <2> QED BY <2>1, <2>2 DEF Told, T, L
<1>5. /\ fields \in Seq(S) /\ Len(fields) = n
      /\ \A i \in 1 .. n : fields[i] = T[i]
  <2>1. \A i \in 1 .. n : T[i] \in S
    BY <1>1, <1>3, <1>4
  <2>2. /\ fields \in Seq(S)
        /\ Len(fields) = IF 1 <= n THEN n - 1 + 1 ELSE 0
        /\ \A i \in 1 .. n - 1 + 1 : fields[i] = T[1 + i - 1]
    BY <1>4, <2>1, SubSeqProperties
  <2>3. \A i \in 1 .. n : i \in 1 .. n - 1 + 1 /\ 1 + i - 1 = i
    OBVIOUS
  <2> QED BY <2>2, <2>3
<1>6. n \in 1 .. Len(T) /\ T[n] \in Sizes /\ fields[Len(fields)] = T[n]
  <2>1. n # 0
    BY <1>5, EmptySeq DEF SizeRead
  <2> QED BY <1>1, <1>4, <1>5, <2>1 DEF SizeRead
<1>7. HasFile(packet)
  <2> SUFFICES ASSUME ~HasFile(packet) PROVE FALSE
    OBVIOUS
  <2>1. packet.body \in Seq(Values)
    BY DEF WellFormed
  <2>2. T \in Seq(Values \cup Marks)
    <3>1. Events(packet) \in Seq(Values \cup Marks)
      BY ContentIsText
    <3>2. packet.body \in Seq(Values \cup Marks)
      BY <2>1, SeqMonotonic
    <3>3. T = packet.body \o Events(packet)
      BY DEF T, Text
    <3> QED BY <3>1, <3>2, <3>3, ConcatProperties
  <2>3. T[n] \in Values \cup Marks
    BY <1>6, <2>2
  <2>4. T[n][1] = "size"
    BY <1>6, SizesAreNoValues
  <2>5. T[n] \in Marks => T[n][1] = "char"
    BY DEF Marks, BidMark, EndMark, Char
  <2> QED BY <1>6, <2>3, <2>4, <2>5, SizesAreNoValues
<1>8. T = packet.body
  BY <1>7, ContentIsText DEF T
<1>9. n = L /\ T[n][2] = Len(packet.data)
  BY <1>1, <1>6, <1>7, <1>8 DEF WellFormed
<1>10. fields = T
  BY <1>1, <1>4, <1>9, SubSeqFull
<1>11. k = 4 + 2 * L
  <2>1. L = (k - 3) \div 2 /\ k >= 3
    BY <1>4, <1>9
  <2> QED BY <1>1, <2>1
<1> QED BY <1>6, <1>7, <1>9, <1>10, <1>11 DEF T, L

\* readAndSaveToFile takes n tokens at once.
LEMMA DataMoves ==
    ASSUME WellFormed(packet), line \in Seq(Tokens), pending = <<>>, NEW k, NEW m, Stands(k, m),
           NEW n \in Nat, Len(line) >= n, line' = SubSeq(line, n + 1, Len(line)),
           UNCHANGED <<packet, whole, pending>>
    PROVE  /\ Stands(k + n, m)' /\ line' \in Seq(Tokens)
           /\ SubSeq(line, 1, n) \in Seq(Tokens) /\ Len(SubSeq(line, 1, n)) = n
           /\ \A i \in 1 .. n : SubSeq(line, 1, n)[i] = Written(packet)[k + i]
<1>1. /\ k \in Nat /\ m \in Nat /\ k <= m /\ m <= Len(Written(packet))
      /\ Written(packet) \in Seq(Tokens) /\ Len(Written(packet)) \in Nat
      /\ Len(Ahead) = m - k
  BY AheadAt
<1>2. Len(line) = m - k /\ line = SubSeq(Written(packet), k + 1, m)
  <2>1. Ahead = line
    BY ConcatEmptySeq DEF Ahead
  <2> QED BY <1>1, <2>1 DEF Stands
<1>3. n <= m - k
  BY <1>2
<1>4. /\ SubSeq(line, 1, n) \in Seq(Tokens) /\ Len(SubSeq(line, 1, n)) = n
      /\ \A i \in 1 .. n : SubSeq(line, 1, n)[i] = Written(packet)[k + i]
      /\ SubSeq(line, n + 1, Len(line)) = SubSeq(Written(packet), (k + n) + 1, m)
  BY <1>1, <1>2, <1>3, Split
<1>5. line' \in Seq(Tokens)
  <2>1. \A i \in (k + n) + 1 .. m : Written(packet)[i] \in Tokens
    BY <1>1, ElementOfSeq
  <2>2. SubSeq(Written(packet), (k + n) + 1, m) \in Seq(Tokens)
    BY <1>1, <2>1, SubSeqProperties
  <2> QED BY <1>4, <2>2
<1>6. Stands(k + n, m)'
  <2>1. Ahead' = SubSeq(Written(packet), (k + n) + 1, m)
    BY <1>4, <1>5, ConcatEmptySeq DEF Ahead
  <2>2. m \in 0 .. Len(Written(packet)) /\ whole = (m = Len(Written(packet)))
    BY DEF Stands
  <2>3. k + n \in 0 .. m
    BY <1>1, <1>3
  <2>4. Written(packet)' = Written(packet)
    BY DEF Written, Name, Spaced, HasFile, Events, Shown
  <2> QED BY <2>1, <2>2, <2>3, <2>4 DEF Stands
<1> QED BY <1>4, <1>5, <1>6

\* A file is read.
LEMMA DataKeeps ==
    ASSUME IInv, ReadData
    PROVE  IInv'
<1>1. outcome = "none" /\ ops # <<>> /\ Head(ops) = "data"
  BY DEF ReadData, AtCall, Next1
<1>2. Head(ops) \notin Alphabet \cup {"kind"}
  BY <1>1, LettersOfTheAlphabet
<1>3. /\ side \in {"server", "client"} /\ asked \in Requests /\ WellFormed(packet)
      /\ line \in Seq(Tokens) /\ pending \in Seq(Tokens) /\ Len(pending) <= 1
  BY <1>1, <1>2, AtCalls
<1>4. PICK k, m : Stands(k, m) /\ (Lost \/ Refused \/ Telling(k))
  BY <1>1, <1>2, AtCalls
<1>5. ~Lost /\ ~Refused
  BY <1>1 DEF Lost, Refused
<1>6. Telling(k) /\ Ordered
  BY <1>4, <1>5 DEF Telling
<1>7. ops[1] = "data" /\ Len(ops) \in Nat
  BY <1>1, <1>6, TailOrdered DEF Ordered, OnStream, OnDatagram
<1>8. ~OverUdp /\ pending = <<>>
  BY <1>1, <1>6, <1>7, NoDataOnDatagrams DEF Ordered
<1>9. /\ k \in Nat /\ m \in Nat /\ k <= m /\ m <= Len(Written(packet))
      /\ Written(packet) \in Seq(Tokens) /\ Len(Written(packet)) \in Nat
  BY <1>3, <1>4, AheadAt
<1>10. SizeRead /\ k % 2 = 0 /\ Told(k)
  BY <1>1, <1>6, <1>7 DEF Telling, FileAhead
<1>11. PICK n \in Nat : n = fields[Len(fields)][2] /\ n = Len(packet.data)
  <2>1. Len(packet.data) \in Nat
    BY <1>3, LenProperties DEF WellFormed
  <2>2. fields[Len(fields)][2] = Len(packet.data)
    BY <1>3, <1>9, <1>10, AtTheFile
  <2> QED BY <2>1, <2>2
<1>12. HasFile(packet) /\ fields = Text(packet) /\ k = 4 + 2 * TextLength(packet)
  BY <1>3, <1>9, <1>10, AtTheFile
<1>13. CASE ~(Len(line) >= n)
  <2>1. Invalid
    BY <1>11, <1>13 DEF ReadData
  <2> QED BY <1>3, <2>1, EndKeeps DEF Invalid
<1>14. CASE Len(line) >= n
  <2>1. /\ fields' = fields \o SubSeq(line, 1, n)
        /\ line' = SubSeq(line, n + 1, Len(line))
        /\ ops' = Tail(ops)
        /\ UNCHANGED <<asked, packet, whole, side, last, errors, outcome, pending>>
    BY <1>11, <1>14 DEF ReadData
  <2>2. /\ Stands(k + n, m)' /\ line' \in Seq(Tokens)
        /\ SubSeq(line, 1, n) \in Seq(Tokens) /\ Len(SubSeq(line, 1, n)) = n
        /\ \A i \in 1 .. n : SubSeq(line, 1, n)[i] = Written(packet)[k + i]
    BY <1>3, <1>4, <1>8, <1>14, <2>1, DataMoves
  <2>3. SubSeq(line, 1, n) = packet.data
    <3>1. \A i \in 1 .. n : Written(packet)[k + i] = packet.data[i]
      BY <1>3, <1>11, <1>12, WrittenIsLaidOut DEF Layout
    <3>2. PICK S : S = Tokens \cup Chunks
      OBVIOUS
    <3>3. SubSeq(line, 1, n) \in Seq(S) /\ packet.data \in Seq(S)
      BY <1>3, <2>2, <3>2, SeqMonotonic DEF WellFormed
    <3>4. PICK u \in Seq(S) : u = SubSeq(line, 1, n)
      BY <3>3
    <3>5. PICK d \in Seq(S) : d = packet.data
      BY <3>3
    <3>6. Len(u) = Len(d) /\ \A i \in 1 .. Len(u) : u[i] = d[i]
      BY <1>11, <2>2, <3>1, <3>4, <3>5
    <3>7. u = d
      BY <3>6, SeqEqual
    <3> QED BY <3>4, <3>5, <3>7
  <2>4. Text(packet)' = Text(packet) /\ TextLength(packet)' = TextLength(packet)
    BY <2>1 DEF Text, TextLength, Events, Shown
  <2>5. Told(k + n)'
    BY <1>11, <1>12, <2>1, <2>3, <2>4 DEF Told, HasFile
  <2>6. Ordered'
    BY <1>1, <1>6, <1>8, <2>1, TailOrdered DEF Ordered, OverUdp
  <2>7. FileAhead(k + n)'
    BY <1>1, <1>6, <1>7, <2>1, TailOrdered DEF FileAhead
  <2>8. Telling(k + n)'
    <3>1. k + n >= 3
      BY <1>6, <1>9 DEF Telling
    <3> QED BY <1>6, <2>1, <2>5, <2>6, <2>7, <3>1 DEF Telling, Expected
  <2>9. pending' \in Seq(Tokens) /\ Len(pending') <= 1
    BY <1>3, <2>1
  <2> QED BY <1>1, <1>3, <2>1, <2>2, <2>8, <2>9, TellingKeeps
<1> QED BY <1>11, <1>13, <1>14

\* Before the newline, all that the packet says is told.
LEMMA AllIsTold ==
    ASSUME WellFormed(packet), NEW k, Told(k), k + 1 = Len(Written(packet))
    PROVE  fields = Content(packet)
<1> DEFINE L == TextLength(packet)
           T == Text(packet)
<1>1. /\ L \in Nat /\ L = Len(T) /\ T \in Seq(Values \cup Sizes \cup Marks)
      /\ packet.data \in Seq(Chunks) /\ Len(packet.data) \in Nat
  <2>1. packet.data \in Seq(Chunks)
    BY DEF WellFormed
  <2>2. L \in Nat
    BY WrittenIsLaidOut DEF Layout
  <2> QED BY <2>1, <2>2, ContentIsText DEF TextLength
<1>2. Len(Written(packet)) = 4 + 2 * L + FileLength(packet)
  BY WrittenIsLaidOut DEF Layout
<1>3. Content(packet) = T \o packet.data
  BY ContentIsText
<1>4. packet.data = <<>> => T \o packet.data = T
  BY <1>1, ConcatEmptySeq
<1>5. SubSeq(T, 1, L) = T
  BY <1>1, SubSeqFull
<1> HIDE DEF L, T
<1>6. CASE k \in 3 .. 4 + 2 * L /\ fields = SubSeq(T, 1, (k - 3) \div 2)
  <2>1. CASE ~HasFile(packet)
    <3>1. packet.data = <<>> /\ FileLength(packet) = 0
      BY <2>1 DEF WellFormed, FileLength
    <3>2. (k - 3) \div 2 = L
      BY <1>1, <1>2, <1>6, <3>1
    <3> QED BY <1>3, <1>4, <1>5, <1>6, <3>1, <3>2
  <2>2. CASE HasFile(packet)
    <3>1. FileLength(packet) = 1 + Len(packet.data)
      BY <2>2 DEF FileLength
    <3>4. PICK d \in Nat : d = Len(packet.data)
      BY <1>1
    <3>5. k + 1 = 4 + 2 * L + (1 + d) /\ k <= 4 + 2 * L /\ k \in Nat
      BY <1>2, <1>6, <3>1, <3>4
    <3>6. d = 0 /\ k = 4 + 2 * L
      BY <1>1, <3>5
    <3>2. Len(packet.data) = 0 /\ (k - 3) \div 2 = L
      BY <1>1, <3>4, <3>6
    <3>3. packet.data = <<>>
      BY <1>1, <3>2, EmptySeq
    <3> QED BY <1>3, <1>4, <1>5, <1>6, <3>2, <3>3
  <2> QED BY <2>1, <2>2
<1>7. CASE fields = T \o packet.data
  BY <1>3, <1>7
<1> QED BY <1>6, <1>7 DEF Told, L, T

\* The newline that ends a packet is read.
LEMMA DelimiterKeeps ==
    ASSUME IInv, ReadDelimiter
    PROVE  IInv'
<1>1. outcome = "none" /\ ops # <<>> /\ Head(ops) = "delimiter"
  BY DEF ReadDelimiter, AtCall, Next1
<1>2. Head(ops) \notin Alphabet \cup {"kind"}
  BY <1>1, LettersOfTheAlphabet
<1>3. /\ side \in {"server", "client"} /\ asked \in Requests /\ WellFormed(packet)
      /\ line \in Seq(Tokens) /\ pending \in Seq(Tokens) /\ Len(pending) <= 1
  BY <1>1, <1>2, AtCalls
<1>4. PICK k, m : Stands(k, m) /\ (Lost \/ Refused \/ Telling(k))
  BY <1>1, <1>2, AtCalls
<1> DEFINE Fits == Ahead # <<>> /\ Head(Ahead) = Newline /\ (OverUdp => Len(Ahead) = 1)
<1>5. CASE ~Fits
  BY <1>3, <1>5, EndKeeps DEF ReadDelimiter, Invalid
<1>6. CASE Fits
  <2>1. /\ TakeChar /\ ops' = <<>>
        /\ outcome' = (IF errors = 3 THEN "error" ELSE "read")
        /\ UNCHANGED <<asked, packet, whole, side, last, errors, fields>>
    BY <1>6 DEF ReadDelimiter, ErrorConfirmed
  <2>2. Ahead' = Tail(Ahead) /\ pending' = <<>> /\ line' \in Seq(Tokens)
    BY <1>3, <1>6, <2>1, TakeCharMoves
  <2>3. pending' \in Seq(Tokens) /\ Len(pending') <= 1
    <3>1. <<>> \in Seq(Tokens) /\ Len(<<>>) <= 1
      OBVIOUS
    <3> QED BY <2>2, <3>1
  <2>4. AcceptedIsSent'
    <3> SUFFICES ASSUME outcome' = "read" PROVE AcceptedIsSent'
      BY DEF AcceptedIsSent
    <3>1. Telling(k)
      <4>1. ~Lost
        BY <1>1 DEF Lost
      <4>2. ~Refused
        BY <2>1 DEF Refused
      <4> QED BY <1>4, <4>1, <4>2
    <3>2. /\ k \in Nat /\ m \in Nat /\ m <= Len(Written(packet)) /\ Len(Written(packet)) \in Nat
          /\ k + 1 \in 1 .. m /\ Head(Ahead) = Written(packet)[k + 1]
          /\ Tail(Ahead) = SubSeq(Written(packet), (k + 1) + 1, m)
          /\ Written(packet) \in Seq(Tokens)
      BY <1>3, <1>4, <1>6, AheadAt
    <3>3. k + 1 = Len(Written(packet))
      <4>1. k + 1 \in 1 .. Len(Written(packet))
        BY <3>2
      <4> QED BY <1>3, <1>6, <3>2, <4>1, Places
    <3>4. m = Len(Written(packet)) /\ whole
      <4>1. m = Len(Written(packet))
        BY <3>2, <3>3
      <4>2. whole = (m = Len(Written(packet)))
        BY <1>4 DEF Stands
      <4> QED BY <4>1, <4>2
    <3>5. Tail(Ahead) = <<>>
      BY <3>2, <3>3, <3>4, SubSeqEmpty
    <3>6. fields = Content(packet)
      BY <1>3, <3>1, <3>3, AllIsTold DEF Telling
    <3>7. Content(packet)' = Content(packet)
      BY <2>1 DEF Content, LatestBids
    <3> QED BY <2>1, <2>2, <3>1, <3>4, <3>5, <3>6, <3>7 DEF AcceptedIsSent, Telling, Expected
  <2>5. outcome' # "none"
    BY <2>1
  <2> QED BY <1>3, <2>1, <2>2, <2>3, <2>4, <2>5 DEF IInv
<1> QED BY <1>5, <1>6

\* No two kinds of packets have the same name.
LEMMA NamesTellKinds ==
    ASSUME NEW a \in DOMAIN Letters, NEW b \in DOMAIN Letters,
           Letters[a][1] = Letters[b][1], Letters[a][2] = Letters[b][2],
           Letters[a][3] = Letters[b][3]
    PROVE  a = b
BY DEF Letters

\* What is read first after a name.
LEMMA FirstCalls ==
    ASSUME NEW k \in Requests
    PROVE  /\ ReadRequest(k)[1] \in {"space", "delimiter"}
           /\ Len(ReadRequest(k)) >= 2 => ReadRequest(k)[2] # "data"
           /\ ReadRequest(k) # <<>>
BY DEF ReadRequest, Requests, UdpRequests, TcpRequests, UdpReply, TcpReply,
       ReadAccount, ReadMine, ReadAuction, ReadOpen, ReadClose, ReadBid

\* After the name, nothing is told yet.
LEMMA NothingTold ==
    ASSUME WellFormed(packet), fields = <<>>
    PROVE  Told(3)
<1>1. TextLength(packet) \in Nat
  BY WrittenIsLaidOut DEF Layout
<1>2. (3 - 3) \div 2 = 0 /\ 3 \in 3 .. 4 + 2 * TextLength(packet)
  BY <1>1
<1>3. SubSeq(Text(packet), 1, 0) = <<>>
  BY ContentIsText, SubSeqEmpty
<1> QED BY <1>2, <1>3 DEF Told

\* Where the server stands when it reads the name of a request.
LEMMA AtTheKind ==
    ASSUME IInv, outcome = "none", ops # <<>>, Head(ops) = "kind"
    PROVE  /\ side = "server" /\ asked \in Requests /\ WellFormed(packet) /\ packet.kind = asked
           /\ line \in Seq(Tokens) /\ pending = <<>> /\ fields = <<>> /\ errors = 0
           /\ \E m : Stands(0, m)
<1>1. side # "none"
  BY DEF IInv
<1>2. asked \in Requests /\ WellFormed(packet) /\ line \in Seq(Tokens)
  BY <1>1 DEF IInv
<1>3. PICK k, m : Stands(k, m) /\ (AtKind(k) \/ Naming(k, m) \/ Lost \/ Refused \/ Telling(k))
  BY <1>1 DEF IInv
<1>4. ~Lost /\ ~Refused
  BY DEF Lost, Refused
<1>5. ~Naming(k, m)
  <2> SUFFICES ASSUME Naming(k, m) PROVE FALSE
    OBVIOUS
  <2>1. PICK i \in 1 .. 3 : ops = CallsFrom(i)
    BY DEF Naming
  <2>2. Head(ops) \in Alphabet
    BY <1>2, <2>1, CallsOfAName
  <2> QED BY <2>2, LettersOfTheAlphabet
<1>6. ~Telling(k)
  <2> SUFFICES ASSUME Telling(k) PROVE FALSE
    OBVIOUS
  <2>1. ops \in Seq(StreamCalls) \/ ops \in Seq(DatagramCalls)
    BY DEF Telling, Ordered, OnStream, OnDatagram
  <2>2. Head(ops) \in StreamCalls \/ Head(ops) \in DatagramCalls
    BY <2>1, HeadTailProperties
  <2> QED BY <2>2 DEF StreamCalls, DatagramCalls
<1>7. AtKind(k)
  BY <1>3, <1>4, <1>5, <1>6
<1> QED BY <1>1, <1>2, <1>3, <1>7 DEF AtKind, IInv

\* A kind is named: it is the one that was asked for.
LEMMA KindMoves ==
    ASSUME asked \in Requests, WellFormed(packet), packet.kind = asked, line \in Seq(Tokens),
           pending = <<>>, NEW m, Stands(0, m), NEW h \in Handlers, Named(h),
           line' = SubSeq(line, 4, Len(line)), UNCHANGED <<packet, whole, pending>>
    PROVE  h = asked /\ Stands(3, m)' /\ line' \in Seq(Tokens)
<1>1. /\ Ahead = line /\ m \in Nat /\ m <= Len(Written(packet)) /\ Len(line) = m
      /\ Written(packet) \in Seq(Tokens) /\ Len(Written(packet)) \in Nat
      /\ line = SubSeq(Written(packet), 0 + 1, m)
      /\ \A i \in 1 .. m : line[i] = Written(packet)[i]
  <2>1. Ahead = line
    BY ConcatEmptySeq DEF Ahead
  <2>2. /\ m \in Nat /\ m <= Len(Written(packet)) /\ Len(Ahead) = m - 0
        /\ Written(packet) \in Seq(Tokens) /\ Len(Written(packet)) \in Nat
        /\ \A i \in 1 .. m - 0 : Ahead[i] = Written(packet)[0 + i]
    BY AheadAt
  <2>3. Ahead = SubSeq(Written(packet), 0 + 1, m)
    BY DEF Stands
  <2> QED BY <2>1, <2>2, <2>3
<1>2. 3 <= m /\ Name(h) = SubSeq(line, 1, 3)
  BY <1>1 DEF Named
<1>3. /\ \A i \in 1 .. 3 : SubSeq(line, 1, 3)[i] = Written(packet)[0 + i]
      /\ SubSeq(line, 3 + 1, Len(line)) = SubSeq(Written(packet), (0 + 3) + 1, m)
  <2>1. 0 <= m /\ 3 <= m - 0
    BY <1>1, <1>2
  <2> QED BY <1>1, <2>1, Split
<1>4. h \in Requests /\ h \in DOMAIN Letters /\ asked \in DOMAIN Letters
  BY KindsHaveLetters DEF Handlers, Requests
<1>5. h = asked
  <2>1. \A i \in 1 .. 3 : Written(packet)[i] = Char(Letters[asked][i])
    BY WrittenIsLaidOut DEF Layout
  <2>2. \A i \in 1 .. 3 : Char(Letters[h][i]) = Char(Letters[asked][i])
    BY <1>2, <1>3, <2>1 DEF Name
  <2>3. \A i \in 1 .. 3 : Letters[h][i] = Letters[asked][i]
    <3> TAKE i \in 1 .. 3
    <3>1. Char(Letters[h][i])[2] = Letters[h][i] /\ Char(Letters[asked][i])[2] = Letters[asked][i]
      BY DEF Char
    <3> QED BY <2>2, <3>1
  <2> QED BY <1>4, <2>3, NamesTellKinds
<1>6. line' \in Seq(Tokens) /\ line' = SubSeq(Written(packet), 3 + 1, m)
  <2>1. \A i \in 3 + 1 .. m : Written(packet)[i] \in Tokens
    BY <1>1, ElementOfSeq
  <2>2. SubSeq(Written(packet), 3 + 1, m) \in Seq(Tokens)
    BY <1>1, <2>1, SubSeqProperties
  <2> QED BY <1>3, <2>2
<1>7. Stands(3, m)'
  <2>1. Written(packet)' = Written(packet)
    BY DEF Written, Name, Spaced, HasFile, Events, Shown
  <2>2. Ahead' = SubSeq(Written(packet), 3 + 1, m)
    BY <1>6, ConcatEmptySeq DEF Ahead
  <2>3. m \in 0 .. Len(Written(packet)) /\ whole = (m = Len(Written(packet))) /\ 3 \in 0 .. m
    BY <1>1, <1>2 DEF Stands
  <2> QED BY <2>1, <2>2, <2>3 DEF Stands
<1> QED BY <1>5, <1>6, <1>7

\* The server finds its handler, or none.
LEMMA KindKeeps ==
    ASSUME IInv, ReadKind
    PROVE  IInv'
<1>1. outcome = "none" /\ ops # <<>> /\ Head(ops) = "kind"
  BY DEF ReadKind, AtCall, Next1
<1>2. /\ side = "server" /\ asked \in Requests /\ WellFormed(packet) /\ packet.kind = asked
      /\ line \in Seq(Tokens) /\ pending = <<>> /\ fields = <<>> /\ errors = 0
  BY <1>1, AtTheKind
<1>3. PICK m : Stands(0, m)
  BY <1>1, AtTheKind
<1>4. CASE End("refused")
  BY <1>2, <1>4, EndKeeps
<1>5. ASSUME NEW h \in Handlers, Named(h), line' = SubSeq(line, 4, Len(line)),
             ops' = ReadRequest(h),
             UNCHANGED <<asked, packet, whole, side, last, errors, pending, fields, outcome>>
      PROVE  IInv'
  <2>1. h = asked /\ Stands(3, m)' /\ line' \in Seq(Tokens)
    BY <1>2, <1>3, <1>5, KindMoves
  <2>2. h \in Requests
    BY <1>2, <2>1
  <2>3. Told(3)'
    BY <1>2, <1>5, NothingTold, ToldStill
  <2>4. ops'[1] \in {"space", "delimiter"} /\ (Len(ops') >= 2 => ops'[2] # "data")
    BY <1>5, <2>2, FirstCalls
  <2>5. Ordered'
    <3>1. asked \in UdpRequests => OnDatagram(ops')
      BY <1>5, <2>1, ScriptsInOrder
    <3>2. asked \notin UdpRequests => OnStream(ops')
      BY <1>2, <1>5, <2>1, ScriptsInOrder DEF Requests
    <3> QED BY <1>2, <1>5, <2>4, <3>1, <3>2 DEF Ordered, OverUdp
  <2>6. Telling(3)'
    BY <1>2, <1>5, <2>3, <2>4, <2>5 DEF Telling, FileAhead, Expected
  <2>7. pending' \in Seq(Tokens) /\ Len(pending') <= 1
    BY <1>2, <1>5
  <2> QED BY <1>1, <1>2, <1>5, <2>1, <2>6, <2>7, TellingKeeps
<1> QED BY <1>4, <1>5 DEF ReadKind

\* Where the client stands when it reads a letter.
LEMMA AtALetter ==
    ASSUME IInv, outcome = "none", ops # <<>>, Head(ops) \in Alphabet
    PROVE  /\ side = "client" /\ asked \in Requests /\ WellFormed(packet)
           /\ line \in Seq(Tokens) /\ pending = <<>> /\ fields = <<>> /\ errors \in 0 .. 2
           /\ \E k, m : Stands(k, m) /\ Naming(k, m)
<1>1. side # "none"
  BY DEF IInv
<1>2. asked \in Requests /\ WellFormed(packet) /\ line \in Seq(Tokens)
  BY <1>1 DEF IInv
<1>3. PICK k, m : Stands(k, m) /\ (AtKind(k) \/ Naming(k, m) \/ Lost \/ Refused \/ Telling(k))
  BY <1>1 DEF IInv
<1>4. Head(ops) \notin {"kind", "space", "delimiter"} \cup StreamCalls \cup DatagramCalls
  BY LettersOfTheAlphabet DEF StreamCalls, DatagramCalls
<1>5. ~Lost /\ ~Refused /\ ~AtKind(k)
  BY <1>4 DEF Lost, Refused, AtKind
<1>6. ~Telling(k)
  <2> SUFFICES ASSUME Telling(k) PROVE FALSE
    OBVIOUS
  <2>1. ops \in Seq(StreamCalls) \/ ops \in Seq(DatagramCalls)
    BY DEF Telling, Ordered, OnStream, OnDatagram
  <2>2. Head(ops) \in StreamCalls \/ Head(ops) \in DatagramCalls
    BY <2>1, HeadTailProperties
  <2> QED BY <1>4, <2>2
<1>7. Naming(k, m)
  BY <1>3, <1>5, <1>6
<1> QED BY <1>2, <1>3, <1>7 DEF Naming

\* A letter is read, and the reading goes on.
LEMMA LetterGoesOn ==
    ASSUME IInv, side = "client", UNCHANGED <<asked, packet, whole, side, pending, fields>>,
           outcome' = "none", line' \in Seq(Tokens), pending = <<>>,
           NEW k, NEW m, Stands(k, m)', (Naming(k, m) \/ Lost \/ Refused \/ Telling(k))'
    PROVE  IInv'
<1>1. m \in 0 .. Len(Written(packet')) /\ k \in 0 .. Len(Written(packet'))
  <2>1. Len(Written(packet)) \in Nat
    BY WrittenIsLaidOut, LenProperties DEF IInv, Layout
  <2> QED BY <2>1 DEF Stands
<1> QED BY <1>1 DEF IInv, AcceptedIsSent

\* The server's refusal is the letters ERR and the newline.
LEMMA RefusalIsWritten ==
    LET p == Packet("ERR", <<>>) IN
    Len(Written(p)) = 4 /\ Written(p)[4] = Newline
<1> DEFINE p == Packet("ERR", <<>>)
<1>1. WellFormed(p) /\ p.kind = "ERR"
  BY RefusalIsWellFormed
<1>2. p.body = <<>> /\ p.bids = <<>> /\ p.end = <<>>
  BY DEF Packet
<1>3. ~HasFile(p)
  BY <1>1 DEF HasFile
<1> HIDE DEF p
<1>4. Events(p) = <<>>
  BY <1>1, <1>2, EventsAreValues DEF WellFormed
<1>5. Text(p) = <<>>
  <2>1. Text(p) = <<>> \o <<>>
    BY <1>2, <1>4 DEF Text
  <2> QED BY <2>1
<1>6. TextLength(p) = 0 /\ FileLength(p) = 0
  BY <1>3, <1>5 DEF TextLength, FileLength
<1>7. Len(Written(p)) = 4 + 2 * 0 + 0 /\ Written(p)[Len(Written(p))] = Newline
  BY <1>1, <1>6, WrittenIsLaidOut DEF Layout
<1> QED BY <1>7 DEF p

\* No answer is mistaken for ERR.
LEMMA NoReplyHasAnE ==
    /\ "ERR" \notin ReplyKinds /\ ReplyKinds \subseteq DOMAIN Letters
    /\ \A k \in ReplyKinds : \A i \in 1 .. 3 : Letters[k][i] # "E"
    /\ Letters["ERR"][1] = "E" /\ Letters["ERR"][2] = "R" /\ Letters["ERR"][3] = "R"
<1>1. ReplyKinds \subseteq {"RLI", "RLO", "RUR", "RMA", "RMB", "RLS", "RRC", "ROA", "RCL", "RSA", "RBD"}
  BY DEF ReplyKinds, ReplyTo, Requests, UdpRequests, TcpRequests, UdpReply, TcpReply
<1> QED BY <1>1 DEF Letters

\* The packet has ended where a letter is expected.
LEMMA NoLetterKeeps ==
    ASSUME IInv, ReadLetter, line = <<>>
    PROVE  IInv'
<1>1. outcome = "none" /\ ops # <<>> /\ Head(ops) \in Alphabet
  BY DEF ReadLetter, Next1
<1>2. /\ side = "client" /\ asked \in Requests /\ WellFormed(packet)
      /\ line \in Seq(Tokens) /\ pending = <<>> /\ fields = <<>> /\ errors \in 0 .. 2
  BY <1>1, AtALetter
<1>3. PICK k, m : Stands(k, m) /\ Naming(k, m)
  BY <1>1, AtALetter
<1>4. /\ last' = last /\ line' = line
      /\ UNCHANGED <<asked, packet, whole, side, pending, fields>>
  BY DEF ReadLetter
<1>5. \/ outcome' = "unexpected" /\ ops' = <<>> /\ errors' = errors
      \/ /\ errors' = errors + 1 /\ outcome' = outcome
         /\ ops' = IF errors + 1 = 3 THEN <<"delimiter">> ELSE Tail(ops)
  BY DEF ReadLetter, ErrorConfirmed
<1>6. CASE outcome' = "unexpected" /\ ops' = <<>> /\ errors' = errors
  <2>1. End("unexpected")
    BY <1>4, <1>6 DEF End
  <2> QED BY <1>2, <2>1, EndKeeps
<1>7. CASE /\ errors' = errors + 1 /\ outcome' = outcome
           /\ ops' = IF errors + 1 = 3 THEN <<"delimiter">> ELSE Tail(ops)
  <2>1. PICK i \in 1 .. 3 : ops = CallsFrom(i) /\ (k = i - 1 \/ (k = m /\ m < i - 1))
    BY <1>3 DEF Naming
  <2>2. Ahead = <<>> /\ k = m /\ k \in Nat /\ Ahead' = <<>>
    <3>1. Ahead = <<>>
      BY <1>2, ConcatEmptySeq DEF Ahead
    <3>2. Len(Ahead) = m - k /\ k \in Nat /\ m \in Nat
      BY <1>2, <1>3, AheadAt
    <3>3. Len(Ahead) = 0
      BY <3>1
    <3>4. Ahead' = Ahead
      BY <1>4 DEF Ahead
    <3> QED BY <3>1, <3>2, <3>3, <3>4
  <2>3. Stands(k, m)'
    BY <1>3, <1>4, StandsStill
  <2>4. CASE errors = 2
    <3>1. Refused'
      BY <1>7, <2>4 DEF Refused
    <3> QED BY <1>1, <1>2, <1>4, <1>7, <2>3, <3>1, LetterGoesOn
  <2>5. CASE errors # 2 /\ i = 3
    <3>1. ops' = CallsFrom(4)
      BY <1>2, <1>7, <2>1, <2>5, CallsOfAName
    <3>2. ops' = <<"space", "status">>
      BY <1>2, <3>1, CallsOfAName
    <3>3. Lost'
      BY <1>2, <1>4, <2>2, <3>2 DEF Lost
    <3> QED BY <1>1, <1>2, <1>4, <1>7, <2>3, <3>3, LetterGoesOn
  <2>6. CASE errors # 2 /\ i # 3
    <3>1. PICK j \in 1 .. 3 : j = i + 1
      BY <2>6
    <3>2. ops' = CallsFrom(j)
      <4>1. ops' = Tail(ops)
        BY <1>2, <1>7, <2>6
      <4>2. Tail(ops) = CallsFrom(i + 1)
        BY <1>2, <2>1, CallsOfAName
      <4> QED BY <3>1, <4>1, <4>2
    <3>3. k = m /\ m < j - 1
      BY <2>1, <2>2, <3>1
    <3>4. errors' \in 0 .. 2
      BY <1>2, <1>7, <2>6
    <3>5. packet.kind \in ReplyKinds \/ packet = Packet("ERR", <<>>)
      BY <1>3 DEF Naming
    <3>6. CallsFrom(j)' = CallsFrom(j)
      BY <1>4 DEF CallsFrom
    <3>7. Naming(k, m)'
      BY <1>2, <1>4, <3>2, <3>3, <3>4, <3>5, <3>6 DEF Naming
    <3> QED BY <1>1, <1>2, <1>4, <1>7, <2>3, <3>7, LetterGoesOn
  <2> QED BY <2>4, <2>5, <2>6
<1> QED BY <1>5, <1>6, <1>7

\* What a letter that is there tells of the packet.
LEMMA LetterTells ==
    ASSUME IInv, ReadLetter, line # <<>>, NEW k, NEW m, Stands(k, m), Naming(k, m),
           asked \in Requests, WellFormed(packet), line \in Seq(Tokens), pending = <<>>
    PROVE  \E i \in 1 .. 3 :
            /\ ops = CallsFrom(i) /\ k = i - 1 /\ packet.kind \in DOMAIN Letters
            /\ Head(ops) = Letters[ReplyTo(asked)][i]
            /\ Ahead' = Tail(Ahead) /\ Ahead # <<>> /\ line' \in Seq(Tokens)
            /\ \/ /\ Letters[packet.kind][i] = Letters[ReplyTo(asked)][i]
                  /\ ops' = Tail(ops) /\ errors' = errors /\ outcome' = outcome
               \/ outcome' = "unexpected" /\ ops' = <<>> /\ errors' = errors
               \/ /\ packet.kind = "ERR" /\ errors' = errors + 1 /\ outcome' = outcome
                  /\ ops' = IF errors + 1 = 3 THEN <<"delimiter">> ELSE Tail(ops)
<1>1. Ahead = line
  BY ConcatEmptySeq DEF Ahead
<1>2. /\ k \in Nat /\ m \in Nat /\ k + 1 \in 1 .. m /\ Head(line) = Written(packet)[k + 1]
  BY <1>1, AheadAt
<1>3. PICK i \in 1 .. 3 :
        ops = CallsFrom(i) /\ (k = i - 1 \/ (k = m /\ m < i - 1)) /\ (k = i - 1 => (errors > 0 => packet.kind = "ERR"))
  BY DEF Naming
<1>4. k = i - 1 /\ k + 1 = i
  BY <1>2, <1>3
<1>5. packet.kind \in DOMAIN Letters /\ Head(line) = Char(Letters[packet.kind][i])
  BY <1>2, <1>4, WrittenIsLaidOut DEF Layout, WellFormed
<1>6. Head(ops) = Letters[ReplyTo(asked)][i]
  BY <1>3, CallsOfAName
<1>7. line' = Tail(line) /\ line' \in Seq(Tokens) /\ pending' = <<>>
  <2>1. line' = Tail(line) /\ pending' = <<>>
    BY DEF ReadLetter
  <2> QED BY <2>1, HeadTailProperties
<1>8. Ahead' = Tail(Ahead)
  BY <1>1, <1>7, ConcatEmptySeq DEF Ahead
<1>9. \/ /\ Head(line) = Char(Head(ops))
         /\ ops' = Tail(ops) /\ errors' = errors /\ outcome' = outcome
      \/ outcome' = "unexpected" /\ ops' = <<>> /\ errors' = errors
      \/ /\ Head(line) = Name("ERR")[errors + 1] /\ errors' = errors + 1 /\ outcome' = outcome
         /\ ops' = IF errors + 1 = 3 THEN <<"delimiter">> ELSE Tail(ops)
  <2>1. Letter = {<<Head(line)>>}
    BY DEF Letter
  <2> QED BY <2>1 DEF ReadLetter, Next1, ErrorConfirmed
<1>10. \A c, d : Char(c) = Char(d) => c = d
  <2>1. \A c : Char(c)[2] = c
    BY DEF Char
  <2> QED BY <2>1
<1>11. ASSUME Head(line) = Name("ERR")[errors + 1] PROVE packet.kind = "ERR"
  <2>1. CASE errors = 0
    <3>1. Name("ERR")[1] = Char("E")
      BY NoReplyHasAnE DEF Name
    <3>2. Letters[packet.kind][i] = "E"
      BY <1>5, <1>10, <1>11, <2>1, <3>1
    <3>3. packet.kind \notin ReplyKinds
      BY <3>2, NoReplyHasAnE
    <3>4. packet = Packet("ERR", <<>>)
      BY <3>3 DEF Naming
    <3> QED BY <3>4, RefusalIsWellFormed
  <2>2. CASE errors # 0
    <3>1. errors > 0
      BY <2>2 DEF Naming
    <3> QED BY <1>3, <1>4, <3>1
  <2> QED BY <2>1, <2>2
<1> QED BY <1>1, <1>3, <1>4, <1>5, <1>6, <1>7, <1>8, <1>9, <1>10, <1>11

\* A letter of a name is read.
LEMMA LetterKeeps ==
    ASSUME IInv, ReadLetter
    PROVE  IInv'
<1>1. outcome = "none" /\ ops # <<>> /\ Head(ops) \in Alphabet
  BY DEF ReadLetter, Next1
<1>2. /\ side = "client" /\ asked \in Requests /\ WellFormed(packet)
      /\ line \in Seq(Tokens) /\ pending = <<>> /\ fields = <<>> /\ errors \in 0 .. 2
  BY <1>1, AtALetter
<1>3. PICK k, m : Stands(k, m) /\ Naming(k, m)
  BY <1>1, AtALetter
<1>4. CASE line = <<>>
  BY <1>4, NoLetterKeeps
<1>5. CASE line # <<>>
  <2>1. UNCHANGED <<asked, packet, whole, side, pending, fields>>
    BY DEF ReadLetter
  <2> DEFINE R == ReplyTo(asked)
             Fit(i) == /\ Letters[packet.kind][i] = Letters[R][i]
                       /\ ops' = Tail(ops) /\ errors' = errors /\ outcome' = outcome
             Other == outcome' = "unexpected" /\ ops' = <<>> /\ errors' = errors
             Error == /\ packet.kind = "ERR" /\ errors' = errors + 1 /\ outcome' = outcome
                      /\ ops' = IF errors + 1 = 3 THEN <<"delimiter">> ELSE Tail(ops)
  <2>2. PICK i \in 1 .. 3 :
          /\ ops = CallsFrom(i) /\ k = i - 1 /\ packet.kind \in DOMAIN Letters
          /\ Head(ops) = Letters[R][i]
          /\ Ahead' = Tail(Ahead) /\ Ahead # <<>> /\ line' \in Seq(Tokens)
          /\ Fit(i) \/ Other \/ Error
    BY <1>2, <1>3, <1>5, LetterTells
  <2>3. CASE Other
    BY <1>2, <2>1, <2>2, <2>3 DEF IInv, AcceptedIsSent
  <2>4. Stands(k + 1, m)' /\ k + 1 = i
    BY <1>2, <1>3, <2>1, <2>2, StandsNext
  <2>5. Tail(ops) = CallsFrom(i + 1) /\ CallsFrom(4) = <<"space", "status">>
    BY <1>2, <2>2, CallsOfAName
  <2>6. packet.kind \in ReplyKinds \/ packet = Packet("ERR", <<>>)
    BY <1>3 DEF Naming
  <2>7. CASE Error /\ errors = 2
    <3>1. Refused'
      BY <2>7 DEF Refused
    <3> QED BY <1>1, <1>2, <2>1, <2>2, <2>4, <2>7, <3>1, LetterGoesOn
  <2>8. CASE Fit(i) \/ (Error /\ errors # 2)
    <3>1. ops' = CallsFrom(i + 1) /\ outcome' = "none" /\ errors' \in 0 .. 2
      <4>1. CASE Fit(i)
        BY <1>1, <1>2, <2>5, <4>1
      <4>2. CASE Error /\ errors # 2
        <5>1. errors + 1 # 3 /\ errors + 1 \in 0 .. 2
          BY <1>2, <4>2
        <5> QED BY <1>1, <2>5, <4>2, <5>1
      <4> QED BY <2>8, <4>1, <4>2
    <3>2. errors' > 0 => packet.kind = "ERR"
      <4>1. errors > 0 => packet.kind = "ERR"
        <5>1. PICK j \in 1 .. 3 :
                /\ ops = CallsFrom(j)
                /\ (k = j - 1 /\ (errors > 0 => packet.kind = "ERR")) \/ k = m
          BY <1>3 DEF Naming
        <5>2. k # m
          <6>1. Len(Ahead) = m - k /\ Len(Ahead) # 0 /\ k \in Nat /\ m \in Nat
            <7>1. Ahead \in Seq(Tokens) /\ Len(Ahead) = m - k /\ k \in Nat /\ m \in Nat
              BY <1>2, <1>3, AheadAt
            <7> QED BY <2>2, <7>1, EmptySeq
          <6> QED BY <6>1
        <5> QED BY <5>1, <5>2
      <4> QED BY <1>2, <2>8, <4>1
    <3>3. errors' = 0 => LettersFit(i)
      <4> SUFFICES ASSUME errors' = 0 PROVE LettersFit(i)
        OBVIOUS
      <4>1. errors = 0 /\ Fit(i)
        BY <1>2, <2>8
      <4>2. LettersFit(k)
        <5>1. Len(Ahead) = m - k /\ Len(Ahead) # 0 /\ k \in Nat /\ m \in Nat
          <6>1. Ahead \in Seq(Tokens) /\ Len(Ahead) = m - k /\ k \in Nat /\ m \in Nat
            BY <1>2, <1>3, AheadAt
          <6> QED BY <2>2, <6>1, EmptySeq
        <5>2. k # m
          BY <5>1
        <5> QED BY <1>3, <4>1, <5>2 DEF Naming
      <4>3. \A j \in 1 .. i : j \in 1 .. k \/ j = i
        <5>1. k = i - 1
          BY <2>2
        <5> QED BY <5>1
      <4> QED BY <4>1, <4>2, <4>3 DEF LettersFit
    <3>4. CASE i # 3
      <4>1. PICK j \in 1 .. 3 : j = i + 1
        BY <3>4
      <4>2. CallsFrom(j)' = CallsFrom(j) /\ LettersFit(i)' = LettersFit(i)
        BY <2>1 DEF CallsFrom, LettersFit
      <4>3. k + 1 = j - 1 /\ i = k + 1 /\ ops' = CallsFrom(j)
        BY <2>4, <3>1, <4>1
      <4>4. Naming(k + 1, m)'
        BY <1>2, <2>1, <2>6, <3>1, <3>2, <3>3, <4>2, <4>3 DEF Naming
      <4> QED BY <1>1, <1>2, <2>1, <2>2, <2>4, <3>1, <4>4, LetterGoesOn
    <3>5. CASE i = 3 /\ errors' = 0
      <4>1. packet.kind = R
        <5>1. R \in DOMAIN Letters
          BY <1>2, KindsHaveLetters
        <5>2. \A j \in 1 .. 3 : Letters[packet.kind][j] = Letters[R][j]
          BY <3>3, <3>5 DEF LettersFit
        <5> QED BY <2>2, <5>1, <5>2, NamesTellKinds
      <4>2. ops' = <<"space", "status">>
        BY <2>5, <3>1, <3>5
      <4>3. Told(3)'
        BY <1>2, <2>1, NothingTold, ToldStill
      <4>4. Ordered' /\ FileAhead(3)'
        BY <1>2, <2>1, <4>2, ScriptsInOrder DEF Ordered, FileAhead, OverUdp
      <4>5. Telling(3)' /\ k + 1 = 3
        BY <1>2, <2>1, <2>4, <3>5, <4>1, <4>3, <4>4 DEF Telling, Expected
      <4> QED BY <1>1, <1>2, <2>1, <2>2, <2>4, <3>1, <4>5, LetterGoesOn
    <3>6. CASE i = 3 /\ errors' # 0
      <4>1. packet = Packet("ERR", <<>>)
        <5>1. packet.kind = "ERR"
          BY <3>1, <3>2, <3>6
        <5> QED BY <2>6, <5>1, NoReplyHasAnE
      <4>2. ops' = <<"space", "status">>
        BY <2>5, <3>1, <3>6
      <4>3. Ahead' = <<>> \/ Head(Ahead') # Space
        <5>1. /\ m \in Nat /\ m <= Len(Written(packet))
              /\ Ahead' = SubSeq(Written(packet), (k + 1) + 1, m)
              /\ Written(packet) \in Seq(Tokens)
          BY <1>2, <1>3, <2>2, AheadAt
        <5>2. Len(Written(packet)) = 4 /\ Written(packet)[4] = Newline /\ (k + 1) + 1 = 4
          BY <2>4, <3>6, <4>1, RefusalIsWritten
        <5>3. CASE m < 4
          BY <5>1, <5>2, <5>3, SubSeqEmpty
        <5>4. CASE m = 4
          <6>1. PICK w \in Seq(Tokens) : w = Written(packet)
            BY <5>1
          <6>2. SubSeq(w, 4, 4) = <<w[4]>>
            <7>1. SubSeq(w, 4, 4) = SubSeq(w, 4, 4 - 1) \o <<w[4]>>
              BY <5>2, <6>1, SubSeqRecursiveSecond
            <7>2. SubSeq(w, 4, 4 - 1) = <<>>
              BY <6>1, SubSeqEmpty
            <7>3. w[4] \in Tokens
              BY <5>2, <6>1, ElementOfSeq
            <7>4. <<>> \o <<w[4]>> = <<w[4]>>
              BY <7>3
            <7> QED BY <7>1, <7>2, <7>4
          <6>3. Ahead' = <<Newline>>
            BY <5>1, <5>2, <5>4, <6>1, <6>2
          <6> QED BY <6>3, Disjoint
        <5> QED BY <5>1, <5>2, <5>3, <5>4
      <4>4. Lost'
        BY <1>2, <2>1, <4>2, <4>3 DEF Lost
      <4> QED BY <1>1, <1>2, <2>1, <2>2, <2>4, <3>1, <4>4, LetterGoesOn
    <3> QED BY <3>4, <3>5, <3>6
  <2> QED BY <1>2, <2>2, <2>3, <2>7, <2>8
<1> QED BY <1>4, <1>5

\* What arrives of a packet, before any of it is read.
LEMMA ArrivalStands ==
    ASSUME NEW p, WellFormed(p), NEW udp, NEW reader, NEW calls, Receive(p, udp, reader, calls)
    PROVE  \E m : Stands(0, m)' /\ m \in 0 .. Len(Written(p)) /\ line' \in Seq(Tokens)
<1>1. Written(p) \in Seq(Tokens) /\ Len(Written(p)) \in Nat
  BY WrittenIsLaidOut, LenProperties DEF Layout
<1>2. PICK w \in Seq(Tokens) : w = Written(p) /\ Len(w) \in Nat
  BY <1>1
<1>3. PICK n \in 0 .. Len(w) : line' = SubSeq(w, 1, n) /\ whole' = (Len(SubSeq(w, 1, n)) = Len(w))
  BY <1>2 DEF Receive, Arrivals
<1>4. /\ SubSeq(w, 1, n) \in Seq(Tokens) /\ Len(SubSeq(w, 1, n)) = n
  <2>1. \A i \in 1 .. n : w[i] \in Tokens
    BY <1>2, ElementOfSeq
  <2>2. /\ SubSeq(w, 1, n) \in Seq(Tokens)
        /\ Len(SubSeq(w, 1, n)) = IF 1 <= n THEN n - 1 + 1 ELSE 0
    BY <2>1, SubSeqProperties
  <2> QED BY <2>2
<1>5. Ahead' = SubSeq(w, 0 + 1, n)
  <2>1. pending' = <<>>
    BY DEF Receive
  <2> QED BY <1>3, <1>4, <2>1, ConcatEmptySeq DEF Ahead
<1>6. packet' = p
  BY DEF Receive
<1> QED BY <1>2, <1>3, <1>4, <1>5, <1>6 DEF Stands

\* A request is sent.
LEMMA AskKeeps ==
    ASSUME IInv, NEW k \in Requests, NEW p \in RequestPackets(k), Ask(p)
    PROVE  IInv'
<1>1. WellFormed(p) /\ p.kind = k
  BY RequestsAreWellFormed
<1>2. Receive(p, p.kind \in UdpRequests, "server", <<"kind">>) /\ asked' = k
  BY <1>1 DEF Ask
<1>3. PICK m : Stands(0, m)' /\ m \in 0 .. Len(Written(p)) /\ line' \in Seq(Tokens)
  BY <1>1, <1>2, ArrivalStands
<1>4. /\ packet' = p /\ side' = "server" /\ ops' = <<"kind">> /\ pending' = <<>>
      /\ fields' = <<>> /\ errors' = 0 /\ outcome' = "none"
  BY <1>2 DEF Receive
<1>5. AtKind(0)'
  BY <1>4 DEF AtKind
<1>6. <<>> \in Seq(Tokens) /\ Len(<<>>) <= 1 /\ 0 \in 0 .. Len(Written(p))
  <2>1. Len(Written(p)) \in Nat
    BY <1>1, WrittenIsLaidOut, LenProperties DEF Layout
  <2> QED BY <2>1
<1> QED BY <1>1, <1>2, <1>3, <1>4, <1>5, <1>6 DEF IInv, AcceptedIsSent

\* An answer is sent.
LEMMA ReplyKeeps ==
    ASSUME IInv, side = "server", NEW p, WellFormed(p), AwaitReply(p),
           p.kind \in ReplyKinds \/ p = Packet("ERR", <<>>)
    PROVE  IInv'
<1>1. asked \in Requests
  BY DEF IInv
<1>2. Receive(p, OverUdp, "client", ReadReply(ReplyTo(asked))) /\ asked' = asked
  BY DEF AwaitReply
<1>3. PICK m : Stands(0, m)' /\ m \in 0 .. Len(Written(p)) /\ line' \in Seq(Tokens)
  BY <1>2, ArrivalStands
<1>4. /\ packet' = p /\ side' = "client" /\ ops' = CallsFrom(1) /\ pending' = <<>>
      /\ fields' = <<>> /\ errors' = 0 /\ outcome' = "none"
  BY <1>1, <1>2, CallsOfAName DEF Receive
<1>5. Naming(0, m)'
  <2>1. CallsFrom(1)' = CallsFrom(1)
    BY <1>2 DEF CallsFrom
  <2>2. LettersFit(0)'
    BY DEF LettersFit
  <2> QED BY <1>4, <2>1, <2>2 DEF Naming
<1>6. <<>> \in Seq(Tokens) /\ Len(<<>>) <= 1 /\ 0 \in 0 .. Len(Written(p))
  <2>1. Len(Written(p)) \in Nat
    BY WrittenIsLaidOut, LenProperties DEF Layout
  <2> QED BY <2>1
<1> QED BY <1>1, <1>2, <1>3, <1>4, <1>5, <1>6 DEF IInv, AcceptedIsSent

\* The server answers or goes away.
LEMMA AnswersKeep ==
    ASSUME IInv, Answer \/ LateAnswer \/ Refuse \/ Drop
    PROVE  IInv'
<1>1. ASSUME Answer PROVE IInv'
  <2>1. side = "server" /\ asked \in Requests
    BY <1>1 DEF Answer, IInv
  <2>2. PICK p \in ReplyPackets(ReplyTo(asked)) : AwaitReply(p)
    BY <1>1 DEF Answer
  <2>3. ReplyTo(asked) \in ReplyKinds
    BY <2>1 DEF ReplyKinds
  <2>4. WellFormed(p) /\ p.kind \in ReplyKinds
    BY <2>3, RepliesAreWellFormed
  <2> QED BY <2>1, <2>2, <2>4, ReplyKeeps
<1>2. ASSUME LateAnswer PROVE IInv'
  <2>1. side = "server"
    BY <1>2 DEF LateAnswer
  <2>2. PICK k \in UdpRequests : \E p \in ReplyPackets(UdpReply[k]) : AwaitReply(p)
    BY <1>2 DEF LateAnswer
  <2>3. UdpReply[k] \in ReplyKinds
    BY KindsHaveLetters DEF ReplyKinds, Requests
  <2>4. PICK p \in ReplyPackets(UdpReply[k]) : AwaitReply(p)
    BY <2>2
  <2>5. WellFormed(p) /\ p.kind \in ReplyKinds
    BY <2>3, RepliesAreWellFormed
  <2> QED BY <2>1, <2>4, <2>5, ReplyKeeps
<1>3. ASSUME Refuse PROVE IInv'
  BY <1>3, RefusalIsWellFormed, ReplyKeeps DEF Refuse
<1>4. ASSUME Drop PROVE IInv'
  BY <1>4 DEF Drop, IInv, AcceptedIsSent
<1> QED BY <1>1, <1>2, <1>3, <1>4

\* Nothing happens.
LEMMA StillKeeps ==
    ASSUME IInv, UNCHANGED vars
    PROVE  IInv'
<1>1. UNCHANGED <<asked, packet, whole, side, line, ops, last, errors, pending, fields, outcome>>
  BY DEF vars
<1>2. AcceptedIsSent => AcceptedIsSent'
  BY <1>1 DEF AcceptedIsSent, Expected, Ahead
<1>3. ASSUME NEW k, NEW m, Stands(k, m), AtKind(k) \/ Naming(k, m) \/ Lost \/ Refused \/ Telling(k)
      PROVE  Stands(k, m)' /\ (AtKind(k) \/ Naming(k, m) \/ Lost \/ Refused \/ Telling(k))'
  <2>1. Stands(k, m)'
    BY <1>1, <1>3, StandsStill
  <2>2. AtKind(k) => AtKind(k)'
    BY <1>1 DEF AtKind
  <2>3. Naming(k, m) => Naming(k, m)'
    BY <1>1 DEF Naming, CallsFrom, LettersFit
  <2>4. Lost \/ Refused => (Lost \/ Refused)'
    BY <1>1 DEF Lost, Refused, Ahead
  <2>5. Telling(k) => Telling(k)'
    <3>1. Told(k) => Told(k)'
      BY <1>1, ToldStill
    <3>2. Ordered /\ FileAhead(k) => Ordered' /\ FileAhead(k)'
      BY <1>1 DEF Ordered, OverUdp, FileAhead, SizeRead
    <3> QED BY <1>1, <3>1, <3>2 DEF Telling, Expected
  <2> QED BY <1>3, <2>1, <2>2, <2>3, <2>4, <2>5
<1>4. ASSUME side # "none", outcome = "none"
      PROVE  \E m, k \in 0 .. Len(Written(packet')) :
                (Stands(k, m) /\ (AtKind(k) \/ Naming(k, m) \/ Lost \/ Refused \/ Telling(k)))'
  <2>1. PICK m \in 0 .. Len(Written(packet)), k \in 0 .. Len(Written(packet)) :
          Stands(k, m) /\ (AtKind(k) \/ Naming(k, m) \/ Lost \/ Refused \/ Telling(k))
    BY <1>4 DEF IInv
  <2> QED BY <1>1, <1>3, <2>1
<1> QED BY <1>1, <1>2, <1>4 DEF IInv

\* Whatever happens, the invariant is kept.
LEMMA StepKeeps ==
    ASSUME IInv, [Next]_vars
    PROVE  IInv'
<1>1. CASE UNCHANGED vars
  BY <1>1, StillKeeps
<1>2. CASE Answer \/ LateAnswer \/ Refuse \/ Drop
  BY <1>2, AnswersKeep
<1>3. CASE Reading
  <2>1. CASE ReadKind
    BY <2>1, KindKeeps
  <2>2. CASE ReadLetter
    BY <2>2, LetterKeeps
  <2>3. CASE ReadSpace
    BY <2>3, SpaceKeeps
  <2>4. CASE ReadField
    BY <2>4, ReadFieldKeeps
  <2>5. CASE ReadStatus
    BY <2>5, StatusKeeps
  <2>6. CASE ReadDate
    BY <2>6, DateKeeps
  <2>7. CASE NextAuction
    BY <2>7, AuctionsKeep
  <2>8. CASE NextEvent
    BY <2>8, EventsKeep
  <2>9. CASE ReadData
    BY <2>9, DataKeeps
  <2>10. CASE ReadDelimiter
    BY <2>10, DelimiterKeeps
  <2> QED BY <1>3, <2>1, <2>2, <2>3, <2>4, <2>5, <2>6, <2>7, <2>8, <2>9, <2>10 DEF Reading
<1>4. ASSUME NEW k \in Requests, NEW p \in RequestPackets(k), Ask(p) PROVE IInv'
  BY <1>4, AskKeeps
<1> QED BY <1>1, <1>2, <1>3, <1>4 DEF Next

-----------------------------------------------------------------------------

\* For any texts and any numbers of rows and bids: what a reader accepts is the
\* packet that it waits for, field for field and whole, and nothing is left of
\* it.  The writers are the serialize and send methods of protocol.cpp, the
\* readers its deserialize and receive methods, and readPacketId tells the
\* packet by its letters.
THEOREM AcceptedIsSentHolds == Spec => []AcceptedIsSent
<1>1. Init => IInv
  BY DEF Init, IInv
<1>2. IInv /\ [Next]_vars => IInv'
  BY StepKeeps
<1>3. IInv => AcceptedIsSent
  BY DEF IInv, AcceptedIsSent
<1> QED BY <1>1, <1>2, <1>3, PTL DEF Spec

-----------------------------------------------------------------------------
(* What the calls that are left find                                       *)

\* The call takes the i-th token of what is written.
Takes(p, call, i) ==
    /\ i \in 4 .. Len(Written(p))
    /\ \/ call = "space" /\ Written(p)[i] = Space
       \/ call = "mark" /\ Written(p)[i] \in Marks
       \/ call \in Types \cup {"size"} /\ Written(p)[i][1] = call

\* After token k, the first n calls take one token each, up to token e.  A
\* date takes the space after it too, and comes before the last of them.
Matches(p, calls, k, n, e) ==
    /\ calls \in Seq(StreamCalls \cup DatagramCalls) /\ n \in 0 .. Len(calls)
    /\ \A j \in 1 .. n - 1 : Takes(p, calls[j], k + j)
    /\ n > 0 => Takes(p, calls[n], e)
    /\ e = IF n >= 2 /\ calls[n - 1] = "date" THEN k + n + 1 ELSE k + n
    /\ \A j \in 1 .. n : calls[j] = "date" => j = n - 1 /\ calls[n] = "int"

\* From field a on, the calls take a space and a field in turn, then the file,
\* and end the packet.
Reads(calls, p, a) ==
    LET m == TextLength(p) - a IN
    /\ calls \in Seq(StreamCalls \cup DatagramCalls) /\ m \in Nat
    /\ Len(calls) = 2 * m + (IF HasFile(p) THEN 3 ELSE 1)
    /\ \A i \in 1 .. m :
        /\ calls[2 * i - 1] = "space"
        /\ calls[2 * i] \in (Types \ {"date"}) \cup {"size"}
        /\ Text(p)[a + i][1] = calls[2 * i]
    /\ HasFile(p) => calls[2 * m + 1] = "space" /\ calls[2 * m + 2] = "data"
    /\ calls[Len(calls)] = "delimiter"

\* A list of r auctions.
ListOf(p, r) ==
    /\ ~HasFile(p) /\ r \in Nat /\ TextLength(p) = 1 + 2 * r
    /\ \A j \in 1 .. r : Text(p)[2 * j][1] = "auction" /\ Text(p)[2 * j + 1][1] = "state"

\* A record that shows b bids.
RecordOf(p, b) ==
    /\ ~HasFile(p) /\ b \in 0 .. MaxShown
    /\ TextLength(p) = 7 + 5 * b + (IF p.end = <<>> THEN 0 ELSE 3)
    /\ Text(p)[1] = Status("OK")
    /\ \A i \in 1 .. 6 : Text(p)[1 + i][1] = <<"user", "word", "file", "int", "date", "int">>[i]
    /\ \A j \in 0 .. b - 1 :
        /\ Text(p)[7 + 5 * j + 1] = BidMark
        /\ \A i \in 1 .. 4 : Text(p)[7 + 5 * j + 1 + i][1] = <<"user", "int", "date", "int">>[i]
    /\ p.end # <<>> =>
        /\ Text(p)[7 + 5 * b + 1] = EndMark
        /\ Text(p)[7 + 5 * b + 2][1] = "date" /\ Text(p)[7 + 5 * b + 3][1] = "int"

OkFits(p) ==
    CASE p.kind \in {"RMA", "RMB", "RLS"} -> \E r \in 0 .. TextLength(p) : ListOf(p, r)
      [] p.kind = "RRC" -> \E b \in 0 .. TextLength(p) : RecordOf(p, b)
      [] OTHER -> Reads(ReadOk(p.kind), p, 1)

\* An answer begins with a status of its kind.
ReplyFits(p) ==
    /\ TextLength(p) \in Nat \ {0}
    /\ \E s \in Statuses[p.kind] :
        /\ Text(p)[1] = Status(s)
        /\ IF s = "OK" THEN OkFits(p) ELSE Reads(<<"delimiter">>, p, 1)

\* After token e, the first call decides what is called next: it reads the
\* status, or a file, or finds the next row of a list, the next event of a record,
\* or the end.
AtStatus(p, calls, e) ==
    calls = <<"status">> /\ e = 4 /\ p.kind \in ReplyKinds /\ ReplyFits(p)
AtFile(p, calls, e) ==
    calls = <<"data", "delimiter">> /\ HasFile(p) /\ e = 4 + 2 * TextLength(p)
AtRow(p, calls, e) ==
    /\ calls = <<"auctions", "delimiter">>
    /\ \E r \in 0 .. TextLength(p) : ListOf(p, r) /\ \E j \in 0 .. r : e = 5 + 4 * j
AtEvent(p, calls, e) ==
    /\ calls = <<"events", "delimiter">>
    /\ \E b \in 0 .. TextLength(p) : RecordOf(p, b) /\ \E j \in 0 .. b : e = 17 + 10 * j
AtNewline(p, calls, e) ==
    calls = <<"delimiter">> /\ e + 1 = Len(Written(p))
Decides(p, calls, e) ==
    \/ AtStatus(p, calls, e) \/ AtFile(p, calls, e) \/ AtRow(p, calls, e)
    \/ AtEvent(p, calls, e) \/ AtNewline(p, calls, e)

\* After token k, the calls find what they look for, up to the next decision.
Finds(p, calls, k) ==
    \E n \in 0 .. Len(Written(p)), e \in 0 .. Len(Written(p)) :
        Matches(p, calls, k, n, e) /\ Decides(p, SubSeq(calls, n + 1, Len(calls)), e)

Following(k) ==
    errors = 0 /\ packet.kind \in Expected /\ Finds(packet, ops, k)

\* k letters of the name are read.
OnName(k) ==
    /\ side = "client" /\ k \in 0 .. 2 /\ ops = CallsFrom(k + 1)
    /\ \/ packet = Packet("ERR", <<>>) /\ errors = k
       \/ packet.kind \in ReplyKinds /\ errors = 0 /\ LettersFit(k) /\ ReplyFits(packet)

Confirming(k) ==
    side = "client" /\ k = 3 /\ ops = <<"delimiter">> /\ errors = 3 /\ packet = Packet("ERR", <<>>)

Starting(k) == AtKind(k) /\ Reads(ReadRequest(asked), packet, 0)

WInv ==
    side # "none" =>
        /\ OverUdp => whole
        /\ packet.kind = "ERR" => asked \in TcpRequests
        /\ whole /\ outcome = "none" =>
            \E k \in 0 .. Len(Written(packet)) :
                /\ Stands(k, Len(Written(packet)))
                /\ Starting(k) \/ OnName(k) \/ Confirming(k) \/ Following(k)
        /\ WholeIsRecognised

\* A text's tokens stand each after a space, and before a space or the newline.
LEMMA TextStands ==
    ASSUME NEW p, WellFormed(p), NEW i \in 1 .. TextLength(p)
    PROVE  /\ 2 + 2 * i \in 4 .. Len(Written(p)) /\ Written(p)[2 + 2 * i] = Space
           /\ 3 + 2 * i \in 4 .. Len(Written(p)) /\ Written(p)[3 + 2 * i] = Text(p)[i]
           /\ 4 + 2 * i \in 4 .. Len(Written(p)) /\ Written(p)[4 + 2 * i] \in {Space, Newline}
           /\ i < TextLength(p) => Written(p)[4 + 2 * i] = Space
<1> DEFINE W == Written(p)
           L == TextLength(p)
<1>1. /\ L \in Nat /\ FileLength(p) \in Nat /\ Len(W) = 4 + 2 * L + FileLength(p)
      /\ \A j \in 1 .. 2 * L : W[3 + j] = IF j % 2 = 1 THEN Space ELSE Text(p)[j \div 2]
      /\ HasFile(p) => W[4 + 2 * L] = Space
      /\ W[Len(W)] = Newline
  BY WrittenIsLaidOut DEF Layout
<1>2. ~HasFile(p) => FileLength(p) = 0
  BY DEF FileLength
<1>3. i \in Nat /\ i >= 1 /\ i <= L
  BY <1>1
<1> HIDE DEF W, L
<1>4. /\ 2 * i - 1 \in 1 .. 2 * L /\ (2 * i - 1) % 2 = 1 /\ 3 + (2 * i - 1) = 2 + 2 * i
      /\ 2 * i \in 1 .. 2 * L /\ (2 * i) % 2 = 0 /\ (2 * i) \div 2 = i
  BY <1>1, <1>3
<1>5. W[2 + 2 * i] = Space /\ W[3 + 2 * i] = Text(p)[i]
  <2>1. W[3 + (2 * i - 1)] = Space
    BY <1>1, <1>4
  <2>2. W[3 + 2 * i] = Text(p)[i]
    BY <1>1, <1>4
  <2> QED BY <1>4, <2>1, <2>2
<1>6. ASSUME i < L PROVE W[4 + 2 * i] = Space
  <2>1. 2 * i + 1 \in 1 .. 2 * L /\ (2 * i + 1) % 2 = 1 /\ 3 + (2 * i + 1) = 4 + 2 * i
    BY <1>1, <1>3, <1>6
  <2> QED BY <1>1, <2>1
<1>7. W[4 + 2 * i] \in {Space, Newline}
  <2>1. CASE i < L
    BY <1>6, <2>1
  <2>2. CASE i = L
    BY <1>1, <1>2, <2>2
  <2> QED BY <1>1, <1>3, <2>1, <2>2
<1>8. /\ 2 + 2 * i \in 4 .. Len(W) /\ 3 + 2 * i \in 4 .. Len(W) /\ 4 + 2 * i \in 4 .. Len(W)
  BY <1>1, <1>3
<1> QED BY <1>5, <1>6, <1>7, <1>8 DEF W, L

\* What comes after the text.
LEMMA TextEnds ==
    ASSUME NEW p, WellFormed(p)
    PROVE  /\ TextLength(p) \in Nat /\ Len(Written(p)) \in Nat
           /\ Len(Written(p)) >= 4 + 2 * TextLength(p)
           /\ ~HasFile(p) => Len(Written(p)) = 4 + 2 * TextLength(p)
           /\ HasFile(p) =>
                /\ Written(p)[4 + 2 * TextLength(p)] = Space
                /\ Len(p.data) \in Nat /\ Len(Written(p)) = 5 + 2 * TextLength(p) + Len(p.data)
           /\ Written(p)[Len(Written(p))] = Newline
<1>1. Layout(p)
  BY WrittenIsLaidOut
<1>2. PICK l \in Nat, f \in Nat : l = TextLength(p) /\ f = FileLength(p)
  BY <1>1 DEF Layout
<1>3. Len(Written(p)) = 4 + 2 * l + f
  BY <1>1, <1>2 DEF Layout
<1>4. ~HasFile(p) => f = 0
  BY <1>2 DEF FileLength
<1>5. HasFile(p) => Len(p.data) \in Nat /\ f = 1 + Len(p.data)
  BY <1>2 DEF FileLength, WellFormed
<1>6. HasFile(p) => Written(p)[4 + 2 * TextLength(p)] = Space
  BY <1>1 DEF Layout
<1>7. Written(p)[Len(Written(p))] = Newline
  BY <1>1 DEF Layout
<1>8. ASSUME HasFile(p) PROVE Len(Written(p)) = 5 + 2 * l + Len(p.data)
  <2>1. PICK d \in Nat : d = Len(p.data)
    BY <1>5, <1>8
  <2>2. f = 1 + d
    BY <1>5, <1>8, <2>1
  <2>3. 4 + 2 * l + f = 5 + 2 * l + d
    BY <2>2
  <2> QED BY <1>3, <2>1, <2>3
<1>9. PICK w \in Nat : w = Len(Written(p))
  BY <1>3
<1>10. w >= 4 + 2 * l
  <2>1. w = 4 + 2 * l + f
    BY <1>3, <1>9
  <2> QED BY <2>1
<1>11. ASSUME ~HasFile(p) PROVE w = 4 + 2 * l
  <2>1. w = 4 + 2 * l + f /\ f = 0
    BY <1>3, <1>4, <1>9, <1>11
  <2> QED BY <2>1
<1> QED BY <1>2, <1>5, <1>6, <1>7, <1>8, <1>9, <1>10, <1>11

\* The last calls of some.
LEMMA LastCall ==
    ASSUME NEW S, NEW s \in Seq(S), NEW n \in Nat, n + 1 = Len(s)
    PROVE  SubSeq(s, n + 1, Len(s)) = <<s[Len(s)]>>
<1>1. \A i \in n + 1 .. Len(s) : s[i] \in S
  OBVIOUS
<1>2. PICK t : t = SubSeq(s, n + 1, Len(s))
  OBVIOUS
<1>6. n + 1 \in Int /\ Len(s) \in Int
  OBVIOUS
<1>3. /\ t \in Seq(S)
      /\ Len(t) = IF n + 1 <= Len(s) THEN Len(s) - (n + 1) + 1 ELSE 0
      /\ \A i \in 1 .. Len(s) - (n + 1) + 1 : t[i] = s[(n + 1) + i - 1]
  <2>1. PICK h \in Int : h = Len(s)
    BY <1>6
  <2>2. \A i \in n + 1 .. h : s[i] \in S
    BY <1>1, <2>1
  <2>3. /\ SubSeq(s, n + 1, h) \in Seq(S)
        /\ Len(SubSeq(s, n + 1, h)) = IF n + 1 <= h THEN h - (n + 1) + 1 ELSE 0
        /\ \A i \in 1 .. h - (n + 1) + 1 : SubSeq(s, n + 1, h)[i] = s[(n + 1) + i - 1]
    BY <1>6, <2>2, SubSeqProperties
  <2> QED BY <1>2, <2>1, <2>3
<1>4. Len(t) = 1 /\ t[1] = s[Len(s)]
  <2>1. Len(s) - (n + 1) + 1 = 1 /\ (n + 1) + 1 - 1 = Len(s) /\ 1 \in 1 .. 1
    OBVIOUS
  <2> QED BY <1>3, <2>1
<1>5. t = <<s[Len(s)]>>
  BY <1>3, <1>4
<1> QED BY <1>2, <1>5

\* The last two calls of some.
LEMMA LastCalls ==
    ASSUME NEW S, NEW s \in Seq(S), NEW n \in Nat, n + 2 = Len(s)
    PROVE  SubSeq(s, n + 1, Len(s)) = <<s[n + 1], s[n + 2]>>
<1>1. \A i \in n + 1 .. Len(s) : s[i] \in S
  OBVIOUS
<1>2. PICK t : t = SubSeq(s, n + 1, Len(s))
  OBVIOUS
<1>3. /\ t \in Seq(S)
      /\ Len(t) = IF n + 1 <= Len(s) THEN Len(s) - (n + 1) + 1 ELSE 0
      /\ \A i \in 1 .. Len(s) - (n + 1) + 1 : t[i] = s[(n + 1) + i - 1]
  BY <1>1, <1>2, SubSeqProperties
<1>4. Len(t) = 2 /\ t[1] = s[n + 1] /\ t[2] = s[n + 2]
  <2>1. Len(s) - (n + 1) + 1 = 2 /\ (n + 1) + 1 - 1 = n + 1 /\ (n + 1) + 2 - 1 = n + 2
        /\ 1 \in 1 .. 2 /\ 2 \in 1 .. 2
    OBVIOUS
  <2> QED BY <1>3, <2>1
<1>5. t = <<s[n + 1], s[n + 2]>>
  BY <1>3, <1>4
<1> QED BY <1>2, <1>5

\* Calls for a space and a field in turn find them.
LEMMA ReadsFind ==
    ASSUME NEW p, WellFormed(p), NEW a \in Nat, NEW s, Reads(s, p, a)
    PROVE  Finds(p, s, 3 + 2 * a)
<1> DEFINE W == Written(p)
           L == TextLength(p)
           k == 3 + 2 * a
<1>1. PICK m \in Nat : m = L - a
  BY DEF Reads
<1>2. PICK c : c = StreamCalls \cup DatagramCalls
  OBVIOUS
<1>3. /\ s \in Seq(c) /\ Len(s) = 2 * m + (IF HasFile(p) THEN 3 ELSE 1)
      /\ \A i \in 1 .. m :
          /\ s[2 * i - 1] = "space"
          /\ s[2 * i] \in (Types \ {"date"}) \cup {"size"}
          /\ Text(p)[a + i][1] = s[2 * i]
      /\ HasFile(p) => s[2 * m + 1] = "space" /\ s[2 * m + 2] = "data"
      /\ s[Len(s)] = "delimiter"
  BY <1>1, <1>2 DEF Reads
<1>4. /\ L \in Nat /\ Len(W) \in Nat
      /\ ~HasFile(p) => Len(W) = 4 + 2 * L
      /\ HasFile(p) =>
            /\ W[4 + 2 * L] = Space
            /\ Len(p.data) \in Nat /\ Len(W) = 5 + 2 * L + Len(p.data)
  BY TextEnds
<1>5. L = a + m
  BY <1>1, <1>4
<1>6. \A j \in 1 .. 2 * m : Takes(p, s[j], k + j) /\ s[j] # "date"
  <2> SUFFICES ASSUME NEW j \in 1 .. 2 * m
               PROVE  Takes(p, s[j], k + j) /\ s[j] # "date"
    OBVIOUS
  <2>1. CASE j % 2 = 1
    <3>1. PICK i \in 1 .. m : j = 2 * i - 1
      <4>1. (j + 1) \div 2 \in 1 .. m /\ j = 2 * ((j + 1) \div 2) - 1
        BY <2>1
      <4> QED BY <4>1
    <3>2. a + i \in 1 .. L /\ 2 + 2 * (a + i) = k + j
      BY <1>5, <3>1
    <3>3. k + j \in 4 .. Len(W) /\ W[k + j] = Space
      BY <3>2, TextStands
    <3>4. s[j] = "space"
      BY <1>3, <3>1
    <3> QED BY <3>3, <3>4 DEF Takes
  <2>2. CASE j % 2 # 1
    <3>1. PICK i \in 1 .. m : j = 2 * i
      <4>1. j \div 2 \in 1 .. m /\ j = 2 * (j \div 2)
        BY <2>2
      <4> QED BY <4>1
    <3>2. a + i \in 1 .. L /\ 3 + 2 * (a + i) = k + j
      BY <1>5, <3>1
    <3>3. k + j \in 4 .. Len(W) /\ W[k + j] = Text(p)[a + i]
      BY <3>2, TextStands
    <3>4. s[j] \in (Types \ {"date"}) \cup {"size"} /\ Text(p)[a + i][1] = s[j]
      BY <1>3, <3>1
    <3> QED BY <3>3, <3>4 DEF Takes
  <2> QED BY <2>1, <2>2
<1>7. CASE ~HasFile(p)
  <2>1. Len(s) = 2 * m + 1 /\ Len(W) = 4 + 2 * L
    BY <1>3, <1>4, <1>7
  <2>2. PICK n \in Nat, e \in Nat : n = 2 * m /\ e = k + n
    OBVIOUS
  <2>3. n \in 0 .. Len(W) /\ e \in 0 .. Len(W) /\ e + 1 = Len(W) /\ n \in 0 .. Len(s)
    BY <1>4, <1>5, <2>1, <2>2
  <2>4. \A j \in 1 .. n : Takes(p, s[j], k + j) /\ s[j] # "date"
    BY <1>6, <2>2
  <2>5. Matches(p, s, k, n, e)
    <3>1. n > 0 => n \in 1 .. n /\ n - 1 \in Nat
      BY <2>2
    <3>2. n > 0 => Takes(p, s[n], e)
      BY <2>2, <2>4, <3>1
    <3>3. n >= 2 => s[n - 1] # "date"
      BY <2>4
    <3>4. \A j \in 1 .. n - 1 : j \in 1 .. n
      OBVIOUS
    <3> HIDE DEF k
    <3> QED BY <1>2, <1>3, <2>2, <2>3, <2>4, <3>2, <3>3, <3>4 DEF Matches
  <2>6. SubSeq(s, n + 1, Len(s)) = <<"delimiter">>
    <3>1. n + 1 = Len(s) /\ Len(s) \in 1 .. Len(s)
      BY <2>1, <2>2
    <3> QED BY <1>3, <3>1, LastCall
  <2> QED BY <2>3, <2>5, <2>6 DEF Finds, Decides, AtNewline
<1>8. CASE HasFile(p)
  <2>1. Len(s) = 2 * m + 3 /\ Len(W) = 5 + 2 * L + Len(p.data) /\ Len(p.data) \in Nat
    BY <1>3, <1>4, <1>8
  <2>2. PICK n \in Nat, e \in Nat : n = 2 * m + 1 /\ e = k + n
    OBVIOUS
  <2>3. n \in 0 .. Len(W) /\ e \in 4 .. Len(W) /\ e = 4 + 2 * L /\ n \in 0 .. Len(s)
    <3>1. PICK d \in Nat : d = Len(p.data) /\ Len(W) = 5 + 2 * L + d
      BY <2>1
    <3>2. e = 4 + 2 * L
      BY <1>4, <1>5, <2>2
    <3>3. PICK w \in Nat, o \in Nat : w = Len(W) /\ o = Len(s)
      BY <1>4, <2>1
    <3>4. w = 5 + 2 * L + d /\ o = 2 * m + 3
      BY <2>1, <3>1, <3>3
    <3> HIDE DEF W, L
    <3>5. n <= w /\ e <= w /\ e >= 4 /\ n <= o
      BY <1>4, <1>5, <2>2, <3>2, <3>4
    <3> QED BY <2>2, <3>2, <3>3, <3>5
  <2>4. Takes(p, s[n], e) /\ s[n] = "space"
    BY <1>3, <1>4, <1>8, <2>2, <2>3 DEF Takes
  <2>5. Matches(p, s, k, n, e)
    <3>1. \A j \in 1 .. n : j \in 1 .. 2 * m \/ j = n
      BY <2>2
    <3>2. \A j \in 1 .. n : s[j] # "date"
      BY <1>6, <2>4, <3>1
    <3>3. \A j \in 1 .. n - 1 : Takes(p, s[j], k + j)
      BY <1>6, <2>2
    <3>4. n >= 2 => n - 1 \in 1 .. n
      OBVIOUS
    <3> HIDE DEF k
    <3> QED BY <1>2, <1>3, <2>2, <2>3, <2>4, <3>2, <3>3, <3>4 DEF Matches
  <2>6. SubSeq(s, n + 1, Len(s)) = <<"data", "delimiter">>
    <3>1. n + 2 = Len(s) /\ n \in Nat
      BY <2>1, <2>2
    <3>2. s[n + 1] = "data" /\ s[n + 2] = "delimiter"
      BY <1>3, <1>8, <2>2, <3>1
    <3> QED BY <1>3, <3>1, <3>2, LastCalls
  <2> QED BY <1>8, <2>3, <2>5, <2>6 DEF Finds, Decides, AtFile
<1> QED BY <1>7, <1>8

-----------------------------------------------------------------------------
(* What is written is what the calls look for                              *)

\* A packet without events says no more than its body.
LEMMA PlainText ==
    ASSUME NEW p, WellFormed(p), p.bids = <<>>, p.end = <<>>
    PROVE  Text(p) = p.body
<1>1. Events(p) = <<>> /\ p.body \in Seq(Values \cup Sizes)
  BY EventsAreValues DEF WellFormed
<1> QED BY <1>1, ConcatEmptySeq DEF Text

\* The calls for one field after the other.
LEMMA OneField ==
    ASSUME NEW p, NEW a \in Nat, NEW c, TextLength(p) = a + 1, ~HasFile(p),
           c \in (Types \ {"date"}) \cup {"size"}, Text(p)[a + 1][1] = c
    PROVE  Reads(<<"space", c, "delimiter">>, p, a)
<1>1. PICK s : s = <<"space", c, "delimiter">>
  OBVIOUS
<1>2. s \in Seq(StreamCalls \cup DatagramCalls) /\ Len(s) = 3
  BY <1>1 DEF Types, StreamCalls, DatagramCalls
<1>3. s[1] = "space" /\ s[2] = c /\ s[3] = "delimiter"
  BY <1>1
<1>4. TextLength(p) - a = 1
  OBVIOUS
<1>5. \A i \in 1 .. 1 : 2 * i - 1 = 1 /\ 2 * i = 2 /\ a + i = a + 1
  OBVIOUS
<1>6. \A i \in 1 .. 1 :
        /\ s[2 * i - 1] = "space"
        /\ s[2 * i] \in (Types \ {"date"}) \cup {"size"}
        /\ Text(p)[a + i][1] = s[2 * i]
  BY <1>3, <1>5
<1> HIDE DEF Reads
<1>7. Reads(s, p, a)
  BY <1>2, <1>3, <1>4, <1>6 DEF Reads
<1> QED BY <1>1, <1>7

\* No field, only the end.
LEMMA NoField ==
    ASSUME NEW p, NEW a \in Nat, TextLength(p) = a, ~HasFile(p)
    PROVE  Reads(<<"delimiter">>, p, a)
<1>1. PICK s : s = <<"delimiter">>
  OBVIOUS
<1>2. s \in Seq(StreamCalls \cup DatagramCalls) /\ Len(s) = 1 /\ s[1] = "delimiter"
  BY <1>1 DEF StreamCalls, DatagramCalls
<1>3. TextLength(p) - a = 0
  OBVIOUS
<1>4. Reads(s, p, a)
  BY <1>2, <1>3 DEF Reads
<1> QED BY <1>1, <1>4

\* One field after the other, without a file.
LEMMA FieldsRead ==
    ASSUME NEW p, NEW a \in Nat, NEW m \in Nat, TextLength(p) = a + m, ~HasFile(p),
           NEW s \in Seq(StreamCalls \cup DatagramCalls), Len(s) = 2 * m + 1,
           s[2 * m + 1] = "delimiter", \A i \in 1 .. m : s[2 * i - 1] = "space",
           \A i \in 1 .. m : s[2 * i] \in (Types \ {"date"}) \cup {"size"},
           \A i \in 1 .. m : Text(p)[a + i][1] = s[2 * i]
    PROVE  Reads(s, p, a)
<1>1. TextLength(p) - a = m
  OBVIOUS
<1> QED BY <1>1 DEF Reads

\* The server's calls are those that the client's request needs: its serialize and
\* send methods, and the server's deserialize and receive methods, agree.
LEMMA RequestFits ==
    ASSUME NEW k \in Requests, NEW p \in RequestPackets(k)
    PROVE  Reads(ReadRequest(k), p, 0)
<1>1. WellFormed(p) /\ p.kind = k
  BY RequestsAreWellFormed
<1>2. k # "OPA" => ~HasFile(p)
  BY <1>1 DEF HasFile, Requests, UdpRequests, TcpRequests, UdpReply, TcpReply
<1>3. PICK s : s = ReadRequest(k)
  OBVIOUS
<1>4. s \in Seq(StreamCalls \cup DatagramCalls)
  <2>1. k \in TcpRequests => s \in Seq(StreamCalls)
    BY <1>3, ScriptsInOrder DEF OnStream
  <2>2. k \in UdpRequests => s \in Seq(DatagramCalls)
    BY <1>3, ScriptsInOrder DEF OnDatagram
  <2> QED BY <2>1, <2>2, SeqMonotonic DEF Requests
<1>5. ASSUME p.bids = <<>>, p.end = <<>>, NEW n \in Nat, Len(p.body) = n
      PROVE  TextLength(p) = 0 + n /\ Text(p) = p.body
  BY <1>1, <1>5, PlainText DEF TextLength
<1>6. CASE k \in {"LIN", "LOU", "UNR"}
  <2>1. PICK f \in Field("user"), g \in Field("word") : p = Packet(k, <<f, g>>)
    BY <1>6 DEF RequestPackets, AccountRequests, Packets
  <2>2. TextLength(p) = 0 + 2 /\ Text(p) = <<f, g>>
    <3>1. p.body = <<f, g>> /\ p.bids = <<>> /\ p.end = <<>>
      BY <2>1 DEF Packet
    <3>2. Len(p.body) = 2
      BY <3>1
    <3> QED BY <1>5, <3>1, <3>2
  <2>3. s = <<"space", "user", "space", "word", "delimiter">>
    BY <1>3, <1>6 DEF ReadRequest, ReadAccount
  <2>4. \A i \in 1 .. 2 : i = 1 \/ i = 2
    OBVIOUS
  <2>5. Len(s) = 2 * 2 + 1 /\ s[2 * 2 + 1] = "delimiter"
    BY <2>3
  <2>6. \A i \in 1 .. 2 : s[2 * i - 1] = "space"
    BY <2>3, <2>4
  <2>7. \A i \in 1 .. 2 : s[2 * i] \in (Types \ {"date"}) \cup {"size"}
    BY <2>3, <2>4 DEF Types
  <2>8. \A i \in 1 .. 2 : Text(p)[0 + i][1] = s[2 * i]
    BY <2>2, <2>3, <2>4 DEF Field
  <2>9. ~HasFile(p)
    BY <1>2, <1>6
  <2> QED BY <1>3, <1>4, <2>2, <2>5, <2>6, <2>7, <2>8, <2>9, FieldsRead
<1>7. CASE k \in {"LMA", "LMB", "SRC", "SAS"}
  <2>1. PICK t \in {"user", "auction"} :
          s = <<"space", t, "delimiter">> /\ \E f \in Field(t) : p = Packet(k, <<f>>)
    BY <1>3, <1>7 DEF RequestPackets, MineRequests, AuctionRequests, Packets, Single,
                      ReadRequest, ReadMine, ReadAuction
  <2>2. PICK f \in Field(t) : p = Packet(k, <<f>>)
    BY <2>1
  <2>3. TextLength(p) = 0 + 1 /\ Text(p) = <<f>>
    <3>1. p.body = <<f>> /\ p.bids = <<>> /\ p.end = <<>>
      BY <2>2 DEF Packet
    <3>2. Len(p.body) = 1
      BY <3>1
    <3> QED BY <1>5, <3>1, <3>2
  <2>4. Text(p)[0 + 1][1] = t
    BY <2>3 DEF Field
  <2> QED BY <1>2, <1>3, <1>7, <2>1, <2>3, <2>4, OneField DEF Types
<1>8. CASE k = "LST"
  <2>1. p = Packet(k, <<>>)
    BY <1>8 DEF RequestPackets, ListRequests, Packets
  <2>2. p.body = <<>> /\ p.bids = <<>> /\ p.end = <<>>
    BY <2>1 DEF Packet
  <2>3. TextLength(p) = 0
    BY <1>1, <2>2, PlainText DEF TextLength
  <2> QED BY <1>2, <1>8, <2>3, NoField DEF ReadRequest
<1>9. CASE k = "OPA"
  <2>1. PICK c \in Field("user") \X Field("word") \X Field("word") \X Field("int")
                   \X Field("int") \X Field("file") \X Field("size") : p = WithFile("OPA", c)
    BY <1>9 DEF RequestPackets, OpenRequests, Files
  <2>2. PICK f1 \in Field("user"), f2 \in Field("word"), f3 \in Field("word"),
             f4 \in Field("int"), f5 \in Field("int"), f6 \in Field("file"),
             f7 \in Field("size") : c = <<f1, f2, f3, f4, f5, f6, f7>>
    OBVIOUS
  <2>3. p.body = c /\ p.bids = <<>> /\ p.end = <<>>
    BY <2>1 DEF WithFile, Packet
  <2>4. TextLength(p) = 0 + 7 /\ Text(p) = <<f1, f2, f3, f4, f5, f6, f7>>
    <3>1. Len(p.body) = 7
      BY <2>2, <2>3
    <3> QED BY <1>5, <2>2, <2>3, <3>1
  <2>5. s = <<"space", "user", "space", "word", "space", "word", "space", "int", "space", "int",
              "space", "file", "space", "size", "space", "data", "delimiter">>
    BY <1>3, <1>9 DEF ReadRequest, ReadOpen
  <2>6. Len(s) = 17 /\ s[17] = "delimiter" /\ s[15] = "space" /\ s[16] = "data"
    BY <2>5
  <2>7. \A i \in 1 .. 7 : i = 1 \/ i = 2 \/ i = 3 \/ i = 4 \/ i = 5 \/ i = 6 \/ i = 7
    OBVIOUS
  <2>8. \A i \in 1 .. 7 : s[2 * i - 1] = "space"
    BY <2>5, <2>7
  <2>9. \A i \in 1 .. 7 : s[2 * i] \in (Types \ {"date"}) \cup {"size"}
    BY <2>5, <2>7 DEF Types
  <2>10. \A i \in 1 .. 7 : Text(p)[0 + i][1] = s[2 * i]
    BY <2>4, <2>5, <2>7 DEF Field
  <2>11. HasFile(p)
    BY <1>1, <1>9 DEF HasFile
  <2>12. TextLength(p) - 0 = 7 /\ 7 \in Nat
    BY <2>4
  <2>13. Len(s) = 2 * 7 + 3 /\ s[Len(s)] = "delimiter" /\ s[2 * 7 + 1] = "space" /\ s[2 * 7 + 2] = "data"
    BY <2>6
  <2> QED BY <1>3, <1>4, <2>8, <2>9, <2>10, <2>11, <2>12, <2>13 DEF Reads
<1>10. CASE k = "CLS"
  <2>1. PICK f \in Field("user"), g \in Field("word"), h \in Field("auction") :
          p = Packet(k, <<f, g, h>>)
    BY <1>10 DEF RequestPackets, CloseRequests, Packets
  <2>2. TextLength(p) = 0 + 3 /\ Text(p) = <<f, g, h>>
    <3>1. p.body = <<f, g, h>> /\ p.bids = <<>> /\ p.end = <<>>
      BY <2>1 DEF Packet
    <3>2. Len(p.body) = 3
      BY <3>1
    <3> QED BY <1>5, <3>1, <3>2
  <2>3. s = <<"space", "user", "space", "word", "space", "auction", "delimiter">>
    BY <1>3, <1>10 DEF ReadRequest, ReadClose
  <2>4. \A i \in 1 .. 3 : i = 1 \/ i = 2 \/ i = 3
    OBVIOUS
  <2>5. Len(s) = 2 * 3 + 1 /\ s[2 * 3 + 1] = "delimiter"
    BY <2>3
  <2>6. \A i \in 1 .. 3 : s[2 * i - 1] = "space"
    BY <2>3, <2>4
  <2>7. \A i \in 1 .. 3 : s[2 * i] \in (Types \ {"date"}) \cup {"size"}
    BY <2>3, <2>4 DEF Types
  <2>8. \A i \in 1 .. 3 : Text(p)[0 + i][1] = s[2 * i]
    BY <2>2, <2>3, <2>4 DEF Field
  <2>9. ~HasFile(p)
    BY <1>2, <1>10
  <2> QED BY <1>3, <1>4, <2>2, <2>5, <2>6, <2>7, <2>8, <2>9, FieldsRead
<1>11. CASE k = "BID"
  <2>1. PICK f \in Field("user"), g \in Field("word"), h \in Field("auction"), i \in Field("int") :
          p = Packet(k, <<f, g, h, i>>)
    BY <1>11 DEF RequestPackets, BidRequests, Packets
  <2>2. TextLength(p) = 0 + 4 /\ Text(p) = <<f, g, h, i>>
    <3>1. p.body = <<f, g, h, i>> /\ p.bids = <<>> /\ p.end = <<>>
      BY <2>1 DEF Packet
    <3>2. Len(p.body) = 4
      BY <3>1
    <3> QED BY <1>5, <3>1, <3>2
  <2>3. s = <<"space", "user", "space", "word", "space", "auction", "space", "int", "delimiter">>
    BY <1>3, <1>11 DEF ReadRequest, ReadBid
  <2>4. \A j \in 1 .. 4 : j = 1 \/ j = 2 \/ j = 3 \/ j = 4
    OBVIOUS
  <2>5. Len(s) = 2 * 4 + 1 /\ s[2 * 4 + 1] = "delimiter"
    BY <2>3
  <2>6. \A j \in 1 .. 4 : s[2 * j - 1] = "space"
    BY <2>3, <2>4
  <2>7. \A j \in 1 .. 4 : s[2 * j] \in (Types \ {"date"}) \cup {"size"}
    BY <2>3, <2>4 DEF Types
  <2>8. \A j \in 1 .. 4 : Text(p)[0 + j][1] = s[2 * j]
    BY <2>2, <2>3, <2>4 DEF Field
  <2>9. ~HasFile(p)
    BY <1>2, <1>11
  <2> QED BY <1>3, <1>4, <2>2, <2>5, <2>6, <2>7, <2>8, <2>9, FieldsRead
<1> QED BY <1>6, <1>7, <1>8, <1>9, <1>10, <1>11
        DEF Requests, UdpRequests, TcpRequests, UdpReply, TcpReply

\* The tokens of a row.
LEMMA FlatAt ==
    ASSUME NEW n \in {2, 5}, NEW rows, Len(rows) \in Nat, NEW j \in 1 .. Len(rows), NEW q \in 1 .. n
    PROVE  Flat(rows, n)[n * (j - 1) + q] = rows[j][q]
<1>1. PICK l \in Nat : l = Len(rows)
  OBVIOUS
<1>2. j \in 1 .. l
  BY <1>1
<1>3. n * (j - 1) + q \in 1 .. n * l
  BY <1>1, <1>2
<1>4. (n * (j - 1) + q - 1) \div n + 1 = j /\ ((n * (j - 1) + q - 1) % n) + 1 = q
  BY <1>2
<1>5. Flat(rows, n)[n * (j - 1) + q]
        = rows[(n * (j - 1) + q - 1) \div n + 1][((n * (j - 1) + q - 1) % n) + 1]
  BY <1>1, <1>3 DEF Flat
<1> QED BY <1>4, <1>5

\* A list has an auction and its state in every row.
LEMMA ListFits ==
    ASSUME NEW k \in {"RMA", "RMB", "RLS"}, NEW n \in Nat,
           NEW rows \in [1 .. n -> Field("auction") \X Field("state")],
           NEW p, p = Packet(k, <<Status("OK")>> \o Flat(rows, 2)), WellFormed(p)
    PROVE  /\ TextLength(p) = 1 + 2 * n /\ ListOf(p, n)
           /\ Text(p)[1] = Status("OK")
<1>1. Len(rows) = n
  OBVIOUS
<1>2. /\ Field("auction") \subseteq Values /\ Field("state") \subseteq Values
      /\ Status("OK") \in Values
  BY FieldsAreValues DEF Types, Said, LoginStatuses
<1>3. \A i \in 1 .. Len(rows) : \A j \in 1 .. 2 : rows[i][j] \in Values
  BY <1>1, <1>2
<1>4. PICK t : t = Flat(rows, 2)
  OBVIOUS
<1>5. t \in Seq(Values) /\ Len(t) = 2 * n
  BY <1>1, <1>3, <1>4, FlatIsASeq
<1>6. PICK o : o = <<Status("OK")>>
  OBVIOUS
<1>7. o \in Seq(Values) /\ Len(o) = 1 /\ o[1] = Status("OK")
  BY <1>2, <1>6
<1>8. p.body = o \o t /\ p.bids = <<>> /\ p.end = <<>> /\ ~HasFile(p)
  BY <1>4, <1>6 DEF Packet, HasFile
<1>9. Text(p) = o \o t
  BY <1>8, PlainText
<1>10. /\ Text(p) \in Seq(Values) /\ Len(Text(p)) = Len(o) + Len(t)
       /\ \A i \in 1 .. Len(o) : Text(p)[i] = o[i]
       /\ \A i \in 1 .. Len(t) : Text(p)[Len(o) + i] = t[i]
  <2>1. PICK x : x = Text(p)
    OBVIOUS
  <2>2. x = o \o t
    BY <1>9, <2>1
  <2>3. /\ x \in Seq(Values) /\ Len(x) = Len(o) + Len(t)
        /\ \A i \in 1 .. Len(o) : x[i] = o[i]
        /\ \A i \in 1 .. Len(t) : x[Len(o) + i] = t[i]
    <3>1. o \in Seq(Values) /\ t \in Seq(Values)
      BY <1>5, <1>7
    <3> QED BY <2>2, <3>1, Joined
  <2> QED BY <2>1, <2>3
<1>11. TextLength(p) = 1 + 2 * n /\ Text(p)[1] = Status("OK")
  BY <1>5, <1>7, <1>10 DEF TextLength
<1>12. \A i \in 1 .. 2 * n : Text(p)[1 + i] = t[i]
  BY <1>5, <1>7, <1>10
<1>13. ASSUME NEW j \in 1 .. n
       PROVE  Text(p)[2 * j][1] = "auction" /\ Text(p)[2 * j + 1][1] = "state"
  <2>1. 1 \in 1 .. 2 /\ 2 \in 1 .. 2 /\ j \in 1 .. Len(rows)
    BY <1>1
  <2>2. t[2 * (j - 1) + 1] = rows[j][1] /\ t[2 * (j - 1) + 2] = rows[j][2]
    <3>1. Len(rows) \in Nat
      BY <1>1
    <3>2. \A q \in 1 .. 2 : Flat(rows, 2)[2 * (j - 1) + q] = rows[j][q]
      BY <2>1, <3>1, FlatAt
    <3> QED BY <1>4, <2>1, <3>2
  <2>3. /\ 2 * (j - 1) + 1 \in 1 .. 2 * n /\ 1 + (2 * (j - 1) + 1) = 2 * j
        /\ 2 * (j - 1) + 2 \in 1 .. 2 * n /\ 1 + (2 * (j - 1) + 2) = 2 * j + 1
    OBVIOUS
  <2>4. Text(p)[2 * j] = rows[j][1] /\ Text(p)[2 * j + 1] = rows[j][2]
    BY <1>12, <2>2, <2>3
  <2>5. rows[j][1] \in Field("auction") /\ rows[j][2] \in Field("state")
    OBVIOUS
  <2> QED BY <2>4, <2>5 DEF Field
<1> QED BY <1>8, <1>11, <1>13 DEF ListOf

\* A bid after its mark.
LEMMA FiveInARow ==
    ASSUME NEW a, NEW b, NEW c, NEW d, NEW e
    PROVE  <<a>> \o <<b, c, d, e>> = <<a, b, c, d, e>>
<1> DEFINE S == {a, b, c, d, e}
<1>1. PICK s, t, r : s = <<a>> /\ t = <<b, c, d, e>> /\ r = <<a, b, c, d, e>>
  OBVIOUS
<1>2. /\ s \in Seq(S) /\ Len(s) = 1 /\ t \in Seq(S) /\ Len(t) = 4 /\ r \in Seq(S) /\ Len(r) = 5
      /\ r[1] = s[1] /\ r[2] = t[1] /\ r[3] = t[2] /\ r[4] = t[3] /\ r[5] = t[4]
  BY <1>1
<1>3. PICK u : u = s \o t
  OBVIOUS
<1> HIDE DEF S
<1>4. /\ u \in Seq(S) /\ Len(u) = Len(s) + Len(t)
      /\ \A i \in 1 .. Len(s) : u[i] = s[i]
      /\ \A i \in 1 .. Len(t) : u[Len(s) + i] = t[i]
  <2>1. s \in Seq(S) /\ t \in Seq(S)
    BY <1>2
  <2> QED BY <1>3, <2>1, Joined
<1>5. Len(u) = 5 /\ u[1] = s[1] /\ u[2] = t[1] /\ u[3] = t[2] /\ u[4] = t[3] /\ u[5] = t[4]
  BY <1>2, <1>4
<1>6. \A i \in 1 .. 5 : u[i] = r[i]
  <2>1. \A i \in 1 .. 5 : i = 1 \/ i = 2 \/ i = 3 \/ i = 4 \/ i = 5
    OBVIOUS
  <2> QED BY <1>2, <1>5, <2>1
<1>7. u = r
  BY <1>2, <1>4, <1>5, <1>6, SeqEqual
<1> QED BY <1>1, <1>3, <1>7

\* The rows of a record and its end.
EventRows(p, b) ==
    /\ b \in 0 .. MaxShown /\ Events(p) \in Seq(Values \cup Marks)
    /\ Len(Events(p)) = 5 * b + (IF p.end = <<>> THEN 0 ELSE 3)
    /\ \A j \in 0 .. b - 1 :
        /\ Events(p)[5 * j + 1] = BidMark
        /\ \A i \in 1 .. 4 : Events(p)[5 * j + 1 + i][1] = <<"user", "int", "date", "int">>[i]
    /\ p.end # <<>> =>
        /\ Events(p)[5 * b + 1] = EndMark
        /\ Events(p)[5 * b + 2][1] = "date" /\ Events(p)[5 * b + 3][1] = "int"

\* The events that a record shows come in rows, and the end of the auction last.
LEMMA EventsFit ==
    ASSUME NEW p, WellFormed(p), NEW b, b = Len(LatestBids(p))
    PROVE  EventRows(p, b)
<1> DEFINE S == Values \cup Marks
<1>1. p.bids \in Seq(Bids) /\ p.end \in Ends \cup {<<>>}
  BY DEF WellFormed
<1>2. b \in Nat /\ b <= MaxShown
  <2>1. Len(p.bids) \in Nat /\ MaxShown \in Nat
    BY <1>1, BoundAssumption
  <2>2. PICK c \in Nat : c = IF Len(p.bids) > MaxShown THEN MaxShown ELSE Len(p.bids)
    BY <2>1
  <2>3. c <= MaxShown
    BY <2>1, <2>2
  <2>4. Len(LatestBids(p)) = c
    BY <2>2 DEF LatestBids
  <2> QED BY <2>3, <2>4
<1>3. PICK t, e : t = Flat(LatestBids(p), 5)
                  /\ e = IF p.end = <<>> THEN <<>> ELSE <<EndMark>> \o p.end
  OBVIOUS
<1>4. Events(p) = t \o e /\ t \in Seq(S) /\ e \in Seq(S)
  BY <1>1, <1>3, EventsAreValues
<1>5. /\ Field("user") \subseteq Values /\ Field("int") \subseteq Values
      /\ Field("date") \subseteq Values
  BY FieldsAreValues DEF Types
<1>6. ASSUME NEW j \in 1 .. b
      PROVE  \E f1 \in Field("user"), f2 \in Field("int"), f3 \in Field("date"), f4 \in Field("int") :
                LatestBids(p)[j] = <<BidMark, f1, f2, f3, f4>>
  <2>1. PICK bid \in Bids : LatestBids(p)[j] = <<BidMark>> \o bid
    BY <1>1, ShownAreLatest
  <2>2. PICK f1 \in Field("user"), f2 \in Field("int"), f3 \in Field("date"), f4 \in Field("int") :
          bid = <<f1, f2, f3, f4>>
    BY DEF Bids
  <2>3. <<BidMark>> \o <<f1, f2, f3, f4>> = <<BidMark, f1, f2, f3, f4>>
    BY FiveInARow
  <2> QED BY <2>1, <2>2, <2>3
<1>7. \A j \in 1 .. b : \A q \in 1 .. 5 : LatestBids(p)[j][q] \in S
  <2> SUFFICES ASSUME NEW j \in 1 .. b PROVE \A q \in 1 .. 5 : LatestBids(p)[j][q] \in S
    OBVIOUS
  <2> QED BY <1>5, <1>6 DEF Marks
<1>8. Len(t) = 5 * b
  <2> HIDE DEF S
  <2> QED BY <1>2, <1>3, <1>7, FlatIsASeq
<1>9. p.end = <<>> => Len(e) = 0
  BY <1>3
<1>10. ASSUME p.end # <<>>
       PROVE  Len(e) = 3 /\ e[1] = EndMark /\ e[2][1] = "date" /\ e[3][1] = "int"
  <2>1. PICK f1 \in Field("date"), f2 \in Field("int") : p.end = <<f1, f2>>
    BY <1>1, <1>10 DEF Ends
  <2>2. e = <<EndMark, f1, f2>>
    BY <1>3, <1>10, <2>1, ThreeInARow
  <2> QED BY <2>2 DEF Field
<1> HIDE DEF S
<1>11. /\ Events(p) \in Seq(S) /\ Len(Events(p)) = Len(t) + Len(e)
       /\ \A i \in 1 .. Len(t) : Events(p)[i] = t[i]
       /\ \A i \in 1 .. Len(e) : Events(p)[Len(t) + i] = e[i]
  BY <1>4, Joined
<1>12. /\ \A i \in 1 .. 5 * b : Events(p)[i] = t[i]
       /\ \A i \in 1 .. Len(e) : Events(p)[5 * b + i] = e[i]
  BY <1>8, <1>11
<1>13. ASSUME NEW j \in 0 .. b - 1
       PROVE  /\ Events(p)[5 * j + 1] = BidMark
              /\ \A i \in 1 .. 4 :
                    Events(p)[5 * j + 1 + i][1] = <<"user", "int", "date", "int">>[i]
  <2>1. j + 1 \in 1 .. b
    BY <1>2
  <2>2. PICK f1 \in Field("user"), f2 \in Field("int"), f3 \in Field("date"), f4 \in Field("int") :
          LatestBids(p)[j + 1] = <<BidMark, f1, f2, f3, f4>>
    BY <1>6, <2>1
  <2>3. \A q \in 1 .. 5 : Events(p)[5 * j + q] = LatestBids(p)[j + 1][q]
    <3> SUFFICES ASSUME NEW q \in 1 .. 5
                 PROVE  Events(p)[5 * j + q] = LatestBids(p)[j + 1][q]
      OBVIOUS
    <3>1. 5 * j + q \in 1 .. 5 * b /\ 5 * ((j + 1) - 1) + q = 5 * j + q
      BY <1>2, <2>1
    <3>2. t[5 * ((j + 1) - 1) + q] = LatestBids(p)[j + 1][q]
      <4>1. j + 1 \in 1 .. Len(LatestBids(p)) /\ Len(LatestBids(p)) \in Nat
        BY <1>2, <2>1
      <4> QED BY <1>3, <4>1, FlatAt
    <3> QED BY <1>12, <3>1, <3>2
  <2>4. \A i \in 1 .. 4 : i = 1 \/ i = 2 \/ i = 3 \/ i = 4
    OBVIOUS
  <2>5. \A i \in 1 .. 4 : 1 + i \in 1 .. 5 /\ 5 * j + 1 + i = 5 * j + (1 + i)
    OBVIOUS
  <2>6. Events(p)[5 * j + 1] = BidMark
    BY <2>2, <2>3
  <2>7. \A i \in 1 .. 4 : Events(p)[5 * j + 1 + i] = <<BidMark, f1, f2, f3, f4>>[1 + i]
    BY <2>2, <2>3, <2>5
  <2>8. \A i \in 1 .. 4 : <<BidMark, f1, f2, f3, f4>>[1 + i][1] = <<"user", "int", "date", "int">>[i]
    BY <2>4 DEF Field
  <2> QED BY <2>6, <2>7, <2>8
<1>14. ASSUME p.end # <<>>
       PROVE  /\ Events(p)[5 * b + 1] = EndMark
              /\ Events(p)[5 * b + 2][1] = "date" /\ Events(p)[5 * b + 3][1] = "int"
  <2>1. 1 \in 1 .. Len(e) /\ 2 \in 1 .. Len(e) /\ 3 \in 1 .. Len(e)
    BY <1>10, <1>14
  <2> QED BY <1>10, <1>12, <1>14, <2>1
<1>15. Len(Events(p)) = 5 * b + (IF p.end = <<>> THEN 0 ELSE 3)
  BY <1>8, <1>9, <1>10, <1>11
<1>16. b \in 0 .. MaxShown
  BY <1>2, BoundAssumption
<1>17. Events(p) \in Seq(Values \cup Marks)
  BY <1>11 DEF S
<1> QED BY <1>13, <1>14, <1>15, <1>16, <1>17 DEF EventRows

\* A record has its seven fields and its events.
LEMMA RecordFits ==
    ASSUME NEW c \in RecordBodies, NEW p, WellFormed(p), p.kind = "RRC",
           p.body = <<Status("OK")>> \o c
    PROVE  /\ TextLength(p) \in Nat \ {0} /\ Text(p)[1] = Status("OK")
           /\ \E b \in 0 .. TextLength(p) : RecordOf(p, b)
<1> DEFINE S == Values \cup Sizes \cup Marks
<1>1. PICK b : b = Len(LatestBids(p))
  OBVIOUS
<1>2. /\ b \in 0 .. MaxShown /\ Events(p) \in Seq(Values \cup Marks)
      /\ Len(Events(p)) = 5 * b + (IF p.end = <<>> THEN 0 ELSE 3)
      /\ \A j \in 0 .. b - 1 :
           /\ Events(p)[5 * j + 1] = BidMark
           /\ \A i \in 1 .. 4 :
               Events(p)[5 * j + 1 + i][1] = <<"user", "int", "date", "int">>[i]
      /\ p.end # <<>> =>
           /\ Events(p)[5 * b + 1] = EndMark
           /\ Events(p)[5 * b + 2][1] = "date" /\ Events(p)[5 * b + 3][1] = "int"
  <2>1. EventRows(p, b)
    BY <1>1, EventsFit
  <2> QED BY <2>1 DEF EventRows
<1>4. PICK f1 \in Field("user"), f2 \in Field("word"), f3 \in Field("file"),
           f4 \in Field("int"), f5 \in Field("date"), f6 \in Field("int") :
        c = <<f1, f2, f3, f4, f5, f6>>
  BY DEF RecordBodies
<1>5. /\ Field("user") \subseteq Values /\ Field("int") \subseteq Values
      /\ Field("word") \subseteq Values /\ Field("file") \subseteq Values
      /\ Field("date") \subseteq Values /\ Status("OK") \in Values
  BY FieldsAreValues DEF Types, Said, LoginStatuses
<1>6. PICK o, u, v : o = <<Status("OK")>> /\ u = p.body /\ v = Events(p)
  OBVIOUS
<1>7. o \in Seq(S) /\ Len(o) = 1 /\ o[1] = Status("OK") /\ c \in Seq(S) /\ Len(c) = 6
  BY <1>4, <1>5, <1>6
<1>8. v \in Seq(S)
  BY <1>2, <1>6, SeqMonotonic
<1> HIDE DEF S
<1>9. /\ u \in Seq(S) /\ Len(u) = Len(o) + Len(c)
      /\ \A i \in 1 .. Len(o) : u[i] = o[i]
      /\ \A i \in 1 .. Len(c) : u[Len(o) + i] = c[i]
  <2>1. o \in Seq(S) /\ c \in Seq(S) /\ u = o \o c
    BY <1>6, <1>7
  <2> QED BY <2>1, Joined
<1>10. Len(u) = 7 /\ u[1] = Status("OK") /\ \A i \in 1 .. 6 : u[1 + i] = c[i]
  BY <1>7, <1>9
<1>11. PICK t : t = Text(p)
  OBVIOUS
<1>12. /\ t \in Seq(S) /\ Len(t) = Len(u) + Len(v)
       /\ \A i \in 1 .. Len(u) : t[i] = u[i]
       /\ \A i \in 1 .. Len(v) : t[Len(u) + i] = v[i]
  <2>1. u \in Seq(S) /\ t = u \o v
    BY <1>6, <1>9, <1>11 DEF Text
  <2> QED BY <1>8, <2>1, Joined
<1>13. PICK l \in Nat : l = Len(v)
  BY <1>8
<1>14. /\ Len(t) = 7 + l /\ \A i \in 1 .. 7 : t[i] = u[i]
       /\ \A i \in 1 .. l : t[7 + i] = v[i]
  BY <1>10, <1>12, <1>13
<1>15. l = 5 * b + (IF p.end = <<>> THEN 0 ELSE 3)
  BY <1>2, <1>6, <1>13
<1>16. b \in Nat /\ b <= MaxShown
  BY <1>2, BoundAssumption
<1>17. t[1] = Status("OK") /\ \A i \in 1 .. 6 : t[1 + i] = c[i]
  <2>1. \A i \in 1 .. 6 : 1 + i \in 1 .. 7
    OBVIOUS
  <2>2. 1 \in 1 .. 7
    OBVIOUS
  <2> QED BY <1>10, <1>14, <2>1, <2>2
<1>18. \A i \in 1 .. 6 : t[1 + i][1] = <<"user", "word", "file", "int", "date", "int">>[i]
  <2>1. \A i \in 1 .. 6 : i = 1 \/ i = 2 \/ i = 3 \/ i = 4 \/ i = 5 \/ i = 6
    OBVIOUS
  <2>2. \A i \in 1 .. 6 : c[i][1] = <<"user", "word", "file", "int", "date", "int">>[i]
    BY <1>4, <2>1 DEF Field
  <2> QED BY <1>17, <2>2
<1>19. ASSUME NEW j \in 0 .. b - 1
       PROVE  /\ t[7 + 5 * j + 1] = BidMark
              /\ \A i \in 1 .. 4 : t[7 + 5 * j + 1 + i][1] = <<"user", "int", "date", "int">>[i]
  <2>1. l >= 5 * b
    BY <1>15, <1>16
  <2>2. PICK x : x = 5 * j + 1
    OBVIOUS
  <2>6. x \in 1 .. l /\ 7 + x = 7 + 5 * j + 1
    BY <1>16, <2>1, <2>2
  <2>3. \A i \in 1 .. 4 : 5 * j + 1 + i \in 1 .. l /\ 7 + (5 * j + 1 + i) = 7 + 5 * j + 1 + i
    BY <1>16, <2>1
  <2>4. t[7 + 5 * j + 1] = v[5 * j + 1]
    <3>1. t[7 + x] = v[x]
      BY <1>14, <2>6
    <3> QED BY <2>2, <2>6, <3>1
  <2>5. \A i \in 1 .. 4 : t[7 + 5 * j + 1 + i] = v[5 * j + 1 + i]
    BY <1>14, <2>3
  <2> QED BY <1>2, <1>6, <2>4, <2>5
<1>20. ASSUME p.end # <<>>
       PROVE  /\ t[7 + 5 * b + 1] = EndMark
              /\ t[7 + 5 * b + 2][1] = "date" /\ t[7 + 5 * b + 3][1] = "int"
  <2>1. l = 5 * b + 3
    BY <1>15, <1>20
  <2>2. \A i \in 1 .. 3 : 5 * b + i \in 1 .. l /\ 7 + (5 * b + i) = 7 + 5 * b + i
    BY <1>16, <2>1
  <2>3. \A i \in 1 .. 3 : t[7 + 5 * b + i] = v[5 * b + i]
    BY <1>14, <2>2
  <2> QED BY <1>2, <1>6, <1>20, <2>3
<1>21. Len(t) \in Nat \ {0} /\ b \in 0 .. Len(t) /\ Len(t) = 7 + 5 * b + (IF p.end = <<>> THEN 0 ELSE 3)
  BY <1>14, <1>15, <1>16
<1>22. ~HasFile(p)
  BY DEF HasFile
<1>23. TextLength(p) = Len(t)
  BY <1>11 DEF TextLength
<1>24. RecordOf(p, b)
  BY <1>2, <1>11, <1>17, <1>18, <1>19, <1>20, <1>21, <1>22, <1>23 DEF RecordOf
<1> QED BY <1>11, <1>17, <1>21, <1>23, <1>24

\* Two tokens, joined.
LEMMA TwoInARow ==
    ASSUME NEW a, NEW b
    PROVE  <<a>> \o <<b>> = <<a, b>>
<1> DEFINE S == {a, b}
<1>1. PICK s, t, r : s = <<a>> /\ t = <<b>> /\ r = <<a, b>>
  OBVIOUS
<1>2. /\ s \in Seq(S) /\ Len(s) = 1 /\ t \in Seq(S) /\ Len(t) = 1 /\ r \in Seq(S) /\ Len(r) = 2
      /\ r[1] = s[1] /\ r[2] = t[1]
  BY <1>1
<1>3. PICK u : u = s \o t
  OBVIOUS
<1> HIDE DEF S
<1>4. /\ u \in Seq(S) /\ Len(u) = Len(s) + Len(t)
      /\ \A i \in 1 .. Len(s) : u[i] = s[i]
      /\ \A i \in 1 .. Len(t) : u[Len(s) + i] = t[i]
  <2>1. s \in Seq(S) /\ t \in Seq(S)
    BY <1>2
  <2> QED BY <1>3, <2>1, Joined
<1>5. Len(u) = 2 /\ u[1] = s[1] /\ u[2] = t[1]
  BY <1>2, <1>4
<1>6. \A i \in 1 .. 2 : u[i] = r[i]
  <2>1. \A i \in 1 .. 2 : i = 1 \/ i = 2
    OBVIOUS
  <2> QED BY <1>2, <1>5, <2>1
<1>7. u = r
  BY <1>2, <1>4, <1>5, <1>6, SeqEqual
<1> QED BY <1>1, <1>3, <1>7

\* The client's calls are those that the server's answer needs, for every status.
LEMMA AnswerFits ==
    ASSUME NEW k \in ReplyKinds, NEW p \in ReplyPackets(k)
    PROVE  ReplyFits(p)
<1>1. WellFormed(p) /\ p.kind = k
  BY RepliesAreWellFormed
<1>2. /\ k \in {"RLI", "RLO", "RUR", "RMA", "RMB", "RLS", "RRC", "ROA", "RCL", "RSA", "RBD"}
      /\ k \in DOMAIN Statuses /\ k # "OPA"
  BY DEF ReplyKinds, ReplyTo, Requests, UdpRequests, TcpRequests, UdpReply, TcpReply,
         Statuses
<1>3. CASE p \in {Packet(k, <<Status(s)>>) : s \in Statuses[k] \ {"OK"}}
  <2>1. PICK s \in Statuses[k] \ {"OK"} : p = Packet(k, <<Status(s)>>)
    BY <1>3
  <2>2. p.body = <<Status(s)>> /\ p.bids = <<>> /\ p.end = <<>>
    BY <2>1 DEF Packet
  <2>3. Text(p) = <<Status(s)>>
    BY <1>1, <2>2, PlainText
  <2>4. Text(p)[1] = Status(s) /\ TextLength(p) = 1
    BY <2>3 DEF TextLength
  <2>5. Status(s) # Status("OK")
    BY DEF Status
  <2>6. ~HasFile(p)
    BY <1>1, <1>2, <2>2, <2>5 DEF HasFile
  <2>7. Reads(<<"delimiter">>, p, 1)
    BY <2>4, <2>6, NoField
  <2> QED BY <1>1, <2>4, <2>7 DEF ReplyFits
<1>4. CASE p \in OkPackets(k) /\ "OK" \in Statuses[k]
  <2> SUFFICES TextLength(p) \in Nat \ {0} /\ Text(p)[1] = Status("OK") /\ OkFits(p)
    BY <1>1, <1>4 DEF ReplyFits
  <2>1. CASE k \in {"RMA", "RMB", "RLS"}
    <3>1. PICK n \in 1 .. MaxRows : \E rows \in Rows(n) : p = Packet(k, <<Status("OK")>> \o Flat(rows, 2))
      BY <1>4, <2>1 DEF OkPackets, Packets, Lists, Ok
    <3>2. PICK rows \in [1 .. n -> Field("auction") \X Field("state")] :
            p = Packet(k, <<Status("OK")>> \o Flat(rows, 2))
      BY <3>1 DEF Rows
    <3>3. n \in Nat
      BY BoundAssumption
    <3>4. TextLength(p) = 1 + 2 * n /\ ListOf(p, n) /\ Text(p)[1] = Status("OK")
      BY <1>1, <2>1, <3>2, <3>3, ListFits
    <3>5. TextLength(p) \in Nat \ {0} /\ n \in 0 .. TextLength(p)
      BY <3>3, <3>4
    <3> QED BY <1>1, <2>1, <3>4, <3>5 DEF OkFits
  <2>2. CASE k = "RRC"
    <3>1. PICK b \in Ok(RecordBodies), bids \in BidLists, end \in Ends \cup {<<>>} :
            p = Record(b, bids, end)
      BY <1>4, <2>2 DEF OkPackets, Records
    <3>2. PICK c \in RecordBodies : b = <<Status("OK")>> \o c
      BY DEF Ok
    <3>3. /\ TextLength(p) \in Nat \ {0} /\ Text(p)[1] = Status("OK")
          /\ \E r \in 0 .. TextLength(p) : RecordOf(p, r)
      <4>1. p.kind = "RRC" /\ p.body = <<Status("OK")>> \o c
        BY <3>1, <3>2 DEF Record, Packet
      <4> QED BY <1>1, <4>1, RecordFits
    <3> QED BY <1>1, <2>2, <3>3 DEF OkFits
  <2>3. CASE k = "ROA"
    <3>1. PICK f \in Field("auction") : p = Packet(k, <<Status("OK")>> \o <<f>>)
      BY <1>4, <2>3 DEF OkPackets, Packets, Ok, Single
    <3>2. <<Status("OK")>> \o <<f>> = <<Status("OK"), f>>
      BY TwoInARow
    <3>3. p.body = <<Status("OK"), f>> /\ p.bids = <<>> /\ p.end = <<>>
      BY <3>1, <3>2 DEF Packet
    <3>4. Text(p) = <<Status("OK"), f>>
      BY <1>1, <3>3, PlainText
    <3>5. TextLength(p) = 1 + 1 /\ Text(p)[1] = Status("OK") /\ Text(p)[1 + 1][1] = "auction"
      BY <3>4 DEF TextLength, Field
    <3>6. ~HasFile(p)
      BY <1>1, <2>3 DEF HasFile
    <3>7. Reads(<<"space", "auction", "delimiter">>, p, 1)
      BY <3>5, <3>6, OneField DEF Types
    <3>8. ReadOk(p.kind) = <<"space", "auction", "delimiter">>
      BY <1>1, <2>3 DEF ReadOk, ReadOpened
    <3> QED BY <1>1, <2>3, <3>5, <3>7, <3>8 DEF OkFits
  <2>4. CASE k = "RSA"
    <3>1. PICK b \in Field("file") \X Field("size") : p = WithFile(k, <<Status("OK")>> \o b)
      BY <1>4, <2>4 DEF OkPackets, Files, Ok
    <3>2. PICK f \in Field("file"), g \in Field("size") : b = <<f, g>>
      OBVIOUS
    <3>3. <<Status("OK")>> \o b = <<Status("OK"), f, g>>
      BY <3>2, ThreeInARow
    <3>4. p.body = <<Status("OK"), f, g>> /\ p.bids = <<>> /\ p.end = <<>>
      BY <3>1, <3>3 DEF WithFile, Packet
    <3>5. Text(p) = <<Status("OK"), f, g>>
      BY <1>1, <3>4, PlainText
    <3>6. TextLength(p) = 3 /\ Text(p)[1] = Status("OK")
      BY <3>5 DEF TextLength
    <3>7. HasFile(p)
      BY <1>1, <2>4, <3>4 DEF HasFile
    <3>8. PICK s : s = <<"space", "file", "space", "size", "space", "data", "delimiter">>
      OBVIOUS
    <3>9. \A i \in 1 .. 2 : i = 1 \/ i = 2
      OBVIOUS
    <3>10. \A i \in 1 .. 2 : s[2 * i - 1] = "space" /\ s[2 * i] \in (Types \ {"date"}) \cup {"size"}
      BY <3>8, <3>9 DEF Types
    <3>11. \A i \in 1 .. 2 : Text(p)[1 + i][1] = s[2 * i]
      BY <3>5, <3>8, <3>9 DEF Field
    <3>12. /\ Len(s) = 2 * 2 + 3 /\ s[2 * 2 + 1] = "space" /\ s[2 * 2 + 2] = "data"
           /\ s[Len(s)] = "delimiter"
      BY <3>8
    <3>13. s \in Seq(StreamCalls \cup DatagramCalls)
      BY <3>8 DEF StreamCalls, DatagramCalls
    <3>14. TextLength(p) - 1 = 2 /\ 2 \in Nat
      BY <3>6
    <3>15. Reads(s, p, 1)
      BY <3>7, <3>10, <3>11, <3>12, <3>13, <3>14 DEF Reads
    <3>16. ReadOk(p.kind) = s
      BY <1>1, <2>4, <3>8 DEF ReadOk, ReadAsset
    <3> QED BY <1>1, <2>4, <3>6, <3>15, <3>16 DEF OkFits
  <2>5. CASE k \notin {"RMA", "RMB", "RLS", "RRC", "ROA", "RSA"}
    <3>1. p = Packet(k, <<Status("OK")>>)
      BY <1>4, <2>5 DEF OkPackets
    <3>2. p.body = <<Status("OK")>> /\ p.bids = <<>> /\ p.end = <<>>
      BY <3>1 DEF Packet
    <3>3. Text(p) = <<Status("OK")>>
      BY <1>1, <3>2, PlainText
    <3>4. TextLength(p) = 1 /\ Text(p)[1] = Status("OK")
      BY <3>3 DEF TextLength
    <3>5. ~HasFile(p)
      BY <1>1, <1>2, <2>5 DEF HasFile
    <3>6. Reads(<<"delimiter">>, p, 1)
      BY <3>4, <3>5, NoField
    <3>7. ReadOk(p.kind) = <<"delimiter">>
      BY <1>1, <2>5 DEF ReadOk
    <3> QED BY <1>1, <2>5, <3>4, <3>6, <3>7 DEF OkFits
  <2> QED BY <2>1, <2>2, <2>3, <2>4, <2>5
<1> QED BY <1>3, <1>4 DEF ReplyPackets

-----------------------------------------------------------------------------
(* What is left to find                                                    *)

\* The calls that decide what is called next.
Deciding == {"status", "data", "auctions", "events", "delimiter"}

\* The calls after the n-th, without the first.
LEMMA RestOfTail ==
    ASSUME NEW S, NEW s \in Seq(S), s # <<>>, NEW n \in 1 .. Len(s)
    PROVE  SubSeq(Tail(s), (n - 1) + 1, Len(Tail(s))) = SubSeq(s, n + 1, Len(s))
<1>1. PICK h \in Nat : h = Len(s)
  OBVIOUS
<1>2. h > 0 /\ n \in 1 .. h
  BY <1>1
<1>3. PICK t : t = Tail(s)
  OBVIOUS
<1>4. t \in Seq(S) /\ Len(t) = h - 1 /\ \A i \in 1 .. h - 1 : t[i] = s[i + 1]
  BY <1>1, <1>3, HeadTailProperties
<1>5. PICK u, v : u = SubSeq(t, n, h - 1) /\ v = SubSeq(s, n + 1, h)
  OBVIOUS
<1>6. /\ u \in Seq(S) /\ Len(u) = (IF n <= h - 1 THEN (h - 1) - n + 1 ELSE 0)
      /\ \A i \in 1 .. (h - 1) - n + 1 : u[i] = t[n + i - 1]
  <2>1. n \in Int /\ h - 1 \in Int
    BY <1>2
  <2>2. \A i \in n .. h - 1 : t[i] \in S
    <3>1. \A i \in n .. h - 1 : i \in 1 .. Len(t)
      BY <1>2, <1>4
    <3> QED BY <1>4, <3>1, ElementOfSeq
  <2> QED BY <1>5, <2>1, <2>2, SubSeqProperties
<1>7. /\ v \in Seq(S) /\ Len(v) = (IF n + 1 <= h THEN h - (n + 1) + 1 ELSE 0)
      /\ \A i \in 1 .. h - (n + 1) + 1 : v[i] = s[(n + 1) + i - 1]
  <2>1. n + 1 \in Int /\ h \in Int
    BY <1>2
  <2>2. \A i \in n + 1 .. h : s[i] \in S
    BY <1>1, <1>2, ElementOfSeq
  <2> QED BY <1>5, <2>1, <2>2, SubSeqProperties
<1>8. Len(u) = h - n /\ Len(v) = h - n
  BY <1>2, <1>6, <1>7
<1>9. \A i \in 1 .. h - n : u[i] = v[i]
  <2> SUFFICES ASSUME NEW i \in 1 .. h - n PROVE u[i] = v[i]
    OBVIOUS
  <2>1. i \in 1 .. (h - 1) - n + 1 /\ i \in 1 .. h - (n + 1) + 1
    BY <1>2
  <2>2. n + i - 1 \in 1 .. h - 1 /\ (n + i - 1) + 1 = (n + 1) + i - 1
    BY <1>2
  <2> QED BY <1>4, <1>6, <1>7, <2>1, <2>2
<1>10. u = v
  BY <1>6, <1>7, <1>8, <1>9, SeqEqual
<1>11. (n - 1) + 1 = n
  BY <1>2
<1> QED BY <1>1, <1>3, <1>4, <1>5, <1>10, <1>11

\* What the next call takes, when it decides nothing.
LEMMA NextTakes ==
    ASSUME NEW p, NEW k \in Nat, NEW s, Finds(p, s, k), s # <<>>
    PROVE  /\ s \in Seq(StreamCalls \cup DatagramCalls)
           /\ Head(s) \notin Deciding =>
                /\ Takes(p, Head(s), k + 1)
                /\ Head(s) = "date" => Takes(p, "int", k + 3)
           /\ Head(s) \in Deciding => Decides(p, s, k)
<1>1. PICK n \in 0 .. Len(Written(p)), e \in 0 .. Len(Written(p)) :
        Matches(p, s, k, n, e) /\ Decides(p, SubSeq(s, n + 1, Len(s)), e)
  BY DEF Finds
<1>2. /\ s \in Seq(StreamCalls \cup DatagramCalls) /\ n \in 0 .. Len(s)
      /\ \A j \in 1 .. n - 1 : Takes(p, s[j], k + j)
      /\ n > 0 => Takes(p, s[n], e)
      /\ e = IF n >= 2 /\ s[n - 1] = "date" THEN k + n + 1 ELSE k + n
      /\ \A j \in 1 .. n : s[j] = "date" => j = n - 1 /\ s[n] = "int"
  BY <1>1 DEF Matches
<1>3. PICK h \in Nat : h = Len(s)
  BY <1>2
<1>4. Head(s) = s[1] /\ h >= 1 /\ n \in 0 .. h
  BY <1>2, <1>3, HeadTailProperties
<1>5. CASE n = 0
  <2>1. SubSeq(s, 1, Len(s)) = s
    BY <1>2, SubSeqFull
  <2>2. Decides(p, s, k)
    <3>1. n + 1 = 1 /\ e = k
      BY <1>2, <1>5
    <3> QED BY <1>1, <2>1, <3>1
  <2>3. Head(s) \in Deciding
    BY <2>2 DEF Decides, AtStatus, AtFile, AtRow, AtEvent, AtNewline, Deciding
  <2> QED BY <1>2, <2>2, <2>3
<1>6. CASE n = 1
  <2>1. e = k + 1 /\ Takes(p, s[1], e)
    BY <1>2, <1>6
  <2>2. s[1] # "date"
    BY <1>2, <1>6
  <2>3. s[1] \notin Deciding
    BY <2>1 DEF Takes, Deciding, Types
  <2> QED BY <1>2, <1>4, <2>1, <2>2, <2>3
<1>7. CASE n >= 2
  <2>1. 1 \in 1 .. n - 1 /\ 1 \in 1 .. n
    BY <1>4, <1>7
  <2>2. Takes(p, s[1], k + 1)
    BY <1>2, <2>1
  <2>3. s[1] = "date" => Takes(p, "int", k + 3)
    <3> SUFFICES ASSUME s[1] = "date" PROVE Takes(p, "int", k + 3)
      OBVIOUS
    <3>1. 1 = n - 1 /\ s[n] = "int"
      BY <1>2, <2>1
    <3>2. n = 2 /\ e = k + n + 1
      BY <1>2, <1>4, <1>7, <3>1
    <3>3. e = k + 3 /\ n > 0
      BY <3>2
    <3> QED BY <1>2, <3>1, <3>3
  <2>4. s[1] \notin Deciding
    BY <2>2 DEF Takes, Deciding, Types
  <2> QED BY <1>2, <1>4, <2>2, <2>3, <2>4
<1> QED BY <1>4, <1>5, <1>6, <1>7

\* The calls that are left fit what is left.
LEMMA RestFinds ==
    ASSUME NEW p, Len(Written(p)) \in Nat, NEW k \in Nat, NEW s, Finds(p, s, k), s # <<>>,
           Head(s) \notin Deciding
    PROVE  Finds(p, Tail(s), IF Head(s) = "date" THEN k + 2 ELSE k + 1)
<1>1. PICK n \in 0 .. Len(Written(p)), e \in 0 .. Len(Written(p)) :
        Matches(p, s, k, n, e) /\ Decides(p, SubSeq(s, n + 1, Len(s)), e)
  BY DEF Finds
<1>2. PICK C : C = StreamCalls \cup DatagramCalls
  OBVIOUS
<1>3. /\ s \in Seq(C) /\ n \in 0 .. Len(s)
      /\ \A j \in 1 .. n - 1 : Takes(p, s[j], k + j)
      /\ n > 0 => Takes(p, s[n], e)
      /\ e = IF n >= 2 /\ s[n - 1] = "date" THEN k + n + 1 ELSE k + n
      /\ \A j \in 1 .. n : s[j] = "date" => j = n - 1 /\ s[n] = "int"
  BY <1>1, <1>2 DEF Matches
<1>4. PICK h \in Nat : h = Len(s)
  BY <1>3
<1>5. PICK t : t = Tail(s)
  OBVIOUS
<1>6. /\ Head(s) = s[1] /\ h >= 1 /\ n \in 0 .. h
      /\ t \in Seq(C) /\ Len(t) = h - 1 /\ \A i \in 1 .. h - 1 : t[i] = s[i + 1]
  BY <1>3, <1>4, <1>5, HeadTailProperties
<1>7. n # 0
  <2> SUFFICES ASSUME n = 0 PROVE FALSE
    OBVIOUS
  <2>1. SubSeq(s, 1, Len(s)) = s
    BY <1>3, SubSeqFull
  <2>2. n + 1 = 1
    OBVIOUS
  <2>3. Decides(p, s, e)
    BY <1>1, <2>1, <2>2
  <2> QED BY <2>3 DEF Decides, AtStatus, AtFile, AtRow, AtEvent, AtNewline, Deciding
<1>8. PICK q \in Nat : q = n - 1
  BY <1>6, <1>7
<1>9. q \in 0 .. Len(Written(p)) /\ q \in 0 .. Len(t) /\ n = q + 1 /\ n \in 1 .. Len(s)
  <2>1. n <= Len(Written(p))
    OBVIOUS
  <2> QED BY <1>4, <1>6, <1>7, <1>8, <2>1
<1>10. SubSeq(t, q + 1, Len(t)) = SubSeq(s, n + 1, Len(s))
  BY <1>3, <1>5, <1>8, <1>9, RestOfTail
<1>11. PICK k2 \in Nat : k2 = IF Head(s) = "date" THEN k + 2 ELSE k + 1
  OBVIOUS
<1>12. Head(s) = "date" => q = 1 /\ s[2] = "int" /\ t[1] = "int"
  <2> SUFFICES ASSUME s[1] = "date" PROVE q = 1 /\ s[2] = "int" /\ t[1] = "int"
    BY <1>6
  <2>1. 1 \in 1 .. n
    BY <1>9
  <2>2. 1 = n - 1 /\ s[n] = "int"
    BY <1>3, <2>1
  <2>3. n = 2 /\ q = 1 /\ 1 \in 1 .. h - 1 /\ 1 + 1 = 2
    BY <1>6, <1>8, <2>2
  <2> QED BY <1>6, <2>2, <2>3
<1>13. ASSUME NEW j \in 1 .. q - 1 PROVE Takes(p, t[j], k2 + j)
  <2>1. Head(s) # "date"
    BY <1>8, <1>12, <1>13
  <2>2. k2 + j = k + (j + 1) /\ j + 1 \in 1 .. n - 1 /\ j \in 1 .. h - 1
    BY <1>6, <1>8, <1>11, <2>1
  <2> QED BY <1>3, <1>6, <2>2
<1>14. ASSUME q > 0 PROVE Takes(p, t[q], e)
  <2>1. q \in 1 .. h - 1 /\ q + 1 = n /\ n > 0
    BY <1>6, <1>8, <1>14
  <2>2. t[q] = s[n]
    BY <1>6, <2>1
  <2> QED BY <1>3, <2>1, <2>2
<1>15. e = IF q >= 2 /\ t[q - 1] = "date" THEN k2 + q + 1 ELSE k2 + q
  <2>1. CASE Head(s) = "date"
    <3>1. q = 1 /\ n = 2 /\ n - 1 = 1
      BY <1>8, <1>9, <1>12, <2>1
    <3>2. s[n - 1] = "date"
      BY <1>6, <2>1, <3>1
    <3>3. e = k + n + 1
      BY <1>3, <3>1, <3>2
    <3>4. e = k2 + q
      BY <1>11, <2>1, <3>1, <3>3
    <3> QED BY <3>1, <3>4
  <2>2. CASE Head(s) # "date"
    <3>1. k2 + q = k + n
      BY <1>9, <1>11, <2>2
    <3>2. k2 + q + 1 = k + n + 1
      BY <3>1
    <3>3. q >= 2 => t[q - 1] = s[n - 1] /\ n >= 2
      <4> SUFFICES ASSUME q >= 2 PROVE t[q - 1] = s[n - 1] /\ n >= 2
        OBVIOUS
      <4>1. q - 1 \in 1 .. h - 1 /\ (q - 1) + 1 = n - 1 /\ n >= 2
        BY <1>6, <1>9
      <4> QED BY <1>6, <4>1
    <3>4. n >= 2 /\ s[n - 1] = "date" => q >= 2
      <4> SUFFICES ASSUME n >= 2, s[n - 1] = "date", q < 2 PROVE FALSE
        BY <1>8
      <4>1. n - 1 = 1
        BY <1>9
      <4> QED BY <1>6, <2>2, <4>1
    <3> QED BY <1>3, <3>1, <3>2, <3>3, <3>4
  <2> QED BY <2>1, <2>2
<1>16. ASSUME NEW j \in 1 .. q, t[j] = "date" PROVE j = q - 1 /\ t[q] = "int"
  <2>1. j \in 1 .. h - 1 /\ j + 1 \in 1 .. n /\ q \in 1 .. h - 1 /\ q + 1 = n
    BY <1>6, <1>9
  <2>2. s[j + 1] = "date" /\ t[q] = s[n]
    BY <1>6, <1>16, <2>1
  <2>3. j + 1 = n - 1 /\ s[n] = "int"
    BY <1>3, <2>1, <2>2
  <2>4. j = q - 1
    BY <1>9, <2>3
  <2> QED BY <2>2, <2>3, <2>4
<1>17. Matches(p, t, k2, q, e)
  BY <1>2, <1>6, <1>9, <1>13, <1>14, <1>15, <1>16 DEF Matches
<1>18. Finds(p, t, k2)
  BY <1>1, <1>9, <1>10, <1>17 DEF Finds
<1> QED BY <1>5, <1>11, <1>18

\* The second of two joined sequences.
LEMMA RestOfBoth ==
    ASSUME NEW S, NEW u \in Seq(S), NEW s \in Seq(S), NEW n \in Nat, NEW l \in Nat, l = Len(s),
           Len(u) = n + l, \A i \in 1 .. l : u[n + i] = s[i]
    PROVE  SubSeq(u, n + 1, Len(u)) = s
<1>9. PICK a \in Int, b \in Int : a = n + 1 /\ b = n + l
  OBVIOUS
<1>4. PICK v : v = SubSeq(u, a, b)
  OBVIOUS
<1>5. /\ v \in Seq(S) /\ Len(v) = (IF a <= b THEN b - a + 1 ELSE 0)
      /\ \A i \in 1 .. b - a + 1 : v[i] = u[a + i - 1]
  <2>1. \A i \in a .. b : i \in 1 .. Len(u)
    BY <1>9
  <2>2. \A i \in a .. b : u[i] \in S
    BY <2>1, ElementOfSeq
  <2> QED BY <1>4, <2>2, SubSeqProperties
<1>6. Len(v) = l
  BY <1>5, <1>9
<1>7. \A i \in 1 .. l : v[i] = s[i]
  <2> SUFFICES ASSUME NEW i \in 1 .. l PROVE v[i] = s[i]
    OBVIOUS
  <2>1. i \in 1 .. b - a + 1 /\ a + i - 1 = n + i
    BY <1>9
  <2> QED BY <1>5, <2>1
<1>8. v = s
  BY <1>5, <1>6, <1>7, SeqEqual
<1> QED BY <1>4, <1>8, <1>9

\* What follows the first part of two sequences joined is the second.
LEMMA RestOfJoined ==
    ASSUME NEW S, NEW c \in Seq(S), NEW s \in Seq(S)
    PROVE  SubSeq(c \o s, Len(c) + 1, Len(c \o s)) = s
<1>1. PICK u : u = c \o s
  OBVIOUS
<1>2. PICK n \in Nat, l \in Nat : n = Len(c) /\ l = Len(s)
  OBVIOUS
<1>3. u \in Seq(S) /\ Len(u) = Len(c) + Len(s) /\ \A i \in 1 .. Len(s) : u[Len(c) + i] = s[i]
  BY <1>1, Joined
<1>4. Len(u) = n + l /\ \A i \in 1 .. l : u[n + i] = s[i]
  BY <1>2, <1>3
<1>5. SubSeq(u, n + 1, Len(u)) = s
  BY <1>2, <1>3, <1>4, RestOfBoth
<1> QED BY <1>1, <1>2, <1>5

\* Calls that come before those that decide.
LEMMA MoreFinds ==
    ASSUME NEW p, Len(Written(p)) \in Nat, NEW k \in Nat, NEW c, c # <<>>, NEW n, n = Len(c),
           NEW e, Matches(p, c, k, n, e),
           NEW s \in Seq(StreamCalls \cup DatagramCalls), Decides(p, s, e)
    PROVE  Finds(p, c \o s, k)
<1>1. PICK C : C = StreamCalls \cup DatagramCalls
  OBVIOUS
<1>2. /\ c \in Seq(C)
      /\ \A j \in 1 .. n - 1 : Takes(p, c[j], k + j)
      /\ n > 0 => Takes(p, c[n], e)
      /\ e = IF n >= 2 /\ c[n - 1] = "date" THEN k + n + 1 ELSE k + n
      /\ \A j \in 1 .. n : c[j] = "date" => j = n - 1 /\ c[n] = "int"
  BY <1>1 DEF Matches
<1>3. n \in Nat /\ n > 0
  BY <1>2, EmptySeq
<1>4. PICK u : u = c \o s
  OBVIOUS
<1>5. /\ u \in Seq(C) /\ Len(u) = Len(c) + Len(s)
      /\ \A i \in 1 .. Len(c) : u[i] = c[i]
      /\ \A i \in 1 .. Len(s) : u[Len(c) + i] = s[i]
  BY <1>1, <1>2, <1>4, Joined
<1>6. /\ \A i \in 1 .. n : u[i] = c[i]
      /\ n \in 0 .. Len(u)
  <2>1. PICK l \in Nat : l = Len(s)
    OBVIOUS
  <2>2. Len(u) = n + l
    BY <1>5, <2>1
  <2> QED BY <1>3, <1>5, <2>2
<1>7. SubSeq(u, n + 1, Len(u)) = s
  <2>1. c \in Seq(C) /\ s \in Seq(C)
    BY <1>1, <1>2
  <2>2. SubSeq(c \o s, Len(c) + 1, Len(c \o s)) = s
    BY <2>1, RestOfJoined
  <2> QED BY <1>4, <2>2
<1>8. Takes(p, c[n], e)
  BY <1>2, <1>3
<1>9. e \in 4 .. Len(Written(p))
  BY <1>8 DEF Takes
<1>10. e \in 0 .. Len(Written(p)) /\ n \in 0 .. Len(Written(p))
  <2>1. e >= n
    BY <1>2, <1>3
  <2> QED BY <1>3, <1>9, <2>1
<1>11. Matches(p, u, k, n, e)
  <2>1. \A j \in 1 .. n - 1 : j \in 1 .. n
    BY <1>3
  <2>2. n \in 1 .. n
    BY <1>3
  <2>3. n >= 2 => n - 1 \in 1 .. n
    BY <1>3
  <2>4. \A j \in 1 .. n - 1 : Takes(p, u[j], k + j)
    BY <1>2, <1>6, <2>1
  <2>5. Takes(p, u[n], e)
    BY <1>6, <1>8, <2>2
  <2>6. e = IF n >= 2 /\ u[n - 1] = "date" THEN k + n + 1 ELSE k + n
    BY <1>2, <1>6, <2>3
  <2>7. \A j \in 1 .. n : u[j] = "date" => j = n - 1 /\ u[n] = "int"
    BY <1>2, <1>6, <2>2
  <2> QED BY <1>1, <1>5, <1>6, <2>4, <2>5, <2>6, <2>7 DEF Matches
<1>12. Finds(p, u, k)
  BY <1>7, <1>10, <1>11 DEF Finds
<1> QED BY <1>4, <1>12

\* What takes the i-th field and the space before it.
LEMMA TakesText ==
    ASSUME NEW p, WellFormed(p), NEW i \in 1 .. TextLength(p)
    PROVE  /\ Takes(p, "space", 2 + 2 * i)
           /\ \A t \in Types \cup {"size"} : Text(p)[i][1] = t => Takes(p, t, 3 + 2 * i)
           /\ Text(p)[i] \in Marks => Takes(p, "mark", 3 + 2 * i)
           /\ i < TextLength(p) => Takes(p, "space", 4 + 2 * i)
BY TextStands DEF Takes

\* One more row of a list.
LEMMA RowFinds ==
    ASSUME NEW p, WellFormed(p), NEW r, ListOf(p, r), NEW j \in 0 .. r - 1
    PROVE  Finds(p, <<"space", "auction", "space", "state">> \o <<"auctions", "delimiter">>, 5 + 4 * j)
<1>1. r \in Nat /\ TextLength(p) = 1 + 2 * r
  BY DEF ListOf
<1>2. PICK k \in Nat, e \in Nat : k = 5 + 4 * j /\ e = 5 + 4 * (j + 1)
  <2>1. 5 + 4 * j \in Nat /\ 5 + 4 * (j + 1) \in Nat
    BY <1>1
  <2> QED BY <2>1
<1>3. PICK c, s : c = <<"space", "auction", "space", "state">> /\ s = <<"auctions", "delimiter">>
  OBVIOUS
<1>4. /\ 2 * (j + 1) \in 1 .. TextLength(p) /\ 2 * (j + 1) + 1 \in 1 .. TextLength(p)
      /\ j + 1 \in 1 .. r /\ j + 1 \in 0 .. r /\ r \in 0 .. TextLength(p)
  BY <1>1
<1>5. Text(p)[2 * (j + 1)][1] = "auction" /\ Text(p)[2 * (j + 1) + 1][1] = "state"
  BY <1>4 DEF ListOf
<1>6. /\ Takes(p, "space", 2 + 2 * (2 * (j + 1))) /\ Takes(p, "auction", 3 + 2 * (2 * (j + 1)))
      /\ Takes(p, "space", 2 + 2 * (2 * (j + 1) + 1)) /\ Takes(p, "state", 3 + 2 * (2 * (j + 1) + 1))
  BY <1>4, <1>5, TakesText DEF Types
<1>7. /\ 2 + 2 * (2 * (j + 1)) = k + 1 /\ 3 + 2 * (2 * (j + 1)) = k + 2
      /\ 2 + 2 * (2 * (j + 1) + 1) = k + 3 /\ 3 + 2 * (2 * (j + 1) + 1) = k + 4 /\ e = k + 4
  BY <1>1, <1>2
<1>8. /\ Takes(p, c[1], k + 1) /\ Takes(p, c[2], k + 2) /\ Takes(p, c[3], k + 3)
      /\ Takes(p, c[4], e)
  BY <1>3, <1>6, <1>7
<1>9. Matches(p, c, k, 4, e)
  <2>1. \A i \in 1 .. 4 : i = 1 \/ i = 2 \/ i = 3 \/ i = 4
    OBVIOUS
  <2>2. \A i \in 1 .. 4 - 1 : i = 1 \/ i = 2 \/ i = 3
    OBVIOUS
  <2>3. \A i \in 1 .. 4 : c[i] # "date"
    BY <1>3, <2>1
  <2>4. c \in Seq(StreamCalls \cup DatagramCalls) /\ 4 \in 0 .. Len(c)
    BY <1>3 DEF StreamCalls, DatagramCalls
  <2>5. \A i \in 1 .. 4 - 1 : Takes(p, c[i], k + i)
    BY <1>8, <2>2
  <2>6. c[4 - 1] # "date"
    BY <1>3
  <2> QED BY <1>7, <1>8, <2>3, <2>4, <2>5, <2>6 DEF Matches
<1>10. Decides(p, s, e)
  BY <1>2, <1>3, <1>4 DEF Decides, AtRow
<1>11. Len(c) = 4 /\ c # <<>> /\ s \in Seq(StreamCalls \cup DatagramCalls)
  BY <1>3 DEF StreamCalls, DatagramCalls
<1>12. Len(Written(p)) \in Nat
  BY TextEnds
<1>13. Finds(p, c \o s, k)
  BY <1>9, <1>10, <1>11, <1>12, MoreFinds
<1> QED BY <1>2, <1>3, <1>13

\* One more bid of a record, whose space is taken.
LEMMA BidFinds ==
    ASSUME NEW p, WellFormed(p), NEW b, RecordOf(p, b), NEW j \in 0 .. b - 1
    PROVE  Finds(p, ReadBidEvent \o <<"events", "delimiter">>, 18 + 10 * j)
<1>1. b \in Nat
  BY BoundAssumption DEF RecordOf
<1>2. PICK l \in Nat : l = TextLength(p) /\ l >= 7 + 5 * b
  <2>1. TextLength(p) = 7 + 5 * b + (IF p.end = <<>> THEN 0 ELSE 3)
    BY DEF RecordOf
  <2> QED BY <1>1, <2>1
<1>3. PICK i \in Nat, k \in Nat, e \in Nat : i = 8 + 5 * j /\ k = 18 + 10 * j /\ e = 17 + 10 * (j + 1)
  <2>1. 8 + 5 * j \in Nat /\ 18 + 10 * j \in Nat /\ 17 + 10 * (j + 1) \in Nat
    BY <1>1
  <2> QED BY <2>1
<1>4. /\ i \in 1 .. l /\ i + 1 \in 1 .. l /\ i + 2 \in 1 .. l /\ i + 3 \in 1 .. l
      /\ i + 4 \in 1 .. l
  BY <1>1, <1>2, <1>3
<1>5. j + 1 \in 0 .. b /\ b \in 0 .. l
  BY <1>1, <1>2
<1>6. /\ Text(p)[i] = BidMark /\ Text(p)[i + 1][1] = "user" /\ Text(p)[i + 2][1] = "int"
      /\ Text(p)[i + 3][1] = "date" /\ Text(p)[i + 4][1] = "int"
  <2>1. /\ Text(p)[7 + 5 * j + 1] = BidMark
        /\ \A q \in 1 .. 4 : Text(p)[7 + 5 * j + 1 + q][1] = <<"user", "int", "date", "int">>[q]
    BY DEF RecordOf
  <2>2. 7 + 5 * j + 1 = i
    BY <1>1, <1>3
  <2>3. /\ Text(p)[i + 1][1] = <<"user", "int", "date", "int">>[1]
        /\ Text(p)[i + 2][1] = <<"user", "int", "date", "int">>[2]
        /\ Text(p)[i + 3][1] = <<"user", "int", "date", "int">>[3]
        /\ Text(p)[i + 4][1] = <<"user", "int", "date", "int">>[4]
    <3>1. 1 \in 1 .. 4 /\ 2 \in 1 .. 4 /\ 3 \in 1 .. 4 /\ 4 \in 1 .. 4
      OBVIOUS
    <3> QED BY <2>1, <2>2, <3>1
  <2> QED BY <2>1, <2>2, <2>3
<1>7. /\ Takes(p, "mark", 3 + 2 * i)
      /\ Takes(p, "space", 2 + 2 * (i + 1)) /\ Takes(p, "user", 3 + 2 * (i + 1))
      /\ Takes(p, "space", 2 + 2 * (i + 2)) /\ Takes(p, "int", 3 + 2 * (i + 2))
      /\ Takes(p, "space", 2 + 2 * (i + 3)) /\ Takes(p, "date", 3 + 2 * (i + 3))
      /\ Takes(p, "int", 3 + 2 * (i + 4))
  BY <1>2, <1>4, <1>6, TakesText DEF Types, Marks
<1>8. /\ 3 + 2 * i = k + 1 /\ 2 + 2 * (i + 1) = k + 2 /\ 3 + 2 * (i + 1) = k + 3
      /\ 2 + 2 * (i + 2) = k + 4 /\ 3 + 2 * (i + 2) = k + 5 /\ 2 + 2 * (i + 3) = k + 6
      /\ 3 + 2 * (i + 3) = k + 7 /\ 3 + 2 * (i + 4) = e /\ e = k + 8 + 1
  BY <1>1, <1>3
<1>9. PICK c, s : c = ReadBidEvent /\ s = <<"events", "delimiter">>
  OBVIOUS
<1>10. c = <<"mark", "space", "user", "space", "int", "space", "date", "int">>
  BY <1>9 DEF ReadBidEvent
<1>11. /\ Takes(p, c[1], k + 1) /\ Takes(p, c[2], k + 2) /\ Takes(p, c[3], k + 3)
       /\ Takes(p, c[4], k + 4) /\ Takes(p, c[5], k + 5) /\ Takes(p, c[6], k + 6)
       /\ Takes(p, c[7], k + 7) /\ Takes(p, c[8], e)
  BY <1>7, <1>8, <1>10
<1>12. Matches(p, c, k, 8, e)
  <2>1. \A q \in 1 .. 8 : q = 1 \/ q = 2 \/ q = 3 \/ q = 4 \/ q = 5 \/ q = 6 \/ q = 7 \/ q = 8
    OBVIOUS
  <2>2. \A q \in 1 .. 8 - 1 : q = 1 \/ q = 2 \/ q = 3 \/ q = 4 \/ q = 5 \/ q = 6 \/ q = 7
    OBVIOUS
  <2>3. \A q \in 1 .. 8 : c[q] = "date" => q = 8 - 1 /\ c[8] = "int"
    <3>1. 8 - 1 = 7
      OBVIOUS
    <3> QED BY <1>10, <2>1, <3>1
  <2>4. c \in Seq(StreamCalls \cup DatagramCalls) /\ 8 \in 0 .. Len(c)
    BY <1>10 DEF StreamCalls, DatagramCalls
  <2>5. \A q \in 1 .. 8 - 1 : Takes(p, c[q], k + q)
    BY <1>11, <2>2
  <2>6. c[8 - 1] = "date" /\ 8 >= 2
    <3>1. 8 - 1 = 7
      OBVIOUS
    <3> QED BY <1>10, <3>1
  <2>7. e = IF 8 >= 2 /\ c[8 - 1] = "date" THEN k + 8 + 1 ELSE k + 8
    BY <1>8, <2>6
  <2> QED BY <1>11, <2>3, <2>4, <2>5, <2>7 DEF Matches
<1>13. Decides(p, s, e)
  BY <1>2, <1>3, <1>5, <1>9 DEF Decides, AtEvent
<1>14. Len(c) = 8 /\ c # <<>> /\ s \in Seq(StreamCalls \cup DatagramCalls)
  BY <1>9, <1>10 DEF StreamCalls, DatagramCalls
<1>15. Len(Written(p)) \in Nat
  BY TextEnds
<1>16. Finds(p, c \o s, k)
  BY <1>12, <1>13, <1>14, <1>15, MoreFinds
<1> QED BY <1>3, <1>9, <1>16

\* The end of a record, whose space is taken.
LEMMA EndFinds ==
    ASSUME NEW p, WellFormed(p), NEW b, RecordOf(p, b), p.end # <<>>
    PROVE  Finds(p, ReadEndEvent \o <<"delimiter">>, 18 + 10 * b)
<1>1. b \in Nat
  BY BoundAssumption DEF RecordOf
<1>2. PICK l \in Nat : l = TextLength(p) /\ l = 10 + 5 * b
  <2>1. TextLength(p) = 7 + 5 * b + 3
    BY DEF RecordOf
  <2>2. 7 + 5 * b + 3 = 10 + 5 * b /\ 10 + 5 * b \in Nat
    BY <1>1
  <2> QED BY <2>1, <2>2
<1>3. PICK i \in Nat, k \in Nat, e \in Nat : i = 8 + 5 * b /\ k = 18 + 10 * b /\ e = 23 + 10 * b
  <2>1. 8 + 5 * b \in Nat /\ 18 + 10 * b \in Nat /\ 23 + 10 * b \in Nat
    BY <1>1
  <2> QED BY <2>1
<1>4. i \in 1 .. l /\ i + 1 \in 1 .. l /\ i + 2 \in 1 .. l
  BY <1>1, <1>2, <1>3
<1>5. e + 1 = Len(Written(p))
  <2>1. Len(Written(p)) = 4 + 2 * l
    BY <1>2, TextEnds DEF RecordOf
  <2>2. e + 1 = 4 + 2 * l
    BY <1>1, <1>2, <1>3
  <2> QED BY <2>1, <2>2
<1>6. /\ Text(p)[i] = EndMark /\ Text(p)[i + 1][1] = "date" /\ Text(p)[i + 2][1] = "int"
  <2>1. /\ Text(p)[7 + 5 * b + 1] = EndMark
        /\ Text(p)[7 + 5 * b + 2][1] = "date" /\ Text(p)[7 + 5 * b + 3][1] = "int"
    BY DEF RecordOf
  <2>2. 7 + 5 * b + 1 = i /\ 7 + 5 * b + 2 = i + 1 /\ 7 + 5 * b + 3 = i + 2
    BY <1>1, <1>3
  <2> QED BY <2>1, <2>2
<1>7. /\ Takes(p, "mark", 3 + 2 * i)
      /\ Takes(p, "space", 2 + 2 * (i + 1)) /\ Takes(p, "date", 3 + 2 * (i + 1))
      /\ Takes(p, "int", 3 + 2 * (i + 2))
  BY <1>2, <1>4, <1>6, TakesText DEF Types, Marks
<1>8. /\ 3 + 2 * i = k + 1 /\ 2 + 2 * (i + 1) = k + 2 /\ 3 + 2 * (i + 1) = k + 3
      /\ 3 + 2 * (i + 2) = e /\ e = k + 4 + 1
  BY <1>1, <1>3
<1>9. PICK c, s : c = ReadEndEvent /\ s = <<"delimiter">>
  OBVIOUS
<1>10. c = <<"mark", "space", "date", "int">>
  BY <1>9 DEF ReadEndEvent
<1>11. /\ Takes(p, c[1], k + 1) /\ Takes(p, c[2], k + 2) /\ Takes(p, c[3], k + 3)
       /\ Takes(p, c[4], e)
  BY <1>7, <1>8, <1>10
<1>12. Matches(p, c, k, 4, e)
  <2>1. \A q \in 1 .. 4 : q = 1 \/ q = 2 \/ q = 3 \/ q = 4
    OBVIOUS
  <2>2. \A q \in 1 .. 4 - 1 : q = 1 \/ q = 2 \/ q = 3
    OBVIOUS
  <2>3. \A q \in 1 .. 4 : c[q] = "date" => q = 4 - 1 /\ c[4] = "int"
    <3>1. 4 - 1 = 3
      OBVIOUS
    <3> QED BY <1>10, <2>1, <3>1
  <2>4. c \in Seq(StreamCalls \cup DatagramCalls) /\ 4 \in 0 .. Len(c)
    BY <1>10 DEF StreamCalls, DatagramCalls
  <2>5. \A q \in 1 .. 4 - 1 : Takes(p, c[q], k + q)
    BY <1>11, <2>2
  <2>6. c[4 - 1] = "date" /\ 4 >= 2
    <3>1. 4 - 1 = 3
      OBVIOUS
    <3> QED BY <1>10, <3>1
  <2>7. e = IF 4 >= 2 /\ c[4 - 1] = "date" THEN k + 4 + 1 ELSE k + 4
    BY <1>8, <2>6
  <2> QED BY <1>11, <2>3, <2>4, <2>5, <2>7 DEF Matches
<1>13. Decides(p, s, e)
  BY <1>5, <1>9 DEF Decides, AtNewline
<1>14. Len(c) = 4 /\ c # <<>> /\ s \in Seq(StreamCalls \cup DatagramCalls)
  BY <1>9, <1>10 DEF StreamCalls, DatagramCalls
<1>15. Len(Written(p)) \in Nat
  BY TextEnds
<1>16. Finds(p, c \o s, k)
  BY <1>12, <1>13, <1>14, <1>15, MoreFinds
<1> QED BY <1>3, <1>9, <1>16

\* What a record says before its events.
LEMMA RecordReads ==
    ASSUME NEW p, WellFormed(p), NEW b, RecordOf(p, b)
    PROVE  Finds(p, ReadRecord, 5)
<1>1. b \in Nat
  BY BoundAssumption DEF RecordOf
<1>2. PICK l \in Nat : l = TextLength(p) /\ l >= 7 + 5 * b
  <2>1. TextLength(p) = 7 + 5 * b + (IF p.end = <<>> THEN 0 ELSE 3)
    BY DEF RecordOf
  <2> QED BY <1>1, <2>1
<1>3. b \in 0 .. l /\ 0 \in 0 .. b /\ \A i \in 2 .. 7 : i \in 1 .. l
  BY <1>1, <1>2
<1>4. /\ Text(p)[2][1] = "user" /\ Text(p)[3][1] = "word" /\ Text(p)[4][1] = "file"
      /\ Text(p)[5][1] = "int" /\ Text(p)[6][1] = "date" /\ Text(p)[7][1] = "int"
  <2>1. \A i \in 1 .. 6 : Text(p)[1 + i][1] = <<"user", "word", "file", "int", "date", "int">>[i]
    BY DEF RecordOf
  <2>2. \A i \in 2 .. 7 : Text(p)[i][1] = <<"user", "word", "file", "int", "date", "int">>[i - 1]
    <3>1. \A i \in 2 .. 7 : i - 1 \in 1 .. 6 /\ 1 + (i - 1) = i
      OBVIOUS
    <3> QED BY <2>1, <3>1
  <2> QED BY <2>2
<1>5. /\ Takes(p, "space", 6) /\ Takes(p, "user", 7) /\ Takes(p, "space", 8) /\ Takes(p, "word", 9)
      /\ Takes(p, "space", 10) /\ Takes(p, "file", 11) /\ Takes(p, "space", 12) /\ Takes(p, "int", 13)
      /\ Takes(p, "space", 14) /\ Takes(p, "date", 15) /\ Takes(p, "int", 17)
  <2>1. \A i \in 2 .. 7 : Takes(p, "space", 2 + 2 * i)
    BY <1>2, <1>3, TakesText
  <2>2. \A i \in 2 .. 7 : \A t \in Types : Text(p)[i][1] = t => Takes(p, t, 3 + 2 * i)
    BY <1>2, <1>3, TakesText
  <2>3. /\ Takes(p, "user", 3 + 2 * 2) /\ Takes(p, "word", 3 + 2 * 3) /\ Takes(p, "file", 3 + 2 * 4)
        /\ Takes(p, "int", 3 + 2 * 5) /\ Takes(p, "date", 3 + 2 * 6) /\ Takes(p, "int", 3 + 2 * 7)
    BY <1>4, <2>2 DEF Types
  <2>4. /\ Takes(p, "space", 2 + 2 * 2) /\ Takes(p, "space", 2 + 2 * 3)
        /\ Takes(p, "space", 2 + 2 * 4) /\ Takes(p, "space", 2 + 2 * 5)
        /\ Takes(p, "space", 2 + 2 * 6)
    BY <2>1
  <2> QED BY <2>3, <2>4
<1>6. PICK s : s = ReadRecord
  OBVIOUS
<1>7. s = <<"space", "user", "space", "word", "space", "file", "space", "int", "space", "date",
            "int", "events", "delimiter">>
  BY <1>6 DEF ReadRecord
<1>8. /\ Takes(p, s[1], 5 + 1) /\ Takes(p, s[2], 5 + 2) /\ Takes(p, s[3], 5 + 3)
      /\ Takes(p, s[4], 5 + 4) /\ Takes(p, s[5], 5 + 5) /\ Takes(p, s[6], 5 + 6)
      /\ Takes(p, s[7], 5 + 7) /\ Takes(p, s[8], 5 + 8) /\ Takes(p, s[9], 5 + 9)
      /\ Takes(p, s[10], 5 + 10) /\ Takes(p, s[11], 17)
  BY <1>5, <1>7
<1>9. s \in Seq(StreamCalls \cup DatagramCalls) /\ Len(s) = 13
  BY <1>7 DEF StreamCalls, DatagramCalls
<1>10. Matches(p, s, 5, 11, 17)
  <2>1. \A q \in 1 .. 11 : q = 1 \/ q = 2 \/ q = 3 \/ q = 4 \/ q = 5 \/ q = 6 \/ q = 7 \/ q = 8
                           \/ q = 9 \/ q = 10 \/ q = 11
    OBVIOUS
  <2>2. \A q \in 1 .. 11 - 1 : q = 1 \/ q = 2 \/ q = 3 \/ q = 4 \/ q = 5 \/ q = 6 \/ q = 7
                           \/ q = 8 \/ q = 9 \/ q = 10
    OBVIOUS
  <2>3. 11 - 1 = 10
    OBVIOUS
  <2>4. \A q \in 1 .. 11 : s[q] = "date" => q = 11 - 1 /\ s[11] = "int"
    BY <1>7, <2>1, <2>3
  <2>5. \A q \in 1 .. 11 - 1 : Takes(p, s[q], 5 + q)
    BY <1>8, <2>2
  <2>6. s[11 - 1] = "date" /\ 11 >= 2 /\ 17 = 5 + 11 + 1 /\ 11 \in 0 .. Len(s)
    BY <1>7, <1>9, <2>3
  <2>7. 17 = IF 11 >= 2 /\ s[11 - 1] = "date" THEN 5 + 11 + 1 ELSE 5 + 11
    BY <2>6
  <2> QED BY <1>8, <1>9, <2>4, <2>5, <2>6, <2>7 DEF Matches
<1>11. SubSeq(s, 11 + 1, Len(s)) = <<"events", "delimiter">>
  <2>1. 11 + 2 = Len(s) /\ 11 \in Nat
    BY <1>9
  <2>2. SubSeq(s, 11 + 1, Len(s)) = <<s[11 + 1], s[11 + 2]>>
    BY <1>9, <2>1, LastCalls
  <2>3. s[11 + 1] = "events" /\ s[11 + 2] = "delimiter"
    BY <1>7
  <2> QED BY <2>2, <2>3
<1>12. Decides(p, <<"events", "delimiter">>, 17)
  <2>1. 17 = 17 + 10 * 0
    OBVIOUS
  <2> QED BY <1>2, <1>3, <2>1 DEF Decides, AtEvent
<1>13. 11 \in 0 .. Len(Written(p)) /\ 17 \in 0 .. Len(Written(p))
  <2>1. Takes(p, "int", 17) /\ Len(Written(p)) \in Nat
    BY <1>5, TextEnds
  <2>2. 17 <= Len(Written(p))
    BY <2>1 DEF Takes
  <2> QED BY <2>1, <2>2
<1>14. Finds(p, s, 5)
  BY <1>10, <1>11, <1>12, <1>13 DEF Finds
<1> QED BY <1>6, <1>14

-----------------------------------------------------------------------------
(* The reader of a packet that arrived whole                               *)

\* Where it stands when it calls what reads neither a kind nor a letter.
LEMMA AtWholeCalls ==
    ASSUME IInv, WInv, whole, outcome = "none", ops # <<>>, Head(ops) \notin Alphabet \cup {"kind"}
    PROVE  /\ side \in {"server", "client"} /\ asked \in Requests /\ WellFormed(packet)
           /\ line \in Seq(Tokens) /\ pending \in Seq(Tokens) /\ Len(pending) <= 1
           /\ \E k \in Nat :
                /\ Stands(k, Len(Written(packet)))
                /\ Confirming(k) \/ (Following(k) /\ Telling(k))
<1>1. /\ side \in {"server", "client"} /\ asked \in Requests /\ WellFormed(packet)
      /\ line \in Seq(Tokens) /\ pending \in Seq(Tokens) /\ Len(pending) <= 1
      /\ \E k, m : Stands(k, m) /\ (Lost \/ Refused \/ Telling(k))
  BY AtCalls
<1>2. PICK k \in 0 .. Len(Written(packet)) :
        /\ Stands(k, Len(Written(packet)))
        /\ Starting(k) \/ OnName(k) \/ Confirming(k) \/ Following(k)
  BY <1>1 DEF WInv
<1>3. ~Starting(k)
  BY DEF Starting, AtKind
<1>4. ~OnName(k)
  <2> SUFFICES ASSUME OnName(k) PROVE FALSE
    OBVIOUS
  <2>1. PICK i \in 1 .. 3 : ops = CallsFrom(i)
    <3>1. k \in 0 .. 2 /\ ops = CallsFrom(k + 1)
      BY DEF OnName
    <3>2. k + 1 \in 1 .. 3
      BY <3>1
    <3> QED BY <3>1, <3>2
  <2> QED BY <1>1, <2>1, CallsOfAName
<1>5. PICK k2, m2 : Stands(k2, m2) /\ (Lost \/ Refused \/ Telling(k2))
  BY <1>1
<1>6. k2 = k /\ k \in Nat
  <2>1. PICK L : L = Len(Written(packet))
    OBVIOUS
  <2>2. Stands(k, L)
    BY <1>2, <2>1
  <2>3. k \in Nat /\ L \in Nat /\ Len(Ahead) = L - k
    BY <1>1, <2>2, AheadAt
  <2>4. k2 \in Nat /\ m2 \in Nat /\ Len(Ahead) = m2 - k2
    BY <1>1, <1>5, AheadAt
  <2>5. m2 = L
    BY <1>5, <2>1 DEF Stands
  <2>6. PICK a \in Int : a = L - k /\ a = m2 - k2
    BY <2>3, <2>4
  <2> QED BY <2>3, <2>4, <2>5, <2>6
<1>7. CASE Following(k)
  <2>1. errors = 0 /\ Finds(packet, ops, k)
    BY <1>7 DEF Following
  <2>2. ~Refused
    BY <2>1 DEF Refused
  <2>3. ~Lost
    <3> SUFFICES ASSUME Lost PROVE FALSE
      OBVIOUS
    <3>1. ops = <<"space", "status">> /\ (Ahead = <<>> \/ Head(Ahead) # Space)
      BY DEF Lost
    <3>2. Head(ops) = "space" /\ Head(ops) \notin Deciding
      BY <3>1 DEF Deciding
    <3>3. Takes(packet, "space", k + 1)
      BY <1>6, <2>1, <3>2, NextTakes
    <3>4. k + 1 \in 4 .. Len(Written(packet)) /\ Written(packet)[k + 1] = Space
      BY <3>3 DEF Takes, Types
    <3>5. Ahead # <<>>
      <4>1. PICK L : L = Len(Written(packet))
        OBVIOUS
      <4>2. Stands(k, L)
        BY <1>2, <4>1
      <4>3. k \in Nat /\ L \in Nat /\ Len(Ahead) = L - k
        BY <1>1, <4>2, AheadAt
      <4>4. L - k > 0
        BY <3>4, <4>1, <4>3
      <4>5. Len(<<>>) = 0
        OBVIOUS
      <4> QED BY <4>3, <4>4, <4>5
    <3>6. Head(Ahead) = Written(packet)[k + 1]
      BY <1>1, <1>2, <3>5, AheadAt
    <3> QED BY <3>1, <3>4, <3>5, <3>6
  <2> QED BY <1>1, <1>2, <1>5, <1>6, <1>7, <2>2, <2>3
<1> QED BY <1>1, <1>2, <1>3, <1>4, <1>6, <1>7

\* What the next call takes is ahead.
LEMMA TakenIsAhead ==
    ASSUME WellFormed(packet), NEW k, NEW m, Stands(k, m), m = Len(Written(packet)),
           k + 1 \in 4 .. Len(Written(packet))
    PROVE  Ahead # <<>> /\ Head(Ahead) = Written(packet)[k + 1]
<1>1. k \in Nat /\ m \in Nat /\ Len(Ahead) = m - k
  BY AheadAt
<1>2. m - k > 0
  BY <1>1
<1>3. Len(<<>>) = 0
  OBVIOUS
<1>4. Ahead # <<>>
  BY <1>1, <1>2, <1>3
<1> QED BY <1>4, AheadAt

\* A reading that goes on.
LEMMA ReadsOn ==
    ASSUME WInv, side # "none", WellFormed(packet), UNCHANGED <<asked, packet, whole, side>>,
           outcome' = "none", NEW k, Stands(k, Len(Written(packet)))',
           (OnName(k) \/ Confirming(k) \/ Following(k))'
    PROVE  WInv'
<1>1. k \in 0 .. Len(Written(packet'))
  BY DEF Stands
<1>2. (OverUdp => whole)' /\ (packet.kind = "ERR" => asked \in TcpRequests)'
  BY DEF WInv, OverUdp
<1>3. WholeIsRecognised'
  BY DEF WholeIsRecognised
<1> QED BY <1>1, <1>2, <1>3 DEF WInv

\* A reading that ends.
LEMMA EndsWell ==
    ASSUME WInv, side # "none", UNCHANGED <<asked, packet, whole, side>>, outcome' # "none",
           whole => WholeIsRecognised'
    PROVE  WInv'
<1>1. (OverUdp => whole)' /\ (packet.kind = "ERR" => asked \in TcpRequests)'
  BY DEF WInv, OverUdp
<1>2. WholeIsRecognised'
  BY DEF WholeIsRecognised
<1> QED BY <1>1, <1>2 DEF WInv

\* Of a packet that broke off nothing is said.
LEMMA BrokenOff ==
    ASSUME WInv, side # "none", UNCHANGED <<asked, packet, whole, side>>, ~whole
    PROVE  WInv'
BY DEF WInv, OverUdp, WholeIsRecognised

\* A space that is looked for is there.
LEMMA SpaceFinds ==
    ASSUME IInv, WInv, whole, ReadSpace
    PROVE  WInv'
<1>1. outcome = "none" /\ ops # <<>> /\ Head(ops) = "space"
  BY DEF ReadSpace, AtCall, Next1
<1>2. Head(ops) \notin Alphabet \cup {"kind"} /\ Head(ops) \notin Deciding /\ Head(ops) # "date"
  BY <1>1, LettersOfTheAlphabet DEF Deciding
<1>3. /\ side \in {"server", "client"} /\ asked \in Requests /\ WellFormed(packet)
      /\ line \in Seq(Tokens) /\ pending \in Seq(Tokens) /\ Len(pending) <= 1
  BY <1>1, <1>2, AtWholeCalls
<1>4. PICK k \in Nat : /\ Stands(k, Len(Written(packet)))
                       /\ Confirming(k) \/ (Following(k) /\ Telling(k))
  BY <1>1, <1>2, AtWholeCalls
<1>5. Following(k)
  BY <1>1, <1>4 DEF Confirming
<1>6. errors = 0 /\ packet.kind \in Expected /\ Finds(packet, ops, k)
  BY <1>5 DEF Following
<1>7. Takes(packet, "space", k + 1)
  BY <1>1, <1>2, <1>6, NextTakes
<1>8. k + 1 \in 4 .. Len(Written(packet)) /\ Written(packet)[k + 1] = Space
  BY <1>7 DEF Takes, Types
<1>9. Ahead # <<>> /\ Head(Ahead) = Space
  BY <1>3, <1>4, <1>8, TakenIsAhead
<1>10. /\ TakeChar /\ ops' = Tail(ops)
       /\ UNCHANGED <<asked, packet, whole, side, last, errors, fields, outcome>>
  BY <1>9 DEF ReadSpace
<1>11. Ahead' = Tail(Ahead)
  BY <1>3, <1>9, <1>10, TakeCharMoves
<1>12. Stands(k + 1, Len(Written(packet)))'
  <2>1. PICK L : L = Len(Written(packet)) /\ Stands(k, L)
    BY <1>4
  <2>2. Stands(k + 1, L)'
    BY <1>3, <1>9, <1>10, <1>11, <2>1, StandsNext
  <2>3. L = Len(Written(packet))'
    BY <1>10, <2>1
  <2> QED BY <2>2, <2>3
<1>13. Finds(packet, Tail(ops), k + 1)
  <2>1. Len(Written(packet)) \in Nat
    BY <1>3, TextEnds
  <2> QED BY <1>1, <1>2, <1>6, <2>1, RestFinds
<1>14. Following(k + 1)'
  BY <1>6, <1>10, <1>13 DEF Following, Expected
<1> QED BY <1>1, <1>3, <1>10, <1>12, <1>14, ReadsOn

\* Where it stands when it calls what looks for a field or a space, or decides.
LEMMA AtAWholeCall ==
    ASSUME IInv, WInv, whole, outcome = "none", ops # <<>>,
           Head(ops) \notin Alphabet \cup {"kind", "delimiter"}
    PROVE  /\ side \in {"server", "client"} /\ asked \in Requests /\ WellFormed(packet)
           /\ line \in Seq(Tokens) /\ pending \in Seq(Tokens) /\ Len(pending) <= 1
           /\ errors = 0 /\ packet.kind \in Expected /\ Ordered /\ Head(ops) = ops[1]
           /\ Len(Written(packet)) \in Nat
           /\ \E k \in Nat :
                /\ Stands(k, Len(Written(packet)))
                /\ Following(k) /\ Telling(k) /\ Finds(packet, ops, k)
<1>1. Head(ops) \notin Alphabet \cup {"kind"}
  OBVIOUS
<1>2. /\ side \in {"server", "client"} /\ asked \in Requests /\ WellFormed(packet)
      /\ line \in Seq(Tokens) /\ pending \in Seq(Tokens) /\ Len(pending) <= 1
  BY <1>1, AtWholeCalls
<1>3. PICK k \in Nat : /\ Stands(k, Len(Written(packet)))
                       /\ Confirming(k) \/ (Following(k) /\ Telling(k))
  BY <1>1, AtWholeCalls
<1>4. ~Confirming(k)
  BY DEF Confirming
<1>5. Following(k) /\ Telling(k)
  BY <1>3, <1>4
<1>6. Len(Written(packet)) \in Nat
  BY <1>2, TextEnds
<1>7. Ordered /\ Head(ops) = ops[1]
  BY <1>5, TailOrdered DEF Telling
<1> QED BY <1>2, <1>3, <1>5, <1>6, <1>7 DEF Following

\* A field of the text is ahead, and what ends it.
LEMMA FieldIsAhead ==
    ASSUME WellFormed(packet), line \in Seq(Tokens), pending = <<>>, NEW k \in Nat,
           Stands(k, Len(Written(packet))), NEW i \in 1 .. TextLength(packet), k + 1 = 3 + 2 * i
    PROVE  /\ line # <<>> /\ Head(line) = Text(packet)[i] /\ Separated
           /\ i < TextLength(packet) => line[2] = Space
<1>1. PICK L : L = Len(Written(packet))
  OBVIOUS
<1>2. Stands(k, L)
  BY <1>1
<1>3. /\ k \in Nat /\ L \in Nat /\ Len(Ahead) = L - k /\ Ahead \in Seq(Tokens)
      /\ \A j \in 1 .. L - k : Ahead[j] = Written(packet)[k + j]
  BY <1>2, AheadAt
<1>4. Ahead = line
  BY ConcatEmptySeq DEF Ahead
<1>5. k + 1 \in 4 .. L /\ k + 2 \in 4 .. L /\ Written(packet)[k + 1] = Text(packet)[i]
      /\ Written(packet)[k + 2] \in {Space, Newline}
      /\ (i < TextLength(packet) => Written(packet)[k + 2] = Space)
  <2>1. /\ 3 + 2 * i \in 4 .. Len(Written(packet)) /\ Written(packet)[3 + 2 * i] = Text(packet)[i]
        /\ 4 + 2 * i \in 4 .. Len(Written(packet)) /\ Written(packet)[4 + 2 * i] \in {Space, Newline}
        /\ i < TextLength(packet) => Written(packet)[4 + 2 * i] = Space
    BY TextStands
  <2>2. TextLength(packet) \in Nat
    BY TextEnds
  <2>3. k + 2 = 4 + 2 * i
    BY <2>2
  <2> QED BY <1>1, <2>1, <2>3
<1>6. 1 \in 1 .. L - k /\ 2 \in 1 .. L - k /\ L - k >= 2 /\ L - k \in Nat
  BY <1>3, <1>5
<1>7. Ahead[1] = Written(packet)[k + 1] /\ Ahead[2] = Written(packet)[k + 2]
  BY <1>3, <1>6
<1>8. PICK a \in Nat : a = L - k
  BY <1>6
<1>9. Len(line) = a /\ a >= 2
  BY <1>3, <1>4, <1>6, <1>8
<1>10. line # <<>>
  BY <1>9
<1>11. Head(line) = line[1]
  BY <1>10
<1>12. line[1] = Text(packet)[i] /\ line[2] \in {Space, Newline}
       /\ (i < TextLength(packet) => line[2] = Space)
  BY <1>4, <1>5, <1>7
<1>13. Separated
  BY <1>9, <1>12 DEF Separated
<1> QED BY <1>10, <1>11, <1>12, <1>13

\* What a call wants of a field.
Says(p, i, c) == IF c = "mark" THEN Text(p)[i] \in Marks ELSE Text(p)[i][1] = c

\* A field that is taken is one of the text.
LEMMA TakenIsText ==
    ASSUME NEW p, WellFormed(p), NEW c \in Types \cup {"size", "mark"}, NEW j \in Nat, Takes(p, c, j)
    PROVE  \E i \in 1 .. TextLength(p) : j = 3 + 2 * i /\ Says(p, i, c)
<1>1. /\ j \in 4 .. Len(Written(p))
      /\ c = "mark" => Written(p)[j] \in Marks
      /\ c # "mark" => Written(p)[j][1] = c
  BY DEF Takes, Types
<1>2. TextLength(p) \in Nat /\ Len(Written(p)) \in Nat
  BY TextEnds
<1>3. j \in 1 .. Len(Written(p)) /\ j > 3
  BY <1>1, <1>2
<1>4. Written(p)[j] \in Tokens
  BY <1>3, Places
<1>5. Written(p)[j] \in Values \cup Sizes \cup Marks
  BY <1>1, <1>4, TypedTokens
<1>6. j % 2 = 1 /\ j <= 3 + 2 * TextLength(p) /\ Written(p)[j] = Text(p)[(j - 3) \div 2]
  BY <1>3, <1>5, Places
<1>7. (j - 3) \div 2 \in 1 .. TextLength(p) /\ j = 3 + 2 * ((j - 3) \div 2)
  BY <1>2, <1>3, <1>6
<1> QED BY <1>1, <1>6, <1>7 DEF Says

\* A field that is looked for is there.
LEMMA FieldFinds ==
    ASSUME IInv, WInv, whole, ReadField
    PROVE  WInv'
<1>1. /\ outcome = "none" /\ ops # <<>> /\ Head(ops) = Next1
      /\ Next1 \in {"user", "word", "auction", "int", "file", "size", "state", "mark"}
  BY DEF ReadField, Next1
<1>2. /\ Head(ops) \notin Alphabet \cup {"kind", "delimiter"} /\ Head(ops) \notin Deciding
      /\ Head(ops) # "date" /\ Head(ops) \in Types \cup {"size", "mark"}
  BY <1>1, LettersOfTheAlphabet DEF Deciding, Types
<1>3. /\ side \in {"server", "client"} /\ asked \in Requests /\ WellFormed(packet)
      /\ line \in Seq(Tokens) /\ pending \in Seq(Tokens) /\ Len(pending) <= 1
      /\ errors = 0 /\ packet.kind \in Expected /\ Ordered /\ Head(ops) = ops[1]
      /\ Len(Written(packet)) \in Nat
  BY <1>1, <1>2, AtAWholeCall
<1>4. PICK k \in Nat : /\ Stands(k, Len(Written(packet)))
                       /\ Following(k) /\ Telling(k) /\ Finds(packet, ops, k)
  BY <1>1, <1>2, AtAWholeCall
<1>5. Takes(packet, Head(ops), k + 1)
  BY <1>1, <1>2, <1>4, NextTakes
<1>6. PICK i \in 1 .. TextLength(packet) :
        k + 1 = 3 + 2 * i /\ Says(packet, i, Head(ops))
  <2>1. PICK c, j : c = Head(ops) /\ j = k + 1 /\ j \in Nat
    OBVIOUS
  <2>2. c \in Types \cup {"size", "mark"} /\ Takes(packet, c, j) /\ j \in Nat
    BY <1>2, <1>5, <2>1
  <2>3. PICK i \in 1 .. TextLength(packet) : j = 3 + 2 * i /\ Says(packet, i, c)
    BY <1>3, <2>2, TakenIsText
  <2> QED BY <2>1, <2>3
<1>7. pending = <<>>
  BY <1>1, <1>3 DEF Ordered
<1>8. line # <<>> /\ Head(line) = Text(packet)[i] /\ Separated
  BY <1>3, <1>4, <1>6, <1>7, FieldIsAhead
<1>9. \A f \in Marks : f[1] = "char"
  BY DEF Marks, BidMark, EndMark, Char
<1>10. Typed(IF Next1 = "mark" THEN "char" ELSE Next1)
  BY <1>1, <1>6, <1>8, <1>9 DEF Typed, Says
<1>11. TakeField(Tail(ops))
  BY <1>8, <1>10 DEF ReadField
<1>12. Ahead = line /\ Ahead' = Tail(Ahead)
  BY <1>3, <1>7, <1>8, <1>11, FieldMoves
<1>13. /\ ops' = Tail(ops)
       /\ UNCHANGED <<asked, packet, whole, side, last, errors, outcome>>
  BY <1>11 DEF TakeField
<1>14. Stands(k + 1, Len(Written(packet)))'
  <2>1. PICK L : L = Len(Written(packet)) /\ Stands(k, L)
    BY <1>4
  <2>2. Stands(k + 1, L)'
    BY <1>3, <1>8, <1>12, <1>13, <2>1, StandsNext
  <2>3. L = Len(Written(packet))'
    BY <1>13, <2>1
  <2> QED BY <2>2, <2>3
<1>15. Finds(packet, Tail(ops), k + 1)
  BY <1>1, <1>2, <1>3, <1>4, RestFinds
<1>16. Following(k + 1)'
  BY <1>3, <1>13, <1>15 DEF Following, Expected
<1> QED BY <1>1, <1>3, <1>13, <1>14, <1>16, ReadsOn

\* A date that is looked for is there, and the time after it.
LEMMA DateFinds ==
    ASSUME IInv, WInv, whole, ReadDate
    PROVE  WInv'
<1>1. outcome = "none" /\ ops # <<>> /\ Head(ops) = "date"
  BY DEF ReadDate, AtCall, Next1
<1>2. /\ Head(ops) \notin Alphabet \cup {"kind", "delimiter"} /\ Head(ops) \notin Deciding
      /\ Head(ops) \in Types \cup {"size", "mark"}
  BY <1>1, LettersOfTheAlphabet DEF Deciding, Types
<1>3. /\ side \in {"server", "client"} /\ asked \in Requests /\ WellFormed(packet)
      /\ line \in Seq(Tokens) /\ pending \in Seq(Tokens) /\ Len(pending) <= 1
      /\ errors = 0 /\ packet.kind \in Expected /\ Ordered /\ Head(ops) = ops[1]
      /\ Len(Written(packet)) \in Nat
  BY <1>1, <1>2, AtAWholeCall
<1>4. PICK k \in Nat : /\ Stands(k, Len(Written(packet)))
                       /\ Following(k) /\ Telling(k) /\ Finds(packet, ops, k)
  BY <1>1, <1>2, AtAWholeCall
<1>5. Takes(packet, "date", k + 1) /\ Takes(packet, "int", k + 3)
  BY <1>1, <1>2, <1>4, NextTakes
<1>6. PICK i \in 1 .. TextLength(packet) : k + 1 = 3 + 2 * i /\ Text(packet)[i][1] = "date"
  <2>1. k + 1 \in Nat
    OBVIOUS
  <2> QED BY <1>2, <1>3, <1>5, <2>1, TakenIsText DEF Types, Says
<1>7. i < TextLength(packet)
  <2>1. PICK j \in 1 .. TextLength(packet) : k + 3 = 3 + 2 * j
    <3>1. k + 3 \in Nat
      OBVIOUS
    <3> QED BY <1>3, <1>5, <3>1, TakenIsText DEF Types
  <2>2. TextLength(packet) \in Nat
    BY <1>3, TextEnds
  <2> QED BY <1>6, <2>1, <2>2
<1>8. pending = <<>>
  BY <1>1, <1>3, OnlyOnDatagrams
<1>9. line # <<>> /\ Head(line) = Text(packet)[i] /\ Separated /\ line[2] = Space
  BY <1>3, <1>4, <1>6, <1>7, <1>8, FieldIsAhead
<1>10. Typed("date") /\ Len(line) >= 2
  BY <1>6, <1>9 DEF Typed, Separated
<1>11. /\ line' = Tail(Tail(line)) /\ ops' = Tail(ops)
       /\ UNCHANGED <<asked, packet, whole, side, last, errors, pending, outcome>>
  BY <1>9, <1>10 DEF ReadDate
<1>12. Stands(k + 2, Len(Written(packet)))'
  <2>1. PICK L : L = Len(Written(packet)) /\ Stands(k, L)
    BY <1>4
  <2>2. Stands((k + 1) + 1, L)'
    BY <1>3, <1>8, <1>10, <1>11, <2>1, DateMoves
  <2>3. L = Len(Written(packet))' /\ (k + 1) + 1 = k + 2
    BY <1>11, <2>1
  <2> QED BY <2>2, <2>3
<1>13. Finds(packet, Tail(ops), k + 2)
  BY <1>1, <1>2, <1>3, <1>4, RestFinds
<1>14. Following(k + 2)'
  BY <1>3, <1>11, <1>13 DEF Following, Expected
<1> QED BY <1>1, <1>3, <1>11, <1>12, <1>14, ReadsOn

\* A call that decides comes next.
LEMMA FindsNow ==
    ASSUME NEW p, NEW s \in Seq(StreamCalls \cup DatagramCalls), NEW e \in 0 .. Len(Written(p)),
           Decides(p, s, e)
    PROVE  Finds(p, s, e)
<1>1. SubSeq(s, 0 + 1, Len(s)) = s
  <2>1. SubSeq(s, 1, Len(s)) = s
    BY SubSeqFull
  <2>2. 0 + 1 = 1
    OBVIOUS
  <2> QED BY <2>1, <2>2
<1>2. 0 \in 0 .. Len(s) /\ e + 0 = e /\ ~(0 >= 2) /\ ~(0 > 0)
  OBVIOUS
<1>3. Matches(p, s, e, 0, e)
  <2>1. \A j \in 1 .. 0 - 1 : FALSE
    OBVIOUS
  <2>2. \A j \in 1 .. 0 : FALSE
    OBVIOUS
  <2>3. e = IF 0 >= 2 /\ s[0 - 1] = "date" THEN e + 0 + 1 ELSE e + 0
    BY <1>2
  <2> QED BY <1>2, <2>1, <2>2, <2>3 DEF Matches
<1>4. 0 \in 0 .. Len(Written(p))
  OBVIOUS
<1> QED BY <1>1, <1>3, <1>4 DEF Finds

\* What follows the status.
LEMMA StatusTells ==
    ASSUME NEW p, WellFormed(p), TextLength(p) \in Nat \ {0}, OkFits(p)
    PROVE  Finds(p, ReadOk(p.kind), 5)
<1>1. CASE p.kind \in {"RMA", "RMB", "RLS"}
  <2>1. PICK r \in 0 .. TextLength(p) : ListOf(p, r)
    BY <1>1 DEF OkFits
  <2>2. ReadOk(p.kind) = <<"auctions", "delimiter">>
    BY <1>1 DEF ReadOk, ReadAuctions
  <2>3. 0 \in 0 .. r /\ 5 = 5 + 4 * 0
    OBVIOUS
  <2>4. Decides(p, <<"auctions", "delimiter">>, 5)
    BY <2>1, <2>3 DEF Decides, AtRow
  <2>5. 5 \in 0 .. Len(Written(p))
    <3>1. Len(Written(p)) \in Nat /\ Len(Written(p)) >= 4 + 2 * TextLength(p)
      BY TextEnds
    <3> QED BY <3>1
  <2>6. <<"auctions", "delimiter">> \in Seq(StreamCalls \cup DatagramCalls)
    BY DEF StreamCalls, DatagramCalls
  <2> QED BY <2>2, <2>4, <2>5, <2>6, FindsNow
<1>2. CASE p.kind = "RRC"
  <2>1. PICK b \in 0 .. TextLength(p) : RecordOf(p, b)
    BY <1>2 DEF OkFits
  <2> QED BY <1>2, <2>1, RecordReads DEF ReadOk
<1>3. CASE p.kind \notin {"RMA", "RMB", "RLS", "RRC"}
  <2>1. Reads(ReadOk(p.kind), p, 1)
    BY <1>3 DEF OkFits
  <2>2. Finds(p, ReadOk(p.kind), 3 + 2 * 1)
    BY <2>1, ReadsFind
  <2> QED BY <2>2
<1> QED BY <1>1, <1>2, <1>3

\* A status tells what comes after it.
LEMMA StatusFinds ==
    ASSUME IInv, WInv, whole, ReadStatus
    PROVE  WInv'
<1>1. outcome = "none" /\ ops # <<>> /\ Head(ops) = "status"
  BY DEF ReadStatus, AtCall, Next1
<1>2. /\ Head(ops) \notin Alphabet \cup {"kind", "delimiter"} /\ Head(ops) \in Deciding
  BY <1>1, LettersOfTheAlphabet DEF Deciding
<1>3. /\ side \in {"server", "client"} /\ asked \in Requests /\ WellFormed(packet)
      /\ line \in Seq(Tokens) /\ pending \in Seq(Tokens) /\ Len(pending) <= 1
      /\ errors = 0 /\ packet.kind \in Expected /\ Ordered /\ Head(ops) = ops[1]
      /\ Len(Written(packet)) \in Nat
  BY <1>1, <1>2, AtAWholeCall
<1>4. PICK k \in Nat : /\ Stands(k, Len(Written(packet)))
                       /\ Following(k) /\ Telling(k) /\ Finds(packet, ops, k)
  BY <1>1, <1>2, AtAWholeCall
<1>5. AtStatus(packet, ops, k)
  <2>1. Decides(packet, ops, k)
    BY <1>1, <1>2, <1>4, NextTakes
  <2> QED BY <1>1, <2>1 DEF Decides, AtFile, AtRow, AtEvent, AtNewline
<1>6. k = 4 /\ packet.kind \in ReplyKinds /\ ReplyFits(packet)
  BY <1>5 DEF AtStatus
<1>7. packet.kind = ReplyTo(asked)
  <2>1. packet.kind \notin Requests
    BY <1>6 DEF ReplyKinds, ReplyTo, Requests, UdpRequests, TcpRequests, UdpReply, TcpReply
  <2> QED BY <1>3, <2>1 DEF Expected
<1>8. PICK s \in Statuses[packet.kind] :
        /\ Text(packet)[1] = Status(s)
        /\ IF s = "OK" THEN OkFits(packet) ELSE Reads(<<"delimiter">>, packet, 1)
  BY <1>6 DEF ReplyFits
<1>9. pending = <<>>
  BY <1>1, <1>3 DEF Ordered
<1>10. line # <<>> /\ Head(line) = Status(s) /\ Separated
  <2>1. 1 \in 1 .. TextLength(packet) /\ k + 1 = 3 + 2 * 1
    BY <1>6 DEF ReplyFits
  <2> QED BY <1>3, <1>4, <1>8, <1>9, <2>1, FieldIsAhead
<1>11. Head(line)[1] = "status" /\ Head(line)[2] = s /\ (Head(line) = Status("OK") <=> s = "OK")
  <2>1. \A x : Status(x)[1] = "status" /\ Status(x)[2] = x
    BY DEF Status
  <2> QED BY <1>10, <2>1
<1>12. PICK calls : calls = IF s = "OK" THEN ReadOk(ReplyTo(asked)) ELSE <<"delimiter">>
  OBVIOUS
<1>13. TakeField(calls)
  <2>1. Typed("status") /\ Head(line)[2] \in Statuses[ReplyTo(asked)]
    BY <1>7, <1>10, <1>11 DEF Typed
  <2> QED BY <1>10, <1>11, <1>12, <2>1 DEF ReadStatus
<1>14. Ahead = line /\ Ahead' = Tail(Ahead)
  BY <1>3, <1>9, <1>10, <1>13, FieldMoves
<1>15. /\ ops' = calls
       /\ UNCHANGED <<asked, packet, whole, side, last, errors, outcome>>
  BY <1>13 DEF TakeField
<1>16. Stands(5, Len(Written(packet)))'
  <2>1. PICK L : L = Len(Written(packet)) /\ Stands(k, L)
    BY <1>4
  <2>2. Stands(k + 1, L)'
    BY <1>3, <1>10, <1>14, <1>15, <2>1, StandsNext
  <2>3. L = Len(Written(packet))' /\ k + 1 = 5
    BY <1>6, <1>15, <2>1
  <2> QED BY <2>2, <2>3
<1>17. Finds(packet, calls, 5)
  <2>1. CASE s = "OK"
    <3>1. TextLength(packet) \in Nat \ {0}
      BY <1>6 DEF ReplyFits
    <3> QED BY <1>3, <1>7, <1>8, <1>12, <2>1, <3>1, StatusTells
  <2>2. CASE s # "OK"
    <3>1. Finds(packet, <<"delimiter">>, 3 + 2 * 1)
      BY <1>3, <1>8, <2>2, ReadsFind
    <3>2. 3 + 2 * 1 = 5
      OBVIOUS
    <3> QED BY <1>12, <2>2, <3>1, <3>2
  <2> QED BY <2>1, <2>2
<1>18. Following(5)'
  BY <1>3, <1>15, <1>17 DEF Following, Expected
<1> QED BY <1>1, <1>3, <1>15, <1>16, <1>18, ReadsOn

\* The loop over a list goes on for every row, and is left after the last.
LEMMA AuctionsFind ==
    ASSUME IInv, WInv, whole, NextAuction
    PROVE  WInv'
<1>1. /\ outcome = "none" /\ ops # <<>> /\ Head(ops) = "auctions"
      /\ ops' = Again(<<"space", "auction", "space", "state">>)
      /\ UNCHANGED <<asked, packet, whole, side, line, last, errors, pending, fields, outcome>>
  BY DEF NextAuction, AtCall, Next1
<1>2. /\ Head(ops) \notin Alphabet \cup {"kind", "delimiter"} /\ Head(ops) \in Deciding
  BY <1>1, LettersOfTheAlphabet DEF Deciding
<1>3. /\ side \in {"server", "client"} /\ asked \in Requests /\ WellFormed(packet)
      /\ line \in Seq(Tokens) /\ pending \in Seq(Tokens) /\ Len(pending) <= 1
      /\ errors = 0 /\ packet.kind \in Expected /\ Ordered /\ Head(ops) = ops[1]
      /\ Len(Written(packet)) \in Nat
  BY <1>1, <1>2, AtAWholeCall
<1>4. PICK k \in Nat : /\ Stands(k, Len(Written(packet)))
                       /\ Following(k) /\ Telling(k) /\ Finds(packet, ops, k)
  BY <1>1, <1>2, AtAWholeCall
<1>5. AtRow(packet, ops, k)
  <2>1. Decides(packet, ops, k)
    BY <1>1, <1>2, <1>4, NextTakes
  <2> QED BY <1>1, <2>1 DEF Decides, AtStatus, AtFile, AtEvent, AtNewline
<1>6. ops = <<"auctions", "delimiter">>
  BY <1>5 DEF AtRow
<1>7. PICK r \in 0 .. TextLength(packet), j \in 0 .. TextLength(packet) :
        ListOf(packet, r) /\ j \in 0 .. r /\ k = 5 + 4 * j
  <2>1. PICK r \in 0 .. TextLength(packet) : ListOf(packet, r) /\ \E j \in 0 .. r : k = 5 + 4 * j
    BY <1>5 DEF AtRow
  <2>2. PICK j \in 0 .. r : k = 5 + 4 * j
    BY <2>1
  <2>3. TextLength(packet) \in Nat
    BY <1>3, TextEnds
  <2>4. j \in 0 .. TextLength(packet)
    BY <2>3
  <2> QED BY <2>1, <2>2, <2>4
<1>8. r \in Nat /\ j \in Nat /\ TextLength(packet) = 1 + 2 * r /\ ~HasFile(packet) /\ j <= r
  BY <1>7 DEF ListOf
<1>9. Stands(k, Len(Written(packet)))'
  <2>1. PICK L : L = Len(Written(packet)) /\ Stands(k, L)
    BY <1>4
  <2>2. Stands(k, L)'
    BY <1>1, <2>1, StandsStill
  <2>3. L = Len(Written(packet))'
    BY <1>1, <2>1
  <2> QED BY <2>2, <2>3
<1>10. CASE j < r
  <2>1. 1 + 2 * j \in 1 .. TextLength(packet) /\ 1 + 2 * j < TextLength(packet)
        /\ 4 + 2 * (1 + 2 * j) = k + 1
    BY <1>7, <1>8, <1>10
  <2>2. k + 1 \in 4 .. Len(Written(packet)) /\ Written(packet)[k + 1] = Space
    <3>1. PICK i : i = 1 + 2 * j
      OBVIOUS
    <3>2. i \in 1 .. TextLength(packet) /\ i < TextLength(packet) /\ 4 + 2 * i = k + 1
      BY <2>1, <3>1
    <3>3. 4 + 2 * i \in 4 .. Len(Written(packet)) /\ Written(packet)[4 + 2 * i] = Space
      BY <1>3, <3>2, TextStands
    <3> QED BY <3>2, <3>3
  <2>3. Head(Ahead) = Space
    BY <1>3, <1>4, <2>2, TakenIsAhead
  <2>4. ops' = <<"space", "auction", "space", "state">> \o <<"auctions", "delimiter">>
    BY <1>1, <1>6, <2>3, Disjoint DEF Again, AtEnd
  <2>5. Finds(packet, <<"space", "auction", "space", "state">> \o <<"auctions", "delimiter">>, k)
    <3>1. j \in 0 .. r - 1
      BY <1>8, <1>10
    <3> QED BY <1>3, <1>7, <3>1, RowFinds
  <2>6. Following(k)'
    BY <1>1, <1>3, <2>4, <2>5 DEF Following, Expected
  <2> QED BY <1>1, <1>3, <1>9, <2>6, ReadsOn
<1>11. CASE j = r
  <2>1. Len(Written(packet)) = 4 + 2 * TextLength(packet)
        /\ Written(packet)[Len(Written(packet))] = Newline
    BY <1>3, <1>8, TextEnds
  <2>2. k + 1 = 4 + 2 * TextLength(packet) /\ k + 1 >= 4
    BY <1>7, <1>8, <1>11
  <2>3. k + 1 = Len(Written(packet)) /\ k + 1 \in 4 .. Len(Written(packet))
        /\ Written(packet)[k + 1] = Newline
    BY <1>3, <2>1, <2>2
  <2>4. Ahead # <<>> /\ Head(Ahead) = Newline
    BY <1>3, <1>4, <2>3, TakenIsAhead
  <2>5. ops' = <<"delimiter">>
    <3>1. ops' = Tail(ops)
      BY <1>1, <2>4 DEF Again, AtEnd
    <3> QED BY <1>6, <3>1
  <2>6. Finds(packet, <<"delimiter">>, k)
    <3>1. Decides(packet, <<"delimiter">>, k)
      BY <2>3 DEF Decides, AtNewline
    <3>2. k \in 0 .. Len(Written(packet))
      BY <1>3, <2>3
    <3>3. <<"delimiter">> \in Seq(StreamCalls \cup DatagramCalls)
      BY DEF StreamCalls, DatagramCalls
    <3> QED BY <3>1, <3>2, <3>3, FindsNow
  <2>7. Following(k)'
    BY <1>1, <1>3, <2>5, <2>6 DEF Following, Expected
  <2> QED BY <1>1, <1>3, <1>9, <2>7, ReadsOn
<1> QED BY <1>8, <1>10, <1>11

\* The marks of bids among the first tokens of a record, as many as bids.
LEMMA BidsCounted ==
    ASSUME NEW b, RecordOf(packet, b), NEW j \in 0 .. b,
           fields = SubSeq(Text(packet), 1, 7 + 5 * j), WellFormed(packet)
    PROVE  ~TooManyBids
<1>1. b \in Nat /\ b <= MaxShown /\ MaxShown \in Nat
  BY BoundAssumption DEF RecordOf
<1>2. PICK t, h : t = Text(packet) /\ h = 7 + 5 * j
  OBVIOUS
<1>3. h \in Nat /\ j \in Nat
  BY <1>1, <1>2
<1>4. t \in Seq(Values \cup Sizes \cup Marks) /\ Len(t) >= h /\ Len(t) \in Nat
  <2>1. Len(t) = 7 + 5 * b + (IF packet.end = <<>> THEN 0 ELSE 3)
    BY <1>2 DEF RecordOf, TextLength
  <2> QED BY <1>1, <1>2, <1>3, <2>1, ContentIsText
<1>5. Len(fields) = h /\ \A i \in 1 .. h : fields[i] = t[i]
  <2>1. \A i \in 1 .. h : t[i] \in Values \cup Sizes \cup Marks
    BY <1>3, <1>4
  <2>2. /\ Len(SubSeq(t, 1, h)) = IF 1 <= h THEN h - 1 + 1 ELSE 0
        /\ \A i \in 1 .. h - 1 + 1 : SubSeq(t, 1, h)[i] = t[1 + i - 1]
    BY <1>3, <2>1, SubSeqProperties
  <2>3. fields = SubSeq(t, 1, h)
    BY <1>2
  <2> QED BY <1>2, <1>3, <2>2, <2>3
<1>6. DOMAIN fields = 1 .. h
  <2>1. fields \in Seq(Values \cup Sizes \cup Marks)
    BY <1>2, <1>3, <1>4, SubSeqProperties
  <2> QED BY <1>5, <2>1
<1> DEFINE S == {i \in DOMAIN fields : fields[i] = BidMark}
           f == [i \in S |-> (i - 8) \div 5]
<1>7. BidMark[1] = "char" /\ BidMark # Status("OK")
  BY DEF BidMark, Char, Status
<1>8. ASSUME NEW i \in 1 .. h, t[i] = BidMark
      PROVE  (i - 8) \div 5 \in 0 .. j - 1 /\ i = 8 + 5 * ((i - 8) \div 5)
  <2>1. i # 1
    BY <1>2, <1>7, <1>8 DEF RecordOf
  <2>2. \A n \in 1 .. 6 : i # 1 + n
    <3>1. \A n \in 1 .. 6 : t[1 + n][1] = <<"user", "word", "file", "int", "date", "int">>[n]
      BY <1>2 DEF RecordOf
    <3>2. \A n \in 1 .. 6 : <<"user", "word", "file", "int", "date", "int">>[n] # "char"
      OBVIOUS
    <3> QED BY <1>7, <1>8, <3>1, <3>2
  <2>3. i >= 8
    <3>1. 1 + 1 = 2 /\ 1 + 2 = 3 /\ 1 + 3 = 4 /\ 1 + 4 = 5 /\ 1 + 5 = 6 /\ 1 + 6 = 7
      OBVIOUS
    <3>2. i # 2 /\ i # 3 /\ i # 4 /\ i # 5 /\ i # 6 /\ i # 7
      BY <2>2, <3>1
    <3> QED BY <1>3, <2>1, <3>2
  <2>4. PICK q \in Nat, r \in 0 .. 4 : q = (i - 8) \div 5 /\ i = 8 + 5 * q + r
    <3>1. (i - 8) \div 5 \in Nat /\ (i - 8) % 5 \in 0 .. 4
          /\ i = 8 + 5 * ((i - 8) \div 5) + ((i - 8) % 5)
      BY <1>3, <2>3
    <3> QED BY <3>1
  <2>5. q \in 0 .. j - 1
    <3>1. 8 + 5 * q <= h /\ h = 7 + 5 * j
      BY <1>2, <1>3, <2>4
    <3>2. q < j
      BY <1>3, <3>1
    <3> QED BY <1>3, <3>2
  <2>6. r = 0
    <3> SUFFICES ASSUME r \in 1 .. 4 PROVE FALSE
      BY <2>4
    <3>1. q \in 0 .. b - 1
      BY <1>1, <1>3, <2>5
    <3>2. t[7 + 5 * q + 1 + r][1] = <<"user", "int", "date", "int">>[r]
      BY <1>2, <3>1 DEF RecordOf
    <3>3. 7 + 5 * q + 1 + r = i
      BY <2>4
    <3>4. \A n \in 1 .. 4 : <<"user", "int", "date", "int">>[n] # "char"
      OBVIOUS
    <3> QED BY <1>7, <1>8, <3>2, <3>3, <3>4
  <2> QED BY <2>4, <2>5, <2>6
<1>9. \A i \in S : (i - 8) \div 5 \in 0 .. j - 1 /\ i = 8 + 5 * ((i - 8) \div 5)
  BY <1>5, <1>6, <1>8
<1>10. f \in Injection(S, 0 .. j - 1)
  <2>1. f \in [S -> 0 .. j - 1]
    BY <1>9
  <2>2. \A x, y \in S : f[x] = f[y] => x = y
    BY <1>9
  <2>3. DOMAIN f = S
    OBVIOUS
  <2> HIDE DEF S, f
  <2>4. IsInjective(f)
    BY <2>2, <2>3 DEF IsInjective
  <2> QED BY <2>1, <2>4 DEF Injection
<1>11. IsFiniteSet(0 .. j - 1) /\ Cardinality(0 .. j - 1) = j
  <2>1. 0 \in Int /\ j - 1 \in Int /\ (IF 0 > j - 1 THEN 0 ELSE (j - 1) - 0 + 1) = j
    BY <1>3
  <2>2. PICK a \in Int, c \in Int : a = 0 /\ c = j - 1
    BY <2>1
  <2>3. IsFiniteSet(a .. c) /\ Cardinality(a .. c) = IF a > c THEN 0 ELSE c - a + 1
    BY FS_Interval
  <2> QED BY <2>1, <2>2, <2>3
<1>12. Cardinality(S) \in Nat /\ Cardinality(S) <= j
  <2>1. IsFiniteSet(S) /\ Cardinality(S) <= Cardinality(0 .. j - 1)
    <3>1. PICK D, I : D = S /\ I = 0 .. j - 1
      OBVIOUS
    <3>2. PICK g \in Injection(D, I) : TRUE
      BY <1>10, <3>1
    <3>3. IsFiniteSet(I)
      BY <1>11, <3>1
    <3>4. IsFiniteSet(D) /\ Cardinality(D) <= Cardinality(I)
      BY <3>2, <3>3, FS_Injection
    <3> QED BY <3>1, <3>4
  <2> QED BY <1>11, <2>1, FS_CardinalityType
<1>13. BidsRead = Cardinality(S)
  BY DEF BidsRead
<1>14. BidsRead \in Nat /\ BidsRead <= j
  BY <1>12, <1>13
<1>15. j <= b
  OBVIOUS
<1> HIDE DEF S, f
<1> QED BY <1>1, <1>3, <1>14, <1>15 DEF TooManyBids

\* A space and the next token of the text are ahead.
LEMMA MarkIsAhead ==
    ASSUME WellFormed(packet), line \in Seq(Tokens), pending = <<>>, NEW k \in Nat,
           Stands(k, Len(Written(packet))), NEW i \in 1 .. TextLength(packet), k + 1 = 2 + 2 * i
    PROVE  /\ line # <<>> /\ Len(line) >= 2 /\ line[1] = Space /\ line[2] = Text(packet)[i]
           /\ Ahead = line
<1>1. PICK L : L = Len(Written(packet))
  OBVIOUS
<1>2. Stands(k, L)
  BY <1>1
<1>3. /\ k \in Nat /\ L \in Nat /\ Len(Ahead) = L - k
      /\ \A j \in 1 .. L - k : Ahead[j] = Written(packet)[k + j]
  BY <1>2, AheadAt
<1>4. Ahead = line
  BY ConcatEmptySeq DEF Ahead
<1>5. k + 1 \in 4 .. L /\ k + 2 \in 4 .. L /\ Written(packet)[k + 1] = Space
      /\ Written(packet)[k + 2] = Text(packet)[i]
  <2>1. /\ 2 + 2 * i \in 4 .. Len(Written(packet)) /\ Written(packet)[2 + 2 * i] = Space
        /\ 3 + 2 * i \in 4 .. Len(Written(packet)) /\ Written(packet)[3 + 2 * i] = Text(packet)[i]
    BY TextStands
  <2>2. TextLength(packet) \in Nat
    BY TextEnds
  <2>3. k + 2 = 3 + 2 * i
    BY <2>2
  <2> QED BY <1>1, <2>1, <2>3
<1>6. 1 \in 1 .. L - k /\ 2 \in 1 .. L - k /\ L - k >= 2 /\ L - k \in Nat
  BY <1>3, <1>5
<1>7. Ahead[1] = Written(packet)[k + 1] /\ Ahead[2] = Written(packet)[k + 2]
  BY <1>3, <1>6
<1>8. PICK a \in Nat : a = L - k
  BY <1>6
<1>9. Len(line) = a /\ a >= 2
  BY <1>3, <1>4, <1>6, <1>8
<1>10. line # <<>>
  BY <1>9
<1> QED BY <1>4, <1>5, <1>7, <1>9, <1>10

\* The loop over a record's events goes on for every bid that is shown, the end of the
\* auction comes after the last, and there are never too many.
LEMMA EventsFind ==
    ASSUME IInv, WInv, whole, NextEvent
    PROVE  WInv'
<1>1. outcome = "none" /\ ops # <<>> /\ Head(ops) = "events"
  BY DEF NextEvent, AtCall, Next1
<1>2. /\ Head(ops) \notin Alphabet \cup {"kind", "delimiter"} /\ Head(ops) \in Deciding
  BY <1>1, LettersOfTheAlphabet DEF Deciding
<1>3. /\ side \in {"server", "client"} /\ asked \in Requests /\ WellFormed(packet)
      /\ line \in Seq(Tokens) /\ pending \in Seq(Tokens) /\ Len(pending) <= 1
      /\ errors = 0 /\ packet.kind \in Expected /\ Ordered /\ Head(ops) = ops[1]
      /\ Len(Written(packet)) \in Nat
  BY <1>1, <1>2, AtAWholeCall
<1>4. PICK k \in Nat : /\ Stands(k, Len(Written(packet)))
                       /\ Following(k) /\ Telling(k) /\ Finds(packet, ops, k)
  BY <1>1, <1>2, AtAWholeCall
<1>5. AtEvent(packet, ops, k)
  <2>1. Decides(packet, ops, k)
    BY <1>1, <1>2, <1>4, NextTakes
  <2> QED BY <1>1, <2>1 DEF Decides, AtStatus, AtFile, AtRow, AtNewline
<1>6. ops = <<"events", "delimiter">>
  BY <1>5 DEF AtEvent
<1>7. PICK b \in 0 .. TextLength(packet), j \in Nat :
        RecordOf(packet, b) /\ j \in 0 .. b /\ k = 17 + 10 * j
  <2>1. PICK b \in 0 .. TextLength(packet) : RecordOf(packet, b) /\ \E j \in 0 .. b : k = 17 + 10 * j
    BY <1>5 DEF AtEvent
  <2>2. PICK j \in 0 .. b : k = 17 + 10 * j
    BY <2>1
  <2>3. j \in Nat
    OBVIOUS
  <2> QED BY <2>1, <2>2, <2>3
<1>8. /\ b \in Nat /\ j \in Nat /\ j <= b /\ ~HasFile(packet)
      /\ TextLength(packet) = 7 + 5 * b + (IF packet.end = <<>> THEN 0 ELSE 3)
  BY <1>7 DEF RecordOf
<1>9. pending = <<>>
  BY <1>1, <1>3, OnlyOnDatagrams
<1>10. fields = SubSeq(Text(packet), 1, 7 + 5 * j)
  <2>1. Told(k)
    BY <1>4 DEF Telling
  <2>2. fields = SubSeq(Text(packet), 1, (k - 3) \div 2)
    BY <1>8, <2>1 DEF Told
  <2>3. (k - 3) \div 2 = 7 + 5 * j
    BY <1>7, <1>8
  <2> QED BY <2>2, <2>3
<1>11. ~TooManyBids
  BY <1>3, <1>7, <1>10, BidsCounted
<1>12. UNCHANGED <<asked, packet, whole, side, last, errors, pending, fields, outcome>>
  BY <1>11 DEF NextEvent
<1>13. BidMark # EndMark
  BY DEF BidMark, EndMark, Char
<1>14. ASSUME line # <<>>, Ahead = line, line' = Tail(line),
              NEW c, ops' = c, Finds(packet, c, k + 1)
       PROVE  WInv'
  <2>1. Ahead' = Tail(Ahead)
    <3>1. Tail(line) \in Seq(Tokens)
      BY <1>3, <1>14
    <3> QED BY <1>9, <1>12, <1>14, <3>1, ConcatEmptySeq DEF Ahead
  <2>2. Stands(k + 1, Len(Written(packet)))'
    <3>1. PICK L : L = Len(Written(packet)) /\ Stands(k, L)
      BY <1>4
    <3>2. Stands(k + 1, L)'
      BY <1>3, <1>12, <1>14, <2>1, <3>1, StandsNext
    <3>3. L = Len(Written(packet))'
      BY <1>12, <3>1
    <3> QED BY <3>2, <3>3
  <2>3. Following(k + 1)'
    BY <1>3, <1>12, <1>14 DEF Following, Expected
  <2> QED BY <1>1, <1>3, <1>12, <2>2, <2>3, ReadsOn
<1>15. CASE j < b
  <2>1. PICK i : i = 8 + 5 * j
    OBVIOUS
  <2>2. i \in 1 .. TextLength(packet) /\ k + 1 = 2 + 2 * i /\ k + 1 = 18 + 10 * j
    BY <1>7, <1>8, <1>15, <2>1
  <2>3. Text(packet)[i] = BidMark
    <3>1. j \in 0 .. b - 1 /\ i = 7 + 5 * j + 1
      BY <1>8, <1>15, <2>1
    <3> QED BY <1>7, <3>1 DEF RecordOf
  <2>4. /\ line # <<>> /\ Len(line) >= 2 /\ line[1] = Space /\ line[2] = BidMark /\ Ahead = line
    BY <1>3, <1>4, <1>9, <2>2, <2>3, MarkIsAhead
  <2>5. line' = Tail(line) /\ ops' = ReadBidEvent \o ops
    BY <1>11, <1>13, <2>4 DEF NextEvent
  <2>6. Finds(packet, ReadBidEvent \o <<"events", "delimiter">>, k + 1)
    <3>1. j \in 0 .. b - 1
      BY <1>8, <1>15
    <3>2. Finds(packet, ReadBidEvent \o <<"events", "delimiter">>, 18 + 10 * j)
      BY <1>3, <1>7, <3>1, BidFinds
    <3> QED BY <2>2, <3>2
  <2> QED BY <1>6, <1>14, <2>4, <2>5, <2>6
<1>16. CASE j = b /\ packet.end # <<>>
  <2>1. PICK i : i = 8 + 5 * b
    OBVIOUS
  <2>2. i \in 1 .. TextLength(packet) /\ k + 1 = 2 + 2 * i /\ k + 1 = 18 + 10 * b
    BY <1>7, <1>8, <1>16, <2>1
  <2>3. Text(packet)[i] = EndMark
    <3>1. i = 7 + 5 * b + 1
      BY <1>8, <2>1
    <3> QED BY <1>7, <1>16, <3>1 DEF RecordOf
  <2>4. /\ line # <<>> /\ Len(line) >= 2 /\ line[1] = Space /\ line[2] = EndMark /\ Ahead = line
    BY <1>3, <1>4, <1>9, <2>2, <2>3, MarkIsAhead
  <2>5. line' = Tail(line) /\ ops' = ReadEndEvent \o Tail(ops)
    BY <1>11, <1>13, <2>4 DEF NextEvent
  <2>6. Finds(packet, ReadEndEvent \o <<"delimiter">>, k + 1)
    <3>1. Finds(packet, ReadEndEvent \o <<"delimiter">>, 18 + 10 * b)
      BY <1>3, <1>7, <1>16, EndFinds
    <3> QED BY <2>2, <3>1
  <2>7. Tail(ops) = <<"delimiter">>
    BY <1>6
  <2> QED BY <1>14, <2>4, <2>5, <2>6, <2>7
<1>17. CASE j = b /\ packet.end = <<>>
  <2>1. Len(Written(packet)) = 4 + 2 * TextLength(packet)
    BY <1>3, <1>8, TextEnds
  <2>2. TextLength(packet) = 7 + 5 * b
    BY <1>8, <1>17
  <2>3. 4 + 2 * TextLength(packet) = k + 1
    BY <1>7, <1>8, <1>17, <2>2
  <2>4. k + 1 = Len(Written(packet))
    BY <2>1, <2>3
  <2>5. ~(Len(line) >= 2)
    <3>1. PICK L : L = Len(Written(packet)) /\ Stands(k, L)
      BY <1>4
    <3>2. Len(Ahead) = L - k /\ L = k + 1
      BY <1>3, <2>4, <3>1, AheadAt
    <3>3. Ahead = line
      BY <1>3, <1>9, ConcatEmptySeq DEF Ahead
    <3>4. L - k = 1
      BY <3>2
    <3>5. Len(line) = 1
      BY <3>2, <3>3, <3>4
    <3> QED BY <3>5
  <2>6. line' = line /\ ops' = <<"delimiter">>
    <3>1. line' = line /\ ops' = Tail(ops)
      BY <1>11, <2>5 DEF NextEvent
    <3> QED BY <1>6, <3>1
  <2>7. Finds(packet, <<"delimiter">>, k)
    <3>1. Decides(packet, <<"delimiter">>, k)
      BY <2>4 DEF Decides, AtNewline
    <3>2. k \in 0 .. Len(Written(packet))
      BY <1>3, <2>4
    <3>3. <<"delimiter">> \in Seq(StreamCalls \cup DatagramCalls)
      BY DEF StreamCalls, DatagramCalls
    <3> QED BY <3>1, <3>2, <3>3, FindsNow
  <2>8. Stands(k, Len(Written(packet)))'
    <3>1. PICK L : L = Len(Written(packet)) /\ Stands(k, L)
      BY <1>4
    <3>2. Stands(k, L)'
      BY <1>12, <2>6, <3>1, StandsStill
    <3>3. L = Len(Written(packet))'
      BY <1>12, <3>1
    <3> QED BY <3>2, <3>3
  <2>9. Following(k)'
    BY <1>3, <1>12, <2>6, <2>7 DEF Following, Expected
  <2> QED BY <1>1, <1>3, <1>12, <2>8, <2>9, ReadsOn
<1> QED BY <1>8, <1>15, <1>16, <1>17

\* The file that is read is all there.
LEMMA DataFinds ==
    ASSUME IInv, WInv, whole, ReadData
    PROVE  WInv'
<1>1. outcome = "none" /\ ops # <<>> /\ Head(ops) = "data"
  BY DEF ReadData, AtCall, Next1
<1>2. /\ Head(ops) \notin Alphabet \cup {"kind", "delimiter"} /\ Head(ops) \in Deciding
  BY <1>1, LettersOfTheAlphabet DEF Deciding
<1>3. /\ side \in {"server", "client"} /\ asked \in Requests /\ WellFormed(packet)
      /\ line \in Seq(Tokens) /\ pending \in Seq(Tokens) /\ Len(pending) <= 1
      /\ errors = 0 /\ packet.kind \in Expected /\ Ordered /\ Head(ops) = ops[1]
      /\ Len(Written(packet)) \in Nat
  BY <1>1, <1>2, AtAWholeCall
<1>4. PICK k \in Nat : /\ Stands(k, Len(Written(packet)))
                       /\ Following(k) /\ Telling(k) /\ Finds(packet, ops, k)
  BY <1>1, <1>2, AtAWholeCall
<1>5. ops = <<"data", "delimiter">>
  <2>1. Decides(packet, ops, k)
    BY <1>1, <1>2, <1>4, NextTakes
  <2> QED BY <1>1, <2>1 DEF Decides, AtStatus, AtFile, AtRow, AtEvent, AtNewline
<1>6. pending = <<>>
  BY <1>1, <1>3, NoDataOnDatagrams DEF Ordered
<1>7. SizeRead /\ k % 2 = 0 /\ Told(k)
  BY <1>1, <1>3, <1>4 DEF Telling, FileAhead
<1>8. /\ HasFile(packet) /\ k = 4 + 2 * TextLength(packet)
      /\ fields[Len(fields)][2] = Len(packet.data)
  BY <1>3, <1>7, AtTheFile
<1>9. PICK n \in Nat : n = Len(packet.data) /\ n = fields[Len(fields)][2]
  BY <1>3, <1>8, TextEnds
<1>10. PICK L \in Nat : L = Len(Written(packet)) /\ Stands(k, L) /\ L = k + n + 1
  <2>1. PICK L \in Nat : L = Len(Written(packet)) /\ Stands(k, L)
    BY <1>3, <1>4
  <2>2. L = 5 + 2 * TextLength(packet) + n /\ TextLength(packet) \in Nat
    BY <1>3, <1>8, <1>9, <2>1, TextEnds
  <2>3. L = k + n + 1
    BY <1>8, <2>2
  <2> QED BY <2>1, <2>3
<1>11. Len(line) >= n
  <2>1. Len(Ahead) = L - k
    BY <1>3, <1>10, AheadAt
  <2>2. Ahead = line
    BY <1>3, <1>6, ConcatEmptySeq DEF Ahead
  <2>3. PICK a : a = Len(line) /\ a = L - k
    BY <2>1, <2>2
  <2>4. a >= n
    BY <1>10, <2>3
  <2> QED BY <2>3, <2>4
<1>12. /\ line' = SubSeq(line, n + 1, Len(line)) /\ ops' = Tail(ops)
       /\ UNCHANGED <<asked, packet, whole, side, last, errors, pending, outcome>>
  BY <1>9, <1>11 DEF ReadData
<1>13. Stands(k + n, Len(Written(packet)))'
  <2>1. Stands(k + n, L)'
    BY <1>3, <1>6, <1>10, <1>11, <1>12, DataMoves
  <2>2. L = Len(Written(packet))'
    BY <1>10, <1>12
  <2> QED BY <2>1, <2>2
<1>14. Finds(packet, <<"delimiter">>, k + n)
  <2>1. k + n + 1 = Len(Written(packet)) /\ k + n \in 0 .. Len(Written(packet))
    BY <1>10
  <2>2. Decides(packet, <<"delimiter">>, k + n)
    BY <2>1 DEF Decides, AtNewline
  <2>3. <<"delimiter">> \in Seq(StreamCalls \cup DatagramCalls)
    BY DEF StreamCalls, DatagramCalls
  <2> QED BY <2>1, <2>2, <2>3, FindsNow
<1>15. Following(k + n)'
  <2>1. ops' = <<"delimiter">>
    BY <1>5, <1>12
  <2> QED BY <1>3, <1>12, <1>14, <2>1 DEF Following, Expected
<1> QED BY <1>1, <1>3, <1>12, <1>13, <1>15, ReadsOn

\* The newline comes when it is looked for.
LEMMA DelimiterFinds ==
    ASSUME IInv, WInv, whole, ReadDelimiter
    PROVE  WInv'
<1>1. outcome = "none" /\ ops # <<>> /\ Head(ops) = "delimiter"
  BY DEF ReadDelimiter, AtCall, Next1
<1>2. /\ Head(ops) \notin Alphabet \cup {"kind"} /\ Head(ops) \in Deciding
  BY <1>1, LettersOfTheAlphabet DEF Deciding
<1>3. /\ side \in {"server", "client"} /\ asked \in Requests /\ WellFormed(packet)
      /\ line \in Seq(Tokens) /\ pending \in Seq(Tokens) /\ Len(pending) <= 1
  BY <1>1, <1>2, AtWholeCalls
<1>4. PICK k \in Nat : /\ Stands(k, Len(Written(packet)))
                       /\ Confirming(k) \/ (Following(k) /\ Telling(k))
  BY <1>1, <1>2, AtWholeCalls
\* Either way the newline is all that is left.
<1>5. k + 1 = Len(Written(packet)) /\ k >= 3
  <2>1. CASE Confirming(k)
    BY <2>1, RefusalIsWritten DEF Confirming
  <2>2. CASE Following(k) /\ Telling(k)
    <3>1. Decides(packet, ops, k)
      BY <1>1, <1>2, <2>2, NextTakes DEF Following
    <3> QED BY <1>1, <2>2, <3>1 DEF Decides, AtStatus, AtFile, AtRow, AtEvent, AtNewline, Telling
  <2> QED BY <1>4, <2>1, <2>2
<1>6. k + 1 \in 4 .. Len(Written(packet)) /\ Written(packet)[k + 1] = Newline
  <2>1. Written(packet)[Len(Written(packet))] = Newline /\ Len(Written(packet)) \in Nat
    BY <1>3, TextEnds
  <2> QED BY <1>5, <2>1
<1>7. Ahead # <<>> /\ Head(Ahead) = Newline
  BY <1>3, <1>4, <1>6, TakenIsAhead
<1>8. Len(Ahead) = 1
  <2>1. PICK L \in Nat : L = Len(Written(packet)) /\ Stands(k, L) /\ L = k + 1
    <3>1. Len(Written(packet)) \in Nat
      BY <1>3, TextEnds
    <3> QED BY <1>4, <1>5, <3>1
  <2>2. Len(Ahead) = L - k
    BY <1>3, <2>1, AheadAt
  <2>3. L - k = 1
    BY <2>1
  <2> QED BY <2>2, <2>3
<1>9. /\ outcome' = (IF errors = 3 THEN "error" ELSE "read")
      /\ UNCHANGED <<asked, packet, whole, side>>
  BY <1>7, <1>8 DEF ReadDelimiter, ErrorConfirmed
<1>10. WholeIsRecognised'
  <2>1. CASE Confirming(k)
    <3>1. packet.kind = "ERR" /\ errors = 3 /\ side = "client"
      BY <2>1, RefusalIsWellFormed DEF Confirming
    <3>2. ReplyTo(asked) # "ERR"
      BY <1>3, NoReplyHasAnE DEF ReplyKinds
    <3> QED BY <1>9, <3>1, <3>2 DEF WholeIsRecognised, Expected
  <2>2. CASE Following(k)
    <3>1. packet.kind \in Expected /\ errors = 0
      BY <2>2 DEF Following
    <3> QED BY <1>9, <3>1 DEF WholeIsRecognised, Expected
  <2> QED BY <1>4, <2>1, <2>2
<1> QED BY <1>3, <1>9, <1>10, EndsWell

\* Where the reader of a whole packet stands.
LEMMA WholeStands ==
    ASSUME WInv, side # "none", whole, outcome = "none"
    PROVE  \E k : /\ Stands(k, Len(Written(packet)))
                  /\ Starting(k) \/ OnName(k) \/ Confirming(k) \/ Following(k)
BY DEF WInv

\* The name that arrived is the packet's.
LEMMA NameIsNamed ==
    ASSUME WellFormed(packet), line \in Seq(Tokens), pending = <<>>,
           Stands(0, Len(Written(packet)))
    PROVE  Named(packet.kind)
<1>1. PICK L : L = Len(Written(packet)) /\ Stands(0, L)
  OBVIOUS
<1>2. /\ L \in Nat /\ Len(Ahead) = L - 0 /\ Written(packet) \in Seq(Tokens)
      /\ \A i \in 1 .. L - 0 : Ahead[i] = Written(packet)[0 + i]
  BY <1>1, AheadAt
<1>3. Ahead = line
  BY ConcatEmptySeq DEF Ahead
<1>4. L >= 4
  <2>1. L >= 4 + 2 * TextLength(packet) /\ TextLength(packet) \in Nat
    BY <1>1, TextEnds
  <2> QED BY <1>2, <2>1
<1>5. PICK h \in Nat : h = Len(line) /\ h >= 4
  <2>1. L - 0 = L
    BY <1>2
  <2> QED BY <1>2, <1>3, <1>4, <2>1
<1>6. packet.kind \in DOMAIN Letters
      /\ \A i \in 1 .. 3 : Written(packet)[i] = Char(Letters[packet.kind][i])
  BY WrittenIsLaidOut DEF Layout, WellFormed
<1>7. \A i \in 1 .. 3 : line[i] = Char(Letters[packet.kind][i])
  <2> TAKE i \in 1 .. 3
  <2>1. i \in 1 .. L - 0 /\ 0 + i = i
    BY <1>2, <1>4
  <2> QED BY <1>2, <1>3, <1>6, <2>1
<1>8. PICK u : u = SubSeq(line, 1, 3)
  OBVIOUS
<1>9. u \in Seq(Tokens) /\ Len(u) = 3 /\ \A i \in 1 .. 3 : u[i] = line[i]
  <2>1. \A i \in 1 .. 3 : line[i] \in Tokens
    BY <1>5, ElementOfSeq
  <2>2. /\ SubSeq(line, 1, 3) \in Seq(Tokens)
        /\ Len(SubSeq(line, 1, 3)) = IF 1 <= 3 THEN 3 - 1 + 1 ELSE 0
        /\ \A i \in 1 .. 3 - 1 + 1 : SubSeq(line, 1, 3)[i] = line[1 + i - 1]
    BY <2>1, SubSeqProperties
  <2>3. 3 - 1 + 1 = 3 /\ \A i \in 1 .. 3 : 1 + i - 1 = i
    OBVIOUS
  <2> QED BY <1>8, <2>2, <2>3
<1>10. PICK v : v = Name(packet.kind)
  OBVIOUS
<1>11. v \in Seq(Names) /\ Len(v) = 3 /\ \A i \in 1 .. 3 : v[i] = Char(Letters[packet.kind][i])
  BY <1>6, <1>10, LettersOfTheAlphabet DEF Name, Names
<1>12. u = v
  <2>1. PICK S : S = Tokens \cup Names
    OBVIOUS
  <2>2. u \in Seq(S) /\ v \in Seq(S)
    BY <1>9, <1>11, <2>1, SeqMonotonic
  <2>3. Len(u) = Len(v) /\ \A i \in 1 .. Len(u) : u[i] = v[i]
    BY <1>7, <1>9, <1>11
  <2> QED BY <2>2, <2>3, SeqEqual
<1> QED BY <1>5, <1>8, <1>10, <1>12 DEF Named

\* The server finds the handler of what was asked.
LEMMA KindFinds ==
    ASSUME IInv, WInv, whole, ReadKind
    PROVE  WInv'
<1>1. outcome = "none" /\ ops # <<>> /\ Head(ops) = "kind"
  BY DEF ReadKind, AtCall, Next1
<1>2. /\ side = "server" /\ asked \in Requests /\ WellFormed(packet) /\ packet.kind = asked
      /\ line \in Seq(Tokens) /\ pending = <<>> /\ fields = <<>> /\ errors = 0
  BY <1>1, AtTheKind
<1>3. PICK k : /\ Stands(k, Len(Written(packet)))
               /\ Starting(k) \/ OnName(k) \/ Confirming(k) \/ Following(k)
  BY <1>1, <1>2, WholeStands
<1>4. ~Following(k)
  <2> SUFFICES ASSUME Following(k) PROVE FALSE
    OBVIOUS
  <2>1. Finds(packet, ops, k)
    BY DEF Following
  <2>2. k \in Nat
    BY <1>2, <1>3, AheadAt
  <2>3. ops \in Seq(StreamCalls \cup DatagramCalls)
    BY <1>1, <2>1, <2>2, NextTakes
  <2>4. Head(ops) \in StreamCalls \cup DatagramCalls
    BY <1>1, <2>3, HeadTailProperties
  <2> QED BY <1>1, <2>4 DEF StreamCalls, DatagramCalls
<1>5. Starting(k) /\ k = 0
  BY <1>2, <1>3, <1>4 DEF OnName, Confirming, Starting, AtKind
<1>6. Reads(ReadRequest(asked), packet, 0)
  BY <1>5 DEF Starting
<1>7. Named(asked) /\ asked \in Handlers
  <2>1. Named(asked)
    BY <1>2, <1>3, <1>5, NameIsNamed
  <2> QED BY <1>2, <2>1 DEF Handlers, OverUdp, Requests
<1>8. PICK h \in Handlers :
        /\ Named(h) /\ line' = SubSeq(line, 4, Len(line)) /\ ops' = ReadRequest(h)
        /\ UNCHANGED <<asked, packet, whole, side, last, errors, pending, fields, outcome>>
  BY <1>7 DEF ReadKind
<1>9. PICK L : L = Len(Written(packet)) /\ Stands(0, L)
  BY <1>3, <1>5
<1>10. h = asked /\ Stands(3, L)'
  BY <1>2, <1>8, <1>9, KindMoves
<1>11. Stands(3, Len(Written(packet)))'
  BY <1>8, <1>9, <1>10
<1>12. Finds(packet, ReadRequest(asked), 3)
  <2>1. Finds(packet, ReadRequest(asked), 3 + 2 * 0)
    BY <1>2, <1>6, ReadsFind
  <2> QED BY <2>1
<1>13. Following(3)'
  BY <1>2, <1>8, <1>10, <1>12 DEF Following, Expected
<1> QED BY <1>1, <1>2, <1>8, <1>11, <1>13, ReadsOn

\* The letter of the packet's name that the client compares next.
LEMMA LetterIsAhead ==
    ASSUME IInv, WInv, whole, ReadLetter
    PROVE  /\ side = "client" /\ asked \in Requests /\ WellFormed(packet) /\ outcome = "none"
           /\ pending = <<>> /\ line # <<>>
           /\ UNCHANGED <<asked, packet, whole, side, pending, fields>>
           /\ \E k : /\ Stands(k, Len(Written(packet))) /\ OnName(k)
                     /\ k \in 0 .. 2 /\ Stands(k + 1, Len(Written(packet)))'
                     /\ Head(line) = Char(Letters[packet.kind][k + 1])
                     /\ packet.kind \in DOMAIN Letters
                     /\ Head(ops) = Letters[ReplyTo(asked)][k + 1]
                     /\ Tail(ops) = CallsFrom((k + 1) + 1)
<1>1. outcome = "none" /\ ops # <<>> /\ Head(ops) \in Alphabet
  BY DEF ReadLetter, Next1
<1>2. /\ side = "client" /\ asked \in Requests /\ WellFormed(packet)
      /\ line \in Seq(Tokens) /\ pending = <<>> /\ fields = <<>> /\ errors \in 0 .. 2
  BY <1>1, AtALetter
<1>3. PICK k : /\ Stands(k, Len(Written(packet)))
               /\ Starting(k) \/ OnName(k) \/ Confirming(k) \/ Following(k)
  BY <1>1, <1>2, WholeStands
<1>4. Head(ops) \notin StreamCalls \cup DatagramCalls
  BY <1>1, LettersOfTheAlphabet DEF StreamCalls, DatagramCalls
<1>5. ~Following(k)
  <2> SUFFICES ASSUME Following(k) PROVE FALSE
    OBVIOUS
  <2>1. Finds(packet, ops, k)
    BY DEF Following
  <2>2. k \in Nat
    BY <1>2, <1>3, AheadAt
  <2>3. ops \in Seq(StreamCalls \cup DatagramCalls)
    BY <1>1, <2>1, <2>2, NextTakes
  <2> QED BY <1>1, <1>4, <2>3, HeadTailProperties
<1>6. ~Confirming(k)
  <2> SUFFICES ASSUME Confirming(k) PROVE FALSE
    OBVIOUS
  <2>1. Head(ops) = "delimiter"
    BY DEF Confirming
  <2> QED BY <1>4, <2>1 DEF StreamCalls
<1>7. OnName(k)
  BY <1>2, <1>3, <1>5, <1>6 DEF Starting, AtKind
<1>8. k \in 0 .. 2 /\ ops = CallsFrom(k + 1)
  BY <1>7 DEF OnName
<1>9. PICK L : L = Len(Written(packet)) /\ Stands(k, L)
  BY <1>3
<1>10. L \in Nat /\ L >= 4
  <2>1. L \in Nat /\ L >= 4 + 2 * TextLength(packet) /\ TextLength(packet) \in Nat
    BY <1>2, <1>9, TextEnds
  <2> QED BY <2>1
<1>11. Ahead = line
  BY <1>2, ConcatEmptySeq DEF Ahead
<1>12. Ahead # <<>>
  <2>1. Len(Ahead) = L - k
    BY <1>2, <1>9, AheadAt
  <2>2. L - k > 0 /\ Len(<<>>) = 0
    BY <1>8, <1>10
  <2> QED BY <2>1, <2>2
<1>13. Head(line) = Written(packet)[k + 1]
  BY <1>2, <1>9, <1>11, <1>12, AheadAt
<1>14. /\ packet.kind \in DOMAIN Letters
       /\ Written(packet)[k + 1] = Char(Letters[packet.kind][k + 1])
  <2>1. k + 1 \in 1 .. 3
    BY <1>8
  <2> QED BY <1>2, <2>1, WrittenIsLaidOut DEF Layout, WellFormed
<1>15. Head(ops) = Letters[ReplyTo(asked)][k + 1] /\ Tail(ops) = CallsFrom((k + 1) + 1)
  <2>1. k + 1 \in 1 .. 3
    BY <1>8
  <2> QED BY <1>2, <1>8, <2>1, CallsOfAName
<1>16. /\ UNCHANGED <<asked, packet, whole, side, pending, fields>>
       /\ line' = Tail(line)
  BY <1>11, <1>12 DEF ReadLetter
<1>17. Ahead' = Tail(Ahead)
  <2>1. Tail(line) \in Seq(Tokens)
    BY <1>2, <1>11, <1>12
  <2> QED BY <1>2, <1>11, <1>16, <2>1, ConcatEmptySeq DEF Ahead
<1>18. Stands(k + 1, Len(Written(packet)))'
  <2>1. Stands(k + 1, L)'
    BY <1>2, <1>9, <1>12, <1>16, <1>17, StandsNext
  <2>2. L = Len(Written(packet))'
    BY <1>9, <1>16
  <2> QED BY <2>1, <2>2
<1> QED BY <1>1, <1>2, <1>3, <1>7, <1>8, <1>11, <1>12, <1>13, <1>14, <1>15, <1>16, <1>18

\* After its name, an answer has its status.
LEMMA StatusIsNext ==
    ASSUME NEW p, WellFormed(p), p.kind \in ReplyKinds, ReplyFits(p)
    PROVE  Finds(p, <<"space", "status">>, 3)
<1>1. PICK s : s = <<"space", "status">>
  OBVIOUS
<1>2. /\ s \in Seq(StreamCalls \cup DatagramCalls) /\ Len(s) = 2
      /\ s[1] = "space" /\ s[2] = "status"
  BY <1>1 DEF StreamCalls, DatagramCalls
<1>3. Takes(p, "space", 4)
  <2>1. 1 \in 1 .. TextLength(p)
    BY DEF ReplyFits
  <2>2. Takes(p, "space", 2 + 2 * 1)
    BY <2>1, TakesText
  <2> QED BY <2>2
<1>4. Matches(p, s, 3, 1, 4)
  <2>1. \A j \in 1 .. 1 - 1 : FALSE
    OBVIOUS
  <2>2. \A j \in 1 .. 1 : s[j] # "date"
    BY <1>2
  <2>3. ~(1 >= 2) /\ 3 + 1 = 4 /\ 1 \in 0 .. Len(s)
    BY <1>2
  <2>4. 4 = IF 1 >= 2 /\ s[1 - 1] = "date" THEN 3 + 1 + 1 ELSE 3 + 1
    BY <2>3
  <2> QED BY <1>2, <1>3, <2>1, <2>2, <2>3, <2>4 DEF Matches
<1>5. SubSeq(s, 1 + 1, Len(s)) = <<"status">>
  <2>1. PICK n \in Nat : n = 1 /\ n + 1 = Len(s)
    BY <1>2
  <2>2. SubSeq(s, n + 1, Len(s)) = <<s[Len(s)]>>
    BY <1>2, <2>1, LastCall
  <2> QED BY <1>2, <2>1, <2>2
<1>6. Decides(p, <<"status">>, 4)
  BY DEF Decides, AtStatus
<1>7. 1 \in 0 .. Len(Written(p)) /\ 4 \in 0 .. Len(Written(p))
  <2>1. Len(Written(p)) \in Nat /\ 4 \in 4 .. Len(Written(p))
    BY <1>3, TextEnds DEF Takes
  <2> QED BY <2>1
<1> QED BY <1>1, <1>4, <1>5, <1>6, <1>7 DEF Finds

\* No letter of ERR is, at its place, one of an answer to a request on a stream.
LEMMA NoAnswerIsRefusal ==
    ASSUME NEW a \in TcpRequests, NEW i \in 1 .. 3
    PROVE  Letters["ERR"][i] # Letters[ReplyTo(a)][i]
<1>1. i = 1 \/ i = 2 \/ i = 3
  OBVIOUS
<1>2. ReplyTo(a) \in {"ROA", "RCL", "RSA", "RBD"}
  BY DEF ReplyTo, UdpRequests, UdpReply, TcpRequests, TcpReply
<1> QED BY <1>1, <1>2 DEF Letters

\* The client reads the name of the answer it waits for to the end, and gives another
\* up at the first letter that differs.
LEMMA AnswerLetterFinds ==
    ASSUME IInv, WInv, whole, ReadLetter, packet.kind \in ReplyKinds
    PROVE  WInv'
<1>1. /\ side = "client" /\ asked \in Requests /\ WellFormed(packet) /\ outcome = "none"
      /\ pending = <<>> /\ line # <<>>
      /\ UNCHANGED <<asked, packet, whole, side, pending, fields>>
  BY LetterIsAhead
<1>2. PICK k : /\ OnName(k)
               /\ k \in 0 .. 2 /\ Stands(k + 1, Len(Written(packet)))'
               /\ Head(line) = Char(Letters[packet.kind][k + 1])
               /\ packet.kind \in DOMAIN Letters
               /\ Head(ops) = Letters[ReplyTo(asked)][k + 1]
               /\ Tail(ops) = CallsFrom((k + 1) + 1)
  BY LetterIsAhead
<1>3. errors = 0 /\ LettersFit(k) /\ ReplyFits(packet)
  BY <1>2, RefusalIsWellFormed, NoReplyHasAnE DEF OnName
<1>4. \A c, d : Char(c) = Char(d) => c = d
  <2>1. \A c : Char(c)[2] = c
    BY DEF Char
  <2> QED BY <2>1
<1>5. Letter = {<<Head(line)>>}
  BY <1>1 DEF Letter
<1>6. \A c, d : <<c>> = <<d>> => c = d
  OBVIOUS
<1>7. CASE Letters[packet.kind][k + 1] = Letters[ReplyTo(asked)][k + 1]
  <2>1. Head(line) = Char(Head(ops))
    BY <1>2, <1>7
  <2>2. ops' = Tail(ops) /\ errors' = 0 /\ outcome' = "none"
    BY <1>1, <1>3, <1>5, <2>1 DEF ReadLetter, Next1
  <2>3. \A j \in 1 .. k + 1 : Letters[packet.kind][j] = Letters[ReplyTo(asked)][j]
    <3>1. \A j \in 1 .. k + 1 : j \in 1 .. k \/ j = k + 1
      BY <1>2
    <3> QED BY <1>3, <1>7, <3>1 DEF LettersFit
  <2>4. CASE k = 2
    <3>1. k + 1 = 3 /\ (k + 1) + 1 = 4
      BY <2>4
    <3>2. packet.kind = ReplyTo(asked)
      <4>1. ReplyTo(asked) \in DOMAIN Letters
        BY <1>1, KindsHaveLetters
      <4>2. /\ Letters[packet.kind][1] = Letters[ReplyTo(asked)][1]
            /\ Letters[packet.kind][2] = Letters[ReplyTo(asked)][2]
            /\ Letters[packet.kind][3] = Letters[ReplyTo(asked)][3]
        BY <2>3, <3>1
      <4> QED BY <1>2, <4>1, <4>2, NamesTellKinds
    <3>3. ops' = <<"space", "status">>
      BY <1>1, <1>2, <2>2, <3>1, CallsOfAName
    <3>4. Finds(packet, <<"space", "status">>, 3)
      BY <1>1, <1>3, StatusIsNext
    <3>5. Following(k + 1)'
      BY <1>1, <2>2, <3>1, <3>2, <3>3, <3>4 DEF Following, Expected
    <3> QED BY <1>1, <1>2, <2>2, <3>5, ReadsOn
  <2>5. CASE k # 2
    <3>1. k + 1 \in 0 .. 2
      BY <1>2, <2>5
    <3>2. CallsFrom((k + 1) + 1)' = CallsFrom((k + 1) + 1)
      BY <1>1 DEF CallsFrom
    <3>3. LettersFit(k + 1)'
      BY <1>1, <2>3 DEF LettersFit
    <3>4. OnName(k + 1)'
      BY <1>1, <1>2, <1>3, <2>2, <3>1, <3>2, <3>3 DEF OnName
    <3> QED BY <1>1, <1>2, <2>2, <3>4, ReadsOn
  <2> QED BY <2>4, <2>5
<1>8. CASE Letters[packet.kind][k + 1] # Letters[ReplyTo(asked)][k + 1]
  <2>1. Head(line) # Char(Head(ops))
    BY <1>2, <1>4, <1>8
  <2>2. Head(line) # Name("ERR")[errors + 1]
    <3>1. Name("ERR")[1] = Char("E")
      BY NoReplyHasAnE DEF Name
    <3>2. k + 1 \in 1 .. 3
      BY <1>2
    <3>3. Letters[packet.kind][k + 1] # "E"
      BY <3>2, NoReplyHasAnE
    <3> QED BY <1>2, <1>3, <1>4, <3>1, <3>3
  <2>3. outcome' = "unexpected"
    BY <1>5, <1>6, <2>1, <2>2 DEF ReadLetter, Next1
  <2>4. packet.kind # ReplyTo(asked) /\ packet.kind # "ERR"
    BY <1>8, NoReplyHasAnE
  <2>5. WholeIsRecognised'
    BY <1>1, <2>3, <2>4 DEF WholeIsRecognised, Expected
  <2> QED BY <1>1, <2>3, <2>5, EndsWell
<1> QED BY <1>7, <1>8

\* It reads ERR to the end.
LEMMA RefusalLetterFinds ==
    ASSUME IInv, WInv, whole, ReadLetter, packet.kind \notin ReplyKinds
    PROVE  WInv'
<1>1. /\ side = "client" /\ asked \in Requests /\ WellFormed(packet) /\ outcome = "none"
      /\ pending = <<>> /\ line # <<>>
      /\ UNCHANGED <<asked, packet, whole, side, pending, fields>>
  BY LetterIsAhead
<1>2. PICK k : /\ OnName(k)
               /\ k \in 0 .. 2 /\ Stands(k + 1, Len(Written(packet)))'
               /\ Head(line) = Char(Letters[packet.kind][k + 1])
               /\ packet.kind \in DOMAIN Letters
               /\ Head(ops) = Letters[ReplyTo(asked)][k + 1]
               /\ Tail(ops) = CallsFrom((k + 1) + 1)
  BY LetterIsAhead
<1>3. packet = Packet("ERR", <<>>) /\ errors = k /\ packet.kind = "ERR"
  BY <1>2, RefusalIsWellFormed DEF OnName
<1>4. asked \in TcpRequests
  BY <1>1, <1>3 DEF WInv
<1>5. k + 1 \in 1 .. 3
  BY <1>2
<1>6. Head(line) # Char(Head(ops))
  <2>1. Letters["ERR"][k + 1] # Letters[ReplyTo(asked)][k + 1]
    BY <1>4, <1>5, NoAnswerIsRefusal
  <2>2. \A c, d : Char(c) = Char(d) => c = d
    <3>1. \A c : Char(c)[2] = c
      BY DEF Char
    <3> QED BY <3>1
  <2> QED BY <1>2, <1>3, <2>1, <2>2
<1>7. Head(line) = Name("ERR")[errors + 1]
  BY <1>2, <1>3, <1>5 DEF Name
<1>8. Letter = {<<Head(line)>>}
  BY <1>1 DEF Letter
<1>9. \A c, d : <<c>> = <<d>> => c = d
  OBVIOUS
<1>10. /\ errors' = k + 1 /\ outcome' = "none"
       /\ ops' = IF k + 1 = 3 THEN <<"delimiter">> ELSE Tail(ops)
  BY <1>1, <1>3, <1>6, <1>7, <1>8, <1>9 DEF ReadLetter, Next1, ErrorConfirmed
<1>11. CASE k + 1 = 3
  <2>1. Confirming(k + 1)'
    BY <1>1, <1>3, <1>10, <1>11 DEF Confirming
  <2> QED BY <1>1, <1>2, <1>10, <2>1, ReadsOn
<1>12. CASE k + 1 # 3
  <2>1. k + 1 \in 0 .. 2
    BY <1>2, <1>12
  <2>2. CallsFrom((k + 1) + 1)' = CallsFrom((k + 1) + 1)
    BY <1>1 DEF CallsFrom
  <2>3. OnName(k + 1)'
    BY <1>1, <1>2, <1>3, <1>10, <1>12, <2>1, <2>2 DEF OnName
  <2> QED BY <1>1, <1>2, <1>10, <2>3, ReadsOn
<1> QED BY <1>11, <1>12

\* A datagram arrives whole, and of a whole packet nothing is read yet.
LEMMA ArrivesWhole ==
    ASSUME NEW p, WellFormed(p), NEW udp, NEW reader, NEW calls, Receive(p, udp, reader, calls)
    PROVE  /\ udp => whole'
           /\ whole' => Stands(0, Len(Written(packet)))'
<1>1. PICK m : Stands(0, m)' /\ m \in 0 .. Len(Written(p))
  BY ArrivalStands
<1>2. packet' = p
  BY DEF Receive
<1>3. ASSUME udp PROVE whole'
  <2>1. Written(p) \in Seq(Tokens) /\ Len(Written(p)) \in Nat
    BY WrittenIsLaidOut, LenProperties DEF Layout
  <2>2. PICK w \in Seq(Tokens) : w = Written(p)
    BY <2>1
  <2>3. whole' = (Len(SubSeq(w, 1, Len(w))) = Len(w))
    BY <1>3, <2>2 DEF Receive, Arrivals
  <2>4. SubSeq(w, 1, Len(w)) = w
    BY SubSeqFull
  <2> QED BY <2>3, <2>4
<1>4. ASSUME whole' PROVE Stands(0, Len(Written(packet)))'
  <2>1. m = Len(Written(packet))'
    BY <1>1, <1>4 DEF Stands
  <2> QED BY <1>1, <2>1
<1> QED BY <1>3, <1>4

\* A request is sent.
LEMMA AskFinds ==
    ASSUME IInv, WInv, NEW k \in Requests, NEW p \in RequestPackets(k), Ask(p)
    PROVE  WInv'
<1>1. WellFormed(p) /\ p.kind = k
  BY RequestsAreWellFormed
<1>2. Receive(p, k \in UdpRequests, "server", <<"kind">>) /\ asked' = k
  BY <1>1 DEF Ask
<1>3. (k \in UdpRequests => whole') /\ (whole' => Stands(0, Len(Written(packet)))')
  BY <1>1, <1>2, ArrivesWhole
<1>4. /\ packet' = p /\ side' = "server" /\ ops' = <<"kind">> /\ pending' = <<>>
      /\ fields' = <<>> /\ errors' = 0 /\ outcome' = "none"
  BY <1>2 DEF Receive
<1>5. Starting(0)'
  <2>1. Reads(ReadRequest(k), p, 0)
    BY RequestFits
  <2>2. AtKind(0)'
    BY <1>4 DEF AtKind
  <2> QED BY <1>2, <1>4, <2>1, <2>2 DEF Starting
<1>6. p.kind # "ERR"
  BY <1>1 DEF Requests, UdpRequests, TcpRequests, UdpReply, TcpReply
<1>7. 0 \in 0 .. Len(Written(p))
  <2>1. Len(Written(p)) \in Nat
    BY <1>1, TextEnds
  <2> QED BY <2>1
<1>8. whole' /\ outcome' = "none" =>
        \E n \in 0 .. Len(Written(packet')) :
            (/\ Stands(n, Len(Written(packet)))
             /\ Starting(n) \/ OnName(n) \/ Confirming(n) \/ Following(n))'
  BY <1>3, <1>4, <1>5, <1>7
<1> QED BY <1>2, <1>3, <1>4, <1>6, <1>8 DEF WInv, OverUdp, WholeIsRecognised

\* An answer or a refusal is sent.
LEMMA ReplyFinds ==
    ASSUME IInv, WInv, side = "server", NEW p, WellFormed(p), AwaitReply(p),
           \/ p.kind \in ReplyKinds /\ ReplyFits(p)
           \/ p = Packet("ERR", <<>>) /\ asked \in TcpRequests
    PROVE  WInv'
<1>1. asked \in Requests
  BY DEF IInv
<1>2. Receive(p, OverUdp, "client", ReadReply(ReplyTo(asked))) /\ asked' = asked
  BY DEF AwaitReply
<1>3. (OverUdp => whole') /\ (whole' => Stands(0, Len(Written(packet)))')
  BY <1>2, ArrivesWhole
<1>4. /\ packet' = p /\ side' = "client" /\ ops' = CallsFrom(1) /\ pending' = <<>>
      /\ fields' = <<>> /\ errors' = 0 /\ outcome' = "none"
  BY <1>1, <1>2, CallsOfAName DEF Receive
<1>5. OnName(0)'
  <2>1. CallsFrom(0 + 1)' = CallsFrom(1)
    BY <1>2 DEF CallsFrom
  <2>2. LettersFit(0)'
    BY DEF LettersFit
  <2> QED BY <1>4, <2>1, <2>2 DEF OnName
<1>6. p.kind = "ERR" => asked \in TcpRequests
  BY NoReplyHasAnE
<1>7. 0 \in 0 .. Len(Written(p))
  <2>1. Len(Written(p)) \in Nat
    BY TextEnds
  <2> QED BY <2>1
<1>8. whole' /\ outcome' = "none" =>
        \E n \in 0 .. Len(Written(packet')) :
            (/\ Stands(n, Len(Written(packet)))
             /\ Starting(n) \/ OnName(n) \/ Confirming(n) \/ Following(n))'
  BY <1>3, <1>4, <1>5, <1>7
<1> QED BY <1>2, <1>3, <1>4, <1>6, <1>8 DEF WInv, OverUdp, WholeIsRecognised

\* The server answers or goes away; it refuses only what broke off.
LEMMA AnswersFind ==
    ASSUME IInv, WInv, Answer \/ LateAnswer \/ Refuse \/ Drop
    PROVE  WInv'
<1>1. ASSUME Answer PROVE WInv'
  <2>1. side = "server" /\ asked \in Requests
    BY <1>1 DEF Answer, IInv
  <2>2. PICK p \in ReplyPackets(ReplyTo(asked)) : AwaitReply(p)
    BY <1>1 DEF Answer
  <2>3. ReplyTo(asked) \in ReplyKinds
    BY <2>1 DEF ReplyKinds
  <2>4. WellFormed(p) /\ p.kind \in ReplyKinds /\ ReplyFits(p)
    BY <2>3, RepliesAreWellFormed, AnswerFits
  <2> QED BY <2>1, <2>2, <2>4, ReplyFinds
<1>2. ASSUME LateAnswer PROVE WInv'
  <2>1. side = "server"
    BY <1>2 DEF LateAnswer
  <2>2. PICK k \in UdpRequests : \E p \in ReplyPackets(UdpReply[k]) : AwaitReply(p)
    BY <1>2 DEF LateAnswer
  <2>3. UdpReply[k] \in ReplyKinds
    BY KindsHaveLetters DEF ReplyKinds, Requests
  <2>4. PICK p \in ReplyPackets(UdpReply[k]) : AwaitReply(p)
    BY <2>2
  <2>5. WellFormed(p) /\ p.kind \in ReplyKinds /\ ReplyFits(p)
    BY <2>3, RepliesAreWellFormed, AnswerFits
  <2> QED BY <2>1, <2>4, <2>5, ReplyFinds
\* Only what broke off is refused, and no datagram does.
<1>3. ASSUME Refuse PROVE WInv'
  <2>1. side = "server" /\ outcome = "refused" /\ AwaitReply(Packet("ERR", <<>>))
    BY <1>3 DEF Refuse
  <2>2. ~whole /\ asked \in Requests
    BY <2>1 DEF WInv, WholeIsRecognised, IInv
  <2>3. asked \in TcpRequests
    BY <2>1, <2>2 DEF WInv, OverUdp, Requests
  <2> QED BY <2>1, <2>3, RefusalIsWellFormed, ReplyFinds
<1>4. ASSUME Drop PROVE WInv'
  <2>1. /\ side = "server" /\ outcome = "invalid" /\ side' = "client" /\ outcome' = "closed"
        /\ UNCHANGED <<asked, packet, whole>>
    BY <1>4 DEF Drop
  <2>2. ~whole
    BY <2>1 DEF WInv, WholeIsRecognised
  <2> QED BY <2>1, <2>2 DEF WInv, OverUdp, WholeIsRecognised
<1> QED BY <1>1, <1>2, <1>3, <1>4

\* Nothing happens.
LEMMA StillFinds ==
    ASSUME WInv, UNCHANGED vars
    PROVE  WInv'
<1>1. UNCHANGED <<asked, packet, whole, side, line, ops, last, errors, pending, fields, outcome>>
  BY DEF vars
<1>2. ASSUME NEW k, NEW m, Stands(k, m), Starting(k) \/ OnName(k) \/ Confirming(k) \/ Following(k)
      PROVE  Stands(k, m)' /\ (Starting(k) \/ OnName(k) \/ Confirming(k) \/ Following(k))'
  <2>1. Stands(k, m)'
    BY <1>1, <1>2, StandsStill
  <2>2. Starting(k) => Starting(k)'
    BY <1>1 DEF Starting, AtKind
  <2>3. OnName(k) => OnName(k)'
    BY <1>1 DEF OnName, CallsFrom, LettersFit
  <2>4. Confirming(k) => Confirming(k)'
    BY <1>1 DEF Confirming
  <2>5. Following(k) => Following(k)'
    BY <1>1 DEF Following, Expected
  <2> QED BY <1>2, <2>1, <2>2, <2>3, <2>4, <2>5
<1>3. ASSUME side # "none", whole, outcome = "none"
      PROVE  \E k \in 0 .. Len(Written(packet')) :
                (/\ Stands(k, Len(Written(packet)))
                 /\ Starting(k) \/ OnName(k) \/ Confirming(k) \/ Following(k))'
  <2>1. PICK k \in 0 .. Len(Written(packet)) :
          /\ Stands(k, Len(Written(packet)))
          /\ Starting(k) \/ OnName(k) \/ Confirming(k) \/ Following(k)
    BY <1>3 DEF WInv
  <2>2. PICK L : L = Len(Written(packet)) /\ Stands(k, L)
    BY <2>1
  <2>3. Stands(k, L)' /\ (Starting(k) \/ OnName(k) \/ Confirming(k) \/ Following(k))'
    BY <1>2, <2>1, <2>2
  <2>4. L = Len(Written(packet'))
    BY <1>1, <2>2
  <2> QED BY <1>1, <2>1, <2>3, <2>4
<1> QED BY <1>1, <1>3 DEF WInv, OverUdp, WholeIsRecognised, Expected

\* Whatever is called, it finds what it looks for.
LEMMA ReadingFinds ==
    ASSUME IInv, WInv, Reading
    PROVE  WInv'
<1>1. CASE ~whole
  <2>1. UNCHANGED <<asked, packet, whole, side>>
    BY DEF Reading, ReadKind, ReadLetter, ReadSpace, ReadField, ReadStatus, ReadDate, NextAuction,
           NextEvent, ReadData, ReadDelimiter, TakeField, Invalid, End
  <2>2. side # "none"
    <3>1. ops # <<>>
      BY DEF Reading, ReadKind, ReadLetter, ReadSpace, ReadField, ReadStatus, ReadDate,
             NextAuction, NextEvent, ReadData, ReadDelimiter, AtCall
    <3> QED BY <3>1 DEF IInv
  <2> QED BY <1>1, <2>1, <2>2, BrokenOff
<1>2. CASE whole
  <2>1. CASE ReadKind
    BY <1>2, <2>1, KindFinds
  <2>2. CASE ReadLetter
    BY <1>2, <2>2, AnswerLetterFinds, RefusalLetterFinds
  <2>3. CASE ReadSpace
    BY <1>2, <2>3, SpaceFinds
  <2>4. CASE ReadField
    BY <1>2, <2>4, FieldFinds
  <2>5. CASE ReadStatus
    BY <1>2, <2>5, StatusFinds
  <2>6. CASE ReadDate
    BY <1>2, <2>6, DateFinds
  <2>7. CASE NextAuction
    BY <1>2, <2>7, AuctionsFind
  <2>8. CASE NextEvent
    BY <1>2, <2>8, EventsFind
  <2>9. CASE ReadData
    BY <1>2, <2>9, DataFinds
  <2>10. CASE ReadDelimiter
    BY <1>2, <2>10, DelimiterFinds
  <2> QED BY <2>1, <2>2, <2>3, <2>4, <2>5, <2>6, <2>7, <2>8, <2>9, <2>10 DEF Reading
<1> QED BY <1>1, <1>2

-----------------------------------------------------------------------------

\* For any texts, and any numbers of rows and bids, also when there are more bids
\* than a record shows: a packet that arrives whole is taken for what it is.  What
\* the serialize and send methods of protocol.cpp write, its deserialize and
\* receive methods read to the end; the server knows every request by its name,
\* and the client (readPacketId) tells the answer it waits for, the server's ERR
\* and the answer to another request from each other.
THEOREM WholeIsRecognisedHolds == Spec => []WholeIsRecognised
<1>1. Init => IInv /\ WInv
  BY DEF Init, IInv, WInv
<1>2. IInv /\ WInv /\ [Next]_vars => IInv' /\ WInv'
  <2> SUFFICES ASSUME IInv, WInv, [Next]_vars PROVE IInv' /\ WInv'
    OBVIOUS
  <2>1. IInv'
    BY StepKeeps
  <2>2. CASE UNCHANGED vars
    BY <2>1, <2>2, StillFinds
  <2>3. CASE Answer \/ LateAnswer \/ Refuse \/ Drop
    BY <2>1, <2>3, AnswersFind
  <2>4. CASE Reading
    BY <2>1, <2>4, ReadingFinds
  <2>5. ASSUME NEW k \in Requests, NEW p \in RequestPackets(k), Ask(p) PROVE WInv'
    BY <2>5, AskFinds
  <2> QED BY <2>1, <2>2, <2>3, <2>4, <2>5 DEF Next
<1>3. IInv /\ WInv => WholeIsRecognised
  BY DEF IInv, WInv, WholeIsRecognised
<1> QED BY <1>1, <1>2, <1>3, PTL DEF Spec

=============================================================================
