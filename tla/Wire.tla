-------------------------------- MODULE Wire --------------------------------
(***************************************************************************)
(* The packets of src/common/protocol.cpp: one request, read by the server *)
(* (src/Server/server.cpp, src/Server/worker_pool.cpp), and its answer,    *)
(* read by the client.                                                     *)
(*                                                                         *)
(* A packet is written by one function and read by another, token by       *)
(* token: a letter of an id, a space, the newline that ends every packet,  *)
(* or a whole field, whose digits are left out.  What is written here      *)
(* follows the serialize and send methods, what is expected by the reader  *)
(* follows deserialize and receive.  A datagram arrives whole; a stream    *)
(* may break off anywhere (the peer dies, or is slower than the timeout).  *)
(***************************************************************************)
EXTENDS Naturals, Sequences, FiniteSets

CONSTANTS
    Texts,      \* the values of each type of field
    MaxRows,    \* bound: auctions in a list
    MaxBids,    \* bound: bids of a record
    MaxShown    \* bids that a record shows, 50 in the code

ASSUME BoundAssumption == {MaxRows, MaxBids, MaxShown} \subseteq Nat \ {0}
ASSUME TextAssumption == Texts["size"] \subseteq Nat

\* What a client sends and what answers it.
UdpReply == [LIN |-> "RLI", LOU |-> "RLO", UNR |-> "RUR", LMA |-> "RMA",
             LMB |-> "RMB", LST |-> "RLS", SRC |-> "RRC"]
TcpReply == [OPA |-> "ROA", CLS |-> "RCL", SAS |-> "RSA", BID |-> "RBD"]
UdpRequests == DOMAIN UdpReply
TcpRequests == DOMAIN TcpReply
Requests == UdpRequests \cup TcpRequests
ReplyTo(k) == IF k \in UdpRequests THEN UdpReply[k] ELSE TcpReply[k]

LoginStatuses == {"OK", "NOK", "REG", "ERR"}
LogoutStatuses == {"OK", "NOK", "UNR", "ERR"}
MineStatuses == {"OK", "NOK", "NLG", "ERR"}
ListStatuses == {"OK", "NOK", "ERR"}
RecordStatuses == {"OK", "NOK", "ERR"}
OpenStatuses == {"OK", "NOK", "NLG", "ERR"}
CloseStatuses == {"OK", "EAU", "EOW", "END", "NLG", "ERR"}
AssetStatuses == {"OK", "NOK", "ERR"}
BidStatuses == {"ACC", "NOK", "NLG", "ILG", "REF", "ERR"}

Statuses ==
    [RLI |-> LoginStatuses, RLO |-> LogoutStatuses, RUR |-> LogoutStatuses,
     RMA |-> MineStatuses, RMB |-> MineStatuses, RLS |-> ListStatuses,
     RRC |-> RecordStatuses, ROA |-> OpenStatuses, RCL |-> CloseStatuses,
     RSA |-> AssetStatuses, RBD |-> BidStatuses]

Letters ==
    [LIN |-> <<"L", "I", "N">>, LOU |-> <<"L", "O", "U">>, UNR |-> <<"U", "N", "R">>,
     LMA |-> <<"L", "M", "A">>, LMB |-> <<"L", "M", "B">>, LST |-> <<"L", "S", "T">>,
     SRC |-> <<"S", "R", "C">>, OPA |-> <<"O", "P", "A">>, CLS |-> <<"C", "L", "S">>,
     SAS |-> <<"S", "A", "S">>, BID |-> <<"B", "I", "D">>,
     RLI |-> <<"R", "L", "I">>, RLO |-> <<"R", "L", "O">>, RUR |-> <<"R", "U", "R">>,
     RMA |-> <<"R", "M", "A">>, RMB |-> <<"R", "M", "B">>, RLS |-> <<"R", "L", "S">>,
     RRC |-> <<"R", "R", "C">>, ROA |-> <<"R", "O", "A">>, RCL |-> <<"R", "C", "L">>,
     RSA |-> <<"R", "S", "A">>, RBD |-> <<"R", "B", "D">>, ERR |-> <<"E", "R", "R">>]

Alphabet == UNION {{Letters[k][i] : i \in 1 .. 3} : k \in DOMAIN Letters}

-----------------------------------------------------------------------------
(* Tokens: a type and a value.                                             *)

Char(c) == <<"char", c>>
Space == Char(" ")
Newline == Char("\n")
BidMark == Char("B")
EndMark == Char("E")
Field(type) == {<<type, v>> : v \in Texts[type]}
Status(s) == <<"status", s>>
Chunk(i) == <<"data", i>>

\* One row after the other, each of n tokens.
Flat(rows, n) == [i \in 1 .. n * Len(rows) |-> rows[(i - 1) \div n + 1][((i - 1) % n) + 1]]

Packet(kind, body) == [kind |-> kind, body |-> body, bids |-> <<>>, end |-> <<>>, data |-> <<>>]

Packets(kind, bodies) == {Packet(kind, b) : b \in bodies}

\* A file follows its size, which is the last field of the packet.
WithFile(kind, body) ==
    [Packet(kind, body) EXCEPT !.data = [i \in 1 .. body[Len(body)][2] |-> Chunk(i)]]

Files(kind, bodies) == {WithFile(kind, b) : b \in bodies}

Single(type) == {<<f>> : f \in Field(type)}

AccountRequests(k) == Packets(k, Field("user") \X Field("word"))
MineRequests(k) == Packets(k, Single("user"))
ListRequests == Packets("LST", {<<>>})
AuctionRequests(k) == Packets(k, Single("auction"))
OpenRequests ==
    Files("OPA", Field("user") \X Field("word") \X Field("word") \X Field("int")
                    \X Field("int") \X Field("file") \X Field("size"))
CloseRequests == Packets("CLS", Field("user") \X Field("word") \X Field("auction"))
BidRequests == Packets("BID", Field("user") \X Field("word") \X Field("auction") \X Field("int"))

RequestPackets(k) ==
    CASE k \in {"LIN", "LOU", "UNR"} -> AccountRequests(k)
      [] k \in {"LMA", "LMB"} -> MineRequests(k)
      [] k = "LST" -> ListRequests
      [] k \in {"SRC", "SAS"} -> AuctionRequests(k)
      [] k = "OPA" -> OpenRequests
      [] k = "CLS" -> CloseRequests
      [] k = "BID" -> BidRequests

Ok(bodies) == {<<Status("OK")>> \o b : b \in bodies}

\* The handlers answer with a list only if there is something in it.
Rows(n) == [1 .. n -> Field("auction") \X Field("state")]
Lists == Ok({Flat(rows, 2) : rows \in UNION {Rows(n) : n \in 1 .. MaxRows}})

Bids == Field("user") \X Field("int") \X Field("date") \X Field("int")
Ends == Field("date") \X Field("int")

Record(body, bids, end) == [Packet("RRC", body) EXCEPT !.bids = bids, !.end = end]

RecordBodies == Field("user") \X Field("word") \X Field("file") \X Field("int")
                    \X Field("date") \X Field("int")
BidLists == UNION {[1 .. n -> Bids] : n \in 0 .. MaxBids}

Records ==
    {Record(b, bids, end) : b \in Ok(RecordBodies), bids \in BidLists, end \in Ends \cup {<<>>}}

OkPackets(k) ==
    CASE k \in {"RMA", "RMB", "RLS"} -> Packets(k, Lists)
      [] k = "RRC" -> Records
      [] k = "ROA" -> Packets(k, Ok(Single("auction")))
      [] k = "RSA" -> Files(k, Ok(Field("file") \X Field("size")))
      [] OTHER -> {Packet(k, <<Status("OK")>>)}

ReplyPackets(k) ==
    {Packet(k, <<Status(s)>>) : s \in Statuses[k] \ {"OK"}}
        \cup (IF "OK" \in Statuses[k] THEN OkPackets(k) ELSE {})

-----------------------------------------------------------------------------
(* Writing                                                                 *)

\* The fields, each after a space.
Spaced(fields) ==
    [i \in 1 .. 2 * Len(fields) |-> IF i % 2 = 1 THEN Space ELSE fields[i \div 2]]

\* Mutation: the oldest bids instead of the latest.
ShownFirst(bids) == SubSeq(bids, 1, (IF Len(bids) > MaxShown THEN MaxShown ELSE Len(bids)))

\* The bids that a record shows.
Shown(bids) ==
    SubSeq(bids, (IF Len(bids) > MaxShown THEN Len(bids) - MaxShown + 1 ELSE 1), Len(bids))

Events(p) ==
    Flat([i \in DOMAIN Shown(p.bids) |-> <<BidMark>> \o Shown(p.bids)[i]], 5)
        \o (IF p.end = <<>> THEN <<>> ELSE <<EndMark>> \o p.end)

Name(k) == [i \in 1 .. 3 |-> Char(Letters[k][i])]

HasFile(p) == p.kind = "OPA" \/ (p.kind = "RSA" /\ p.body[1] = Status("OK"))

Written(p) ==
    Name(p.kind) \o Spaced(p.body \o Events(p))
        \o (IF HasFile(p) THEN <<Space>> \o p.data ELSE <<>>) \o <<Newline>>

-----------------------------------------------------------------------------
(* Reading.  A receive or deserialize method is the sequence of its calls  *)
(* of the read functions; "auctions" and "events" are its loops.           *)

ReadAccount == <<"space", "user", "space", "word", "delimiter">>
ReadMine == <<"space", "user", "delimiter">>
ReadAuction == <<"space", "auction", "delimiter">>
ReadOpen ==
    <<"space", "user", "space", "word", "space", "word", "space", "int", "space", "int",
      "space", "file", "space", "size", "space", "data", "delimiter">>
ReadClose == <<"space", "user", "space", "word", "space", "auction", "delimiter">>
ReadBid == <<"space", "user", "space", "word", "space", "auction", "space", "int", "delimiter">>

ReadRequest(k) ==
    CASE k \in {"LIN", "LOU", "UNR"} -> ReadAccount
      [] k \in {"LMA", "LMB"} -> ReadMine
      [] k = "LST" -> <<"delimiter">>
      [] k \in {"SRC", "SAS"} -> ReadAuction
      [] k = "OPA" -> ReadOpen
      [] k = "CLS" -> ReadClose
      [] k = "BID" -> ReadBid

ReadAuctions == <<"auctions", "delimiter">>
ReadRecord ==
    <<"space", "user", "space", "word", "space", "file", "space", "int", "space", "date",
      "int", "events", "delimiter">>
ReadOpened == <<"space", "auction", "delimiter">>
ReadAsset == <<"space", "file", "space", "size", "space", "data", "delimiter">>

\* What follows the status OK.
ReadOk(k) ==
    CASE k \in {"RMA", "RMB", "RLS"} -> ReadAuctions
      [] k = "RRC" -> ReadRecord
      [] k = "ROA" -> ReadOpened
      [] k = "RSA" -> ReadAsset
      [] OTHER -> <<"delimiter">>

ReadReply(k) == Letters[k] \o <<"space", "status">>

VARIABLES
    asked,      \* the kind of the client's request
    packet,     \* what was written last
    whole,      \* it has arrived whole
    side,       \* who reads it
    line,       \* what has arrived and is not read yet
    ops,        \* what is still to be called
    last,       \* current_char of readPacketId
    errors,     \* errorID_counter
    pending,    \* delimiter of a TcpPacket
    fields,     \* what has been read
    outcome     \* how the reading ended

vars == <<asked, packet, whole, side, line, ops, last, errors, pending, fields, outcome>>

NoKind == "none"
NoPacket == Packet(NoKind, <<>>)

Init ==
    /\ asked = NoKind
    /\ packet = NoPacket
    /\ whole = TRUE
    /\ side = "none"
    /\ line = <<>>
    /\ ops = <<>>
    /\ last = <<>>
    /\ errors = 0
    /\ pending = <<>>
    /\ fields = <<>>
    /\ outcome = "none"

OverUdp == asked \in UdpRequests

\* What arrives of what is written.
Arrivals(w, udp) == {SubSeq(w, 1, n) : n \in IF udp THEN {Len(w)} ELSE 0 .. Len(w)}

\* A new packet object, for what the other side sends.
Receive(p, udp, reader, calls) ==
    /\ packet' = p
    /\ LET w == Written(p) IN
        \E part \in Arrivals(w, udp) : line' = part /\ whole' = (Len(part) = Len(w))
    /\ side' = reader
    /\ ops' = calls
    /\ last' = <<>>
    /\ errors' = 0
    /\ pending' = <<>>
    /\ fields' = <<>>
    /\ outcome' = "none"

\* The client writes its request.
Ask(p) ==
    /\ side = "none"
    /\ asked' = p.kind
    /\ Receive(p, p.kind \in UdpRequests, "server", <<"kind">>)

Next1 == Head(ops)
AtCall(op) == outcome = "none" /\ ops # <<>> /\ Next1 = op

End(how) ==
    /\ outcome' = how
    /\ ops' = <<>>
    /\ UNCHANGED <<asked, packet, whole, side, line, last, errors, pending, fields>>

Invalid == End("invalid")

Handlers == IF OverUdp THEN UdpRequests ELSE TcpRequests
Named(k) == Len(line) >= 3 /\ Name(k) = SubSeq(line, 1, 3)

\* The server reads the id and looks for its handler: the one place whose
\* InvalidPacketException leads to a packet ERR.
ReadKind ==
    /\ AtCall("kind")
    /\ \/ \E k \in Handlers :
            /\ Named(k)
            /\ line' = SubSeq(line, 4, Len(line))
            /\ ops' = ReadRequest(k)
            /\ UNCHANGED <<asked, packet, whole, side, last, errors, pending, fields, outcome>>
       \/ (\A k \in Handlers : ~Named(k)) /\ End("refused")

\* readPacketId: a letter that is not the expected one may still be one of
\* ERR.  A read that fails leaves current_char as it was, which before the
\* first letter is anything.
Garbage == {<<Char("E")>>, <<Char("?")>>}
Letter == IF line # <<>> THEN {<<Head(line)>>} ELSE IF last # <<>> THEN {last} ELSE Garbage

\* Mutation: two letters of ERR are taken for all of it.
ErrorConfirmedEarly(n) == n >= 2

ErrorConfirmed(n) == n = 3

ReadLetter ==
    /\ outcome = "none" /\ ops # <<>> /\ Next1 \in Alphabet
    /\ \E c \in Letter :
        IF line # <<>> /\ c = <<Char(Next1)>>
        THEN /\ ops' = Tail(ops)
             /\ errors' = errors
             /\ outcome' = outcome
        ELSE IF c # <<Name("ERR")[errors + 1]>>
        THEN /\ outcome' = "unexpected"
             /\ ops' = <<>>
             /\ errors' = errors
        ELSE /\ errors' = errors + 1
             /\ ops' = IF ErrorConfirmed(errors + 1) THEN <<"delimiter">> ELSE Tail(ops)
             /\ outcome' = outcome
    /\ last' = IF line # <<>> THEN <<Head(line)>> ELSE last
    /\ line' = IF line # <<>> THEN Tail(line) ELSE line
    /\ UNCHANGED <<asked, packet, whole, side, pending, fields>>

\* What readChar returns next: the delimiter that the last string left.
Ahead == pending \o line

TakeChar ==
    /\ pending' = <<>>
    /\ line' = IF pending = <<>> THEN Tail(line) ELSE line

ReadSpace ==
    /\ AtCall("space")
    /\ IF Ahead # <<>> /\ Head(Ahead) = Space
       THEN /\ TakeChar
            /\ ops' = Tail(ops)
            /\ UNCHANGED <<asked, packet, whole, side, last, errors, fields, outcome>>
       ELSE Invalid

\* The end of a packet, or of a packet ERR.  Nothing may follow it in a
\* datagram.
ReadDelimiter ==
    /\ AtCall("delimiter")
    /\ IF Ahead # <<>> /\ Head(Ahead) = Newline /\ (OverUdp => Len(Ahead) = 1)
       THEN /\ TakeChar
            /\ ops' = <<>>
            /\ outcome' = (IF ErrorConfirmed(errors) THEN "error" ELSE "read")
            /\ UNCHANGED <<asked, packet, whole, side, last, errors, fields>>
       ELSE Invalid

\* readString and the functions that parse what it returns.  On a stream
\* the character that ends a string has been read by then, and is kept.
Separated == Len(line) >= 2 /\ line[2] \in {Space, Newline}

Typed(type) == line # <<>> /\ Head(line)[1] = type

TakeField(calls) ==
    /\ fields' = Append(fields, Head(line))
    /\ IF OverUdp
       THEN line' = Tail(line) /\ UNCHANGED pending
       ELSE line' = Tail(Tail(line)) /\ pending' = <<line[2]>>
    /\ ops' = calls
    /\ UNCHANGED <<asked, packet, whole, side, last, errors, outcome>>

ReadField ==
    /\ outcome = "none" /\ ops # <<>>
    /\ Next1 \in {"user", "word", "auction", "int", "file", "size", "state", "mark"}
    /\ IF Typed(IF Next1 = "mark" THEN "char" ELSE Next1) /\ (OverUdp \/ Separated)
       THEN TakeField(Tail(ops))
       ELSE Invalid

ReadStatus ==
    /\ AtCall("status")
    /\ IF Typed("status") /\ (OverUdp \/ Separated) /\ Head(line)[2] \in Statuses[ReplyTo(asked)]
       THEN TakeField(IF Head(line) = Status("OK") THEN ReadOk(ReplyTo(asked)) ELSE <<"delimiter">>)
       ELSE Invalid

\* read_date_time reads up to the second space, and that space too.
ReadDate ==
    /\ AtCall("date")
    /\ IF Typed("date") /\ Len(line) >= 2 /\ line[2] = Space
       THEN /\ fields' = Append(fields, Head(line))
            /\ line' = Tail(Tail(line))
            /\ ops' = Tail(ops)
            /\ UNCHANGED <<asked, packet, whole, side, last, errors, pending, outcome>>
       ELSE Invalid

\* readAuctions
AtEnd == Ahead # <<>> /\ Head(Ahead) = Newline

\* Mutation: the loop is not left.
AgainOver(calls) == IF AtEnd THEN ops ELSE calls \o ops

Again(calls) == IF AtEnd THEN Tail(ops) ELSE calls \o ops

NextAuction ==
    /\ AtCall("auctions")
    /\ ops' = Again(<<"space", "auction", "space", "state">>)
    /\ UNCHANGED <<asked, packet, whole, side, line, last, errors, pending, fields, outcome>>

ReadBidEvent == <<"mark", "space", "user", "space", "int", "space", "date", "int">>
ReadEndEvent == <<"mark", "space", "date", "int">>

\* The loop over the bids and the end of a record.  The delimiter that is
\* read next refuses whatever is neither.
BidsRead == Cardinality({i \in DOMAIN fields : fields[i] = BidMark})

TooManyBids == BidsRead > MaxShown

NextEvent ==
    /\ AtCall("events")
    /\ IF TooManyBids THEN Invalid
       ELSE /\ CASE Len(line) >= 2 /\ line[1] = Space /\ line[2] = BidMark ->
                        /\ line' = Tail(line)
                        /\ ops' = ReadBidEvent \o ops
                 [] Len(line) >= 2 /\ line[1] = Space /\ line[2] = EndMark ->
                        /\ line' = Tail(line)
                        /\ ops' = ReadEndEvent \o Tail(ops)
                 [] OTHER -> line' = line /\ ops' = Tail(ops)
            /\ UNCHANGED <<asked, packet, whole, side, last, errors, pending, fields, outcome>>

\* readAndSaveToFile: as many bytes as the size that was read, whatever they are.
ReadData ==
    /\ AtCall("data")
    /\ LET n == fields[Len(fields)][2] IN
       IF Len(line) >= n
       THEN /\ fields' = fields \o SubSeq(line, 1, n)
            /\ line' = SubSeq(line, n + 1, Len(line))
            /\ ops' = Tail(ops)
            /\ UNCHANGED <<asked, packet, whole, side, last, errors, pending, outcome>>
       ELSE Invalid

-----------------------------------------------------------------------------
(* The answer                                                              *)

AwaitReply(p) == Receive(p, OverUdp, "client", ReadReply(ReplyTo(asked))) /\ UNCHANGED asked

\* The handler has read the request.  What of the answer arrives depends on
\* the connection, and on the handler: an exception in it ends without one.
Answer ==
    /\ side = "server" /\ outcome = "read"
    /\ \E p \in ReplyPackets(ReplyTo(asked)) : AwaitReply(p)

\* A datagram that answers an earlier request is read instead.
LateAnswer ==
    /\ OverUdp /\ side = "server" /\ outcome = "read"
    /\ \E k \in UdpRequests \ {asked} : \E p \in ReplyPackets(UdpReply[k]) : AwaitReply(p)

\* No handler was found: the worker answers ERR.
Refuse ==
    /\ side = "server" /\ outcome = "refused"
    /\ AwaitReply(Packet("ERR", <<>>))

\* The handler itself catches what its packet throws: no answer, and the
\* worker closes the connection.
Drop ==
    /\ side = "server" /\ outcome = "invalid"
    /\ side' = "client"
    /\ outcome' = "closed"
    /\ UNCHANGED <<asked, packet, whole, line, ops, last, errors, pending, fields>>

Reading ==
    \/ ReadKind \/ ReadLetter \/ ReadSpace \/ ReadField \/ ReadStatus \/ ReadDate
    \/ NextAuction \/ NextEvent \/ ReadData \/ ReadDelimiter

Next ==
    \/ Answer \/ LateAnswer \/ Refuse \/ Drop \/ Reading
    \/ \E k \in Requests : \E p \in RequestPackets(k) : Ask(p)

Spec == Init /\ [][Next]_vars

\* A read function that can return does: all there is to read has arrived,
\* and what is missing ends the read that waits for it.
FairSpec == Spec /\ WF_vars(Reading)

-----------------------------------------------------------------------------
(* Properties                                                              *)

Expected == {IF side = "server" THEN asked ELSE ReplyTo(asked)}

\* What a packet says: of the bids of a record, the latest.
LatestBids(p) ==
    LET k == IF Len(p.bids) > MaxShown THEN MaxShown ELSE Len(p.bids)
    IN  [i \in 1 .. k |-> <<BidMark>> \o p.bids[Len(p.bids) - k + i]]

Content(p) ==
    p.body \o Flat(LatestBids(p), 5)
        \o (IF p.end = <<>> THEN <<>> ELSE <<EndMark>> \o p.end) \o p.data

\* What a reader accepts is the packet it waits for, field for field and to
\* the last one, and nothing is left that a later read would find: neither a
\* stream that broke off nor another packet is ever taken for it.
AcceptedIsSent ==
    outcome = "read" =>
        /\ packet.kind \in Expected
        /\ fields = Content(packet)
        /\ whole
        /\ Ahead = <<>>

\* Whatever a writer can write is taken for what it is, if all of it arrives.
\* The two sides of every packet agree, for every status, list and record, also
\* when there are more bids than a record shows; and a client tells the server's
\* refusal from an answer to another request, although both are first met as a
\* letter that does not fit.
WholeIsRecognised ==
    outcome # "none" /\ whole =>
        outcome = (IF packet.kind \in Expected THEN "read"
                   ELSE IF packet.kind = "ERR" THEN "error" ELSE "unexpected")

\* Every packet is read to an end: no loop of a reader goes on without
\* reading.
ReadingEnds == []<>(side = "none" \/ outcome # "none")
=============================================================================
