--------------------------- MODULE HttpClient_proofs ---------------------------
(***************************************************************************)
(* Proofs about HttpClient, for a file, a range and buffers of any size.   *)
(***************************************************************************)
EXTENDS HttpClient, SequenceTheorems, TLAPS

Pieces == [kind : {"status", "crlf", "length", "end", "body"}, value : 0..Size]

(* What TypeOK leaves out: what the sequences are made of. *)
Sequences_ ==
  /\ stream \in Seq(Pieces) /\ data \in Seq(Pieces) /\ response_buf \in Seq(Pieces)
  /\ received \in Seq(Int)

(* A response is being read: over a connection, and is_more says so. *)
Connected == pc \in {"head", "header", "fill", "read"} => net = "up" /\ is_more

(* A server that ignores Range sends the whole file to every request.      *)
Ordered == ranges \/ ~reconnected
AskedOnce == ~ranges /\ ~reconnected => size_fetched = 0

(* A request that no body is left before meets an empty connection, ...    *)
Fresh ==
  pc = "fetch" /\ net = "up" /\ ~is_more =>
    stream = <<>> /\ retrieve_len = 0 /\ AskedOnce

(* ... and the header that is read is that of its own response.            *)
Heading ==
  pc \in {"head", "header"} =>
    /\ response_buf = <<>> /\ diff = 0 /\ AskedOnce
    /\ pc = "head" => stream \in Responses
    /\ pc = "header" => data \o stream \in Responses /\ ~Has(data, "end")

Good == pc = "returned" /\ rc = SUCCESS
More == pc = "fetch" /\ net = "up" /\ is_more
Ahead == IF pc = "fill" THEN data \o stream ELSE stream
Got == IF pc = "fetch" THEN 0 ELSE Len(response_buf)

(* Within a body the pieces ahead are those left to retrieve, and follow   *)
(* what was got.  With Range a response fits the buffer and nothing is     *)
(* behind it; without, a body reaches to the end of the file.              *)
Within ==
  pc \in {"fill", "read"} \/ Good \/ More =>
    /\ retrieve_len <= Len(Ahead)
    /\ \A i \in 1..retrieve_len : Ahead[i].kind = "body"
    /\ Ordered => \A i \in 1..retrieve_len : Ahead[i].value = size_fetched + Got + i
    /\ ranges => Len(Ahead) = retrieve_len /\ Got + retrieve_len <= RangeLen + 1 /\ ~More
    /\ ~ranges => \/ size_fetched + Got + retrieve_len >= Size
                  \/ retrieve_len = 0 /\ Got = 0 /\ ~More

(* The buffer holds what ofc_fetch will report, the next bytes of the file. *)
Filled ==
  pc \in {"fill", "read"} \/ Good =>
    /\ Len(response_buf) = Fetched
    /\ Ordered => \A i \in 1..Len(response_buf) : response_buf[i].value = size_fetched + i
    /\ pc = "fill" => Len(data) <= retrieve_len /\ Len(data) + Len(response_buf) <= BufLen - 1
    /\ pc = "read" => retrieve_len > 0 /\ Len(response_buf) < BufLen - 1
    /\ Good => net = "up" /\ IF is_more THEN Len(response_buf) = BufLen - 1
                                        ELSE retrieve_len = 0

(* The download goes on only while a part of the file is missing. *)
Missing == pc # "done" => size_fetched < Size

(* After any error but a lost connection the connection is closed. *)
Closed == pc = "returned" /\ rc = FAILURE => net # "up"

IInv ==
  /\ TypeOK /\ Sequences_ /\ SlicesInOrder
  /\ Connected /\ Fresh /\ Heading /\ Within /\ Filled /\ Missing /\ Closed

----------------------------------------------------------------------------
(* The least of two numbers, and of three. *)
LEMMA MinOfTwo ==
  ASSUME NEW a \in Int, NEW b \in Int
  PROVE  /\ Min({a, b}) \in {a, b}
         /\ Min({a, b}) <= a /\ Min({a, b}) <= b
  <1>1. \E x \in {a, b} : \A y \in {a, b} : x <= y
    OBVIOUS
  <1> QED
    BY <1>1 DEF Min

LEMMA MinOfThree ==
  ASSUME NEW a \in Int, NEW b \in Int, NEW c \in Int
  PROVE  /\ Min({a, b, c}) \in {a, b, c}
         /\ Min({a, b, c}) <= a /\ Min({a, b, c}) <= b /\ Min({a, b, c}) <= c
  <1>1. \E x \in {a, b, c} : \A y \in {a, b, c} : x <= y
    <2>1. CASE a <= b /\ a <= c
      BY <2>1
    <2>2. CASE b <= a /\ b <= c
      BY <2>2
    <2>3. CASE c <= a /\ c <= b
      BY <2>3
    <2> QED
      BY <2>1, <2>2, <2>3
  <1> QED
    BY <1>1 DEF Min

(* Two sequences joined. *)
LEMMA JoinFront ==
  ASSUME NEW S, NEW a \in Seq(S), NEW b \in Seq(S), NEW i \in 1..Len(a)
  PROVE  (a \o b)[i] = a[i]
  BY ConcatProperties

LEMMA JoinBack ==
  ASSUME NEW S, NEW a \in Seq(S), NEW b \in Seq(S), NEW i \in 1..Len(b)
  PROVE  (a \o b)[Len(a) + i] = b[i]
  <1>1. Len(a) + i \in 1..(Len(a) + Len(b)) /\ ~(Len(a) + i <= Len(a)) /\ (Len(a) + i) - Len(a) = i
    OBVIOUS
  <1> QED
    BY ONLY <1>1, a \in Seq(S), b \in Seq(S), ConcatProperties

LEMMA Join ==
  ASSUME NEW S, NEW a \in Seq(S), NEW b \in Seq(S)
  PROVE  /\ a \o b \in Seq(S) /\ Len(a \o b) = Len(a) + Len(b)
         /\ \A i \in 1..Len(a) : (a \o b)[i] = a[i]
         /\ \A i \in 1..Len(b) : (a \o b)[Len(a) + i] = b[i]
  BY ConcatProperties, JoinFront, JoinBack

(* The pieces of a header put together. *)
LEMMA HeaderLines ==
  ASSUME NEW S, NEW a \in S, NEW b \in S, NEW c \in S, NEW d \in S
  PROVE  /\ <<a, b>> \o <<c>> \o <<d>> = <<a, b, c, d>>
         /\ <<a, b>> \o <<>> \o <<d>> = <<a, b, d>>
  <1>1. <<a, b>> \in Seq(S) /\ <<c>> \in Seq(S) /\ <<d>> \in Seq(S) /\ <<>> \in Seq(S)
    OBVIOUS
  <1> DEFINE u == <<a, b>> \o <<c>>
             v == <<a, b>> \o <<>>
  <1>2. u \in Seq(S) /\ Len(u) = 3 /\ u[1] = a /\ u[2] = b /\ u[3] = c
    BY <1>1
  <1>3. v = <<a, b>>
    BY <1>1, ConcatEmptySeq
  <1> HIDE DEF u, v
  <1>4. u \o <<d>> = <<a, b, c, d>>
    <2>1. /\ u \o <<d>> \in Seq(S) /\ Len(u \o <<d>>) = 4
          /\ (u \o <<d>>)[1] = a /\ (u \o <<d>>)[2] = b /\ (u \o <<d>>)[3] = c
          /\ (u \o <<d>>)[4] = d
      <3>1. u \o <<d>> \in Seq(S) /\ Len(u \o <<d>>) = Len(u) + Len(<<d>>)
        BY ZenonT(60), <1>1, <1>2, Join
      <3>2. \A i \in 1..Len(u) : (u \o <<d>>)[i] = u[i]
        BY <1>1, <1>2, JoinFront
      <3>3. \A i \in 1..Len(<<d>>) : (u \o <<d>>)[Len(u) + i] = <<d>>[i]
        BY <1>1, <1>2, JoinBack
      <3>4. Len(<<d>>) = 1 /\ <<d>>[1] = d
        OBVIOUS
      <3>5. 1 \in 1..Len(<<d>>) /\ 1 \in 1..Len(u) /\ 2 \in 1..Len(u) /\ 3 \in 1..Len(u)
        BY <1>2, <3>4
      <3>6. Len(u \o <<d>>) = 4 /\ (u \o <<d>>)[4] = d
        BY ONLY <1>2, <3>1, <3>3, <3>4, <3>5
      <3>7. (u \o <<d>>)[1] = a /\ (u \o <<d>>)[2] = b /\ (u \o <<d>>)[3] = c
        BY ONLY <1>2, <3>2, <3>5
      <3> QED
        BY ONLY <3>1, <3>6, <3>7
    <2>2. <<a, b, c, d>> \in Seq(S) /\ Len(<<a, b, c, d>>) = 4
      OBVIOUS
    <2>3. \A i \in 1..4 : (u \o <<d>>)[i] = <<a, b, c, d>>[i]
      BY <2>1
    <2> QED
      BY <2>1, <2>2, <2>3, SeqEqual
  <1>5. <<a, b>> \o <<d>> = <<a, b, d>>
    <2>1. /\ <<a, b>> \o <<d>> \in Seq(S) /\ Len(<<a, b>> \o <<d>>) = 3
          /\ (<<a, b>> \o <<d>>)[1] = a /\ (<<a, b>> \o <<d>>)[2] = b
          /\ (<<a, b>> \o <<d>>)[3] = d
      BY <1>1
    <2>2. <<a, b, d>> \in Seq(S) /\ Len(<<a, b, d>>) = 3
      OBVIOUS
    <2>3. \A i \in 1..3 : (<<a, b>> \o <<d>>)[i] = <<a, b, d>>[i]
      BY <2>1
    <2> QED
      BY <2>1, <2>2, <2>3, SeqEqual
  <1> QED
    BY <1>3, <1>4, <1>5 DEF u, v

(* A sequence cut in two. *)
LEMMA Cut ==
  ASSUME NEW S, NEW s \in Seq(S), NEW k \in 0..Len(s)
  PROVE  /\ SubSeq(s, 1, k) \in Seq(S) /\ Len(SubSeq(s, 1, k)) = k
         /\ SubSeq(s, k + 1, Len(s)) \in Seq(S) /\ Len(SubSeq(s, k + 1, Len(s))) = Len(s) - k
         /\ \A i \in 1..k : SubSeq(s, 1, k)[i] = s[i]
         /\ \A i \in 1..(Len(s) - k) : SubSeq(s, k + 1, Len(s))[i] = s[k + i]
         /\ SubSeq(s, 1, k) \o SubSeq(s, k + 1, Len(s)) = s
  <1> DEFINE a == SubSeq(s, 1, k)
             b == SubSeq(s, k + 1, Len(s))
  <1>1. /\ a \in Seq(S) /\ Len(a) = k
        /\ \A i \in 1..k : a[i] = s[i]
    BY SubSeqProperties
  <1>2. /\ b \in Seq(S) /\ Len(b) = Len(s) - k
        /\ \A i \in 1..(Len(s) - k) : b[i] = s[k + i]
    BY SubSeqProperties
  <1> HIDE DEF a, b
  <1>3. /\ a \o b \in Seq(S) /\ Len(a \o b) = Len(s)
        /\ \A i \in 1..k : (a \o b)[i] = a[i]
        /\ \A i \in 1..(Len(s) - k) : (a \o b)[k + i] = b[i]
    BY <1>1, <1>2, Join
  <1>4. \A i \in 1..Len(s) : (a \o b)[i] = s[i]
    <2> TAKE i \in 1..Len(s)
    <2>2. CASE i <= k
      <3>1. i \in 1..k
        BY <2>2
      <3> QED
        BY <1>1, <1>3, <3>1
    <2>3. CASE i > k
      <3>1. i - k \in 1..(Len(s) - k) /\ k + (i - k) = i
        BY <2>3
      <3> QED
        BY <1>2, <1>3, <3>1
    <2>4. i <= k \/ i > k
      OBVIOUS
    <2> QED
      BY ONLY <2>2, <2>3, <2>4
  <1>5. a \o b = s
    BY <1>3, <1>4, SeqEqual
  <1> QED
    BY <1>1, <1>2, <1>5 DEF a, b

----------------------------------------------------------------------------
LEMMA Sizes ==
  /\ Size \in Nat /\ Size > 0 /\ RangeLen \in Nat /\ BufLen \in Nat
  /\ HEAD_SIZE \in Nat /\ HEAD_SIZE > 0 /\ CHUNK_SIZE \in Nat /\ CHUNK_SIZE > 0
  /\ MAX_RETRY_COUNT \in Nat /\ MAX_TRIES \in Nat /\ MAX_TRIES > 0
  /\ RangeLen + 3 <= BufLen /\ HEAD_SIZE <= BufLen - 1
  BY HttpAssumption

USE Sizes DEF http_data, download, Good, More, Ahead, Got, Fetched, Ordered, AskedOnce,
    SUCCESS, FAILURE, CONN_ERROR

(* What a read brings, and what it leaves. *)
LEMMA ReadPart ==
  ASSUME Sequences_, NEW n \in Int, NEW d \in Reads(n)
  PROVE  /\ d \in Seq(Pieces) /\ Len(d) >= 1 /\ Len(d) <= n /\ Len(d) <= Len(stream)
         /\ SubSeq(stream, Len(d) + 1, Len(stream)) \in Seq(Pieces)
         /\ d \o SubSeq(stream, Len(d) + 1, Len(stream)) = stream
  <1>1. stream \in Seq(Pieces) /\ Len(stream) \in Nat
    BY DEF Sequences_
  <1>2. PICK k \in 1..Min({n, Len(stream)}) : d = SubSeq(stream, 1, k)
    BY DEF Reads
  <1>3. k \in 0..Len(stream) /\ k >= 1 /\ k <= n
    <2>1. LET m == Min({n, Len(stream)}) IN m \in {n, Len(stream)} /\ m <= n /\ m <= Len(stream)
      <3>1. Len(stream) \in Int
        BY <1>1
      <3> QED
        BY <3>1, MinOfTwo, Zenon
    <2> QED
      BY <1>1, <2>1
  <1>4. d \in Seq(Pieces) /\ Len(d) = k
    BY <1>1, <1>2, <1>3, Cut
  <1> QED
    BY <1>1, <1>2, <1>3, <1>4, Cut

(* The parts of a response, and where they are in it. *)
HeadOf(r) == r[1].kind = "status" /\ r[2].kind = "crlf"

WithLength(r) ==
  /\ Len(r) >= 4 /\ HeadOf(r)
  /\ r[3].kind = "length" /\ r[3].value = Len(r) - 4 /\ r[4].kind = "end"
  /\ \A i \in 1..(Len(r) - 4) :
        /\ r[4 + i].kind = "body"
        /\ r[4 + i].value = i + (IF ranges THEN size_fetched ELSE 0)
  /\ ranges => Len(r) - 4 <= RangeLen + 1
  /\ ~ranges => Len(r) - 4 \in {0, Size}

WithoutLength(r) ==
  /\ Len(r) >= 3 /\ HeadOf(r)
  /\ r[3].kind = "end"
  /\ \A i \in 4..Len(r) : r[i].kind = "body"

LEMMA BodyShape ==
  ASSUME TypeOK, size_fetched < Size
  PROVE  /\ Body \in Seq(Pieces) /\ Len(Body) <= Size
         /\ \A i \in 1..Len(Body) :
              /\ Body[i].kind = "body"
              /\ Body[i].value = i + (IF ranges THEN size_fetched ELSE 0)
         /\ ranges => Len(Body) <= RangeLen + 1
         /\ ~ranges => Len(Body) = Size
  <1>0. size_fetched \in Nat
    BY DEF TypeOK
  <1>1. CASE ranges
    <2> DEFINE n == Min({RangeLen + 1, Size - size_fetched})
    <2>1. RangeLen + 1 \in Int /\ Size - size_fetched \in Int
      BY <1>0
    <2>11. n \in {RangeLen + 1, Size - size_fetched} /\ n <= RangeLen + 1 /\ n <= Size - size_fetched
      BY <2>1, MinOfTwo, Zenon
    <2> HIDE DEF n
    <2>12. n \in Nat
      BY <1>0, <2>11
    <2>2. Body = [i \in 1..n |-> Piece("body", size_fetched + i)]
      BY <1>1 DEF Body, n
    <2>3. \A i \in 1..n : Piece("body", size_fetched + i) \in Pieces
      BY <1>0, <2>11, <2>12 DEF Piece, Pieces
    <2>4. Body \in Seq(Pieces) /\ Len(Body) = n
      BY <2>2, <2>3, <2>12
    <2>5. \A i \in 1..n : Body[i].kind = "body" /\ Body[i].value = size_fetched + i
      BY <2>2 DEF Piece
    <2> QED
      BY <1>0, <1>1, <2>11, <2>12, <2>4, <2>5
  <1>2. CASE ~ranges
    <2>1. Body = [i \in 1..Size |-> Piece("body", i)]
      BY <1>2 DEF Body
    <2>2. \A i \in 1..Size : Piece("body", i) \in Pieces
      BY DEF Piece, Pieces
    <2> QED
      BY <1>2, <2>1, <2>2 DEF Piece
  <1> QED
    BY <1>1, <1>2

LEMMA ResponseShape ==
  ASSUME TypeOK, size_fetched < Size, NEW r \in Responses
  PROVE  r \in Seq(Pieces) /\ (WithLength(r) \/ WithoutLength(r))
  <1>1. /\ Body \in Seq(Pieces) /\ Len(Body) <= Size
        /\ \A i \in 1..Len(Body) :
              /\ Body[i].kind = "body"
              /\ Body[i].value = i + (IF ranges THEN size_fetched ELSE 0)
        /\ ranges => Len(Body) <= RangeLen + 1
        /\ ~ranges => Len(Body) = Size
    BY BodyShape
  <1>2. /\ Piece("status", 0) \in Pieces /\ Piece("crlf", 0) \in Pieces
        /\ Piece("end", 0) \in Pieces
        /\ \A n \in 0..Size : Piece("length", n) \in Pieces
    BY DEF Piece, Pieces
  <1>3. ASSUME NEW b \in {Body, <<>>}, r = Response(<<Piece("length", Len(b))>>, b)
        PROVE  r \in Seq(Pieces) /\ WithLength(r)
    <2>1. /\ b \in Seq(Pieces) /\ Len(b) \in 0..Size
          /\ \A i \in 1..Len(b) :
                /\ b[i].kind = "body"
                /\ b[i].value = i + (IF ranges THEN size_fetched ELSE 0)
          /\ ranges => Len(b) <= RangeLen + 1
          /\ ~ranges => Len(b) \in {0, Size}
      <3>1. CASE b = Body
        <4>1. Len(Body) \in Nat
          BY <1>1
        <4> QED
          BY <1>1, <3>1, <4>1
      <3>2. CASE b = <<>>
        BY <3>2
      <3> QED
        BY <3>1, <3>2
    <2> DEFINE h == <<Piece("status", 0), Piece("crlf", 0), Piece("length", Len(b)),
                      Piece("end", 0)>>
    <2>2. r = h \o b
      <3>1. <<Piece("status", 0), Piece("crlf", 0)>> \o <<Piece("length", Len(b))>>
              \o <<Piece("end", 0)>> = h
        BY <1>2, <2>1, HeaderLines
      <3> QED
        BY <1>3, <3>1 DEF Response
    <2>3. h \in Seq(Pieces) /\ Len(h) = 4
      BY <1>2, <2>1
    <2>4. /\ h[1].kind = "status" /\ h[2].kind = "crlf" /\ h[3].kind = "length"
          /\ h[3].value = Len(b) /\ h[4].kind = "end"
      BY DEF Piece
    <2> HIDE DEF h
    <2>5. /\ r \in Seq(Pieces) /\ Len(r) = 4 + Len(b)
          /\ \A i \in 1..4 : r[i] = h[i]
          /\ \A i \in 1..Len(b) : r[4 + i] = b[i]
      <3>1. h \o b \in Seq(Pieces) /\ Len(h \o b) = Len(h) + Len(b)
        BY ONLY ZenonT(60), <2>1, <2>3, Join
      <3>2. \A i \in 1..Len(h) : (h \o b)[i] = h[i]
        BY ONLY <2>1, <2>3, JoinFront
      <3>3. \A i \in 1..Len(b) : (h \o b)[Len(h) + i] = b[i]
        <4>1. \A j \in 1..(Len(h) + Len(b)) :
              (h \o b)[j] = IF j <= Len(h) THEN h[j] ELSE b[j - Len(h)]
          BY ONLY <2>1, <2>3, ConcatProperties
        <4>2. Len(h) \in Nat /\ Len(b) \in Nat
          BY <2>1, <2>3
        <4>3. \A i \in 1..Len(b) : /\ Len(h) + i \in 1..(Len(h) + Len(b))
                                  /\ ~(Len(h) + i <= Len(h)) /\ (Len(h) + i) - Len(h) = i
          BY ONLY <4>2
        <4> QED
          BY ONLY <4>1, <4>3
      <3> QED
        BY ONLY <2>2, <2>3, <3>1, <3>2, <3>3
    <2>6. HeadOf(r) /\ r[3].kind = "length" /\ r[3].value = Len(r) - 4 /\ r[4].kind = "end"
      BY <2>1, <2>4, <2>5 DEF HeadOf
    <2>7. /\ Len(r) >= 4
          /\ ranges => Len(r) - 4 <= RangeLen + 1
          /\ ~ranges => Len(r) - 4 \in {0, Size}
      BY <2>1, <2>5
    <2>8. ASSUME NEW i \in 1..(Len(r) - 4)
          PROVE  /\ r[4 + i].kind = "body"
                 /\ r[4 + i].value = i + (IF ranges THEN size_fetched ELSE 0)
      <3>1. i \in 1..Len(b)
        BY <2>1, <2>5
      <3> QED
        BY <2>1, <2>5, <3>1
    <2> QED
      BY <2>5, <2>6, <2>7, <2>8 DEF WithLength
  <1>4. ASSUME r = Response(<<>>, Body)
        PROVE  r \in Seq(Pieces) /\ WithoutLength(r)
    <2> DEFINE h == <<Piece("status", 0), Piece("crlf", 0), Piece("end", 0)>>
               b == Body
    <2>1. r = h \o b
      <3>1. <<Piece("status", 0), Piece("crlf", 0)>> \o <<>> \o <<Piece("end", 0)>> = h
        BY <1>2, HeaderLines
      <3> QED
        BY <1>4, <3>1 DEF Response
    <2>2. h \in Seq(Pieces) /\ Len(h) = 3
      BY <1>2
    <2>3. h[1].kind = "status" /\ h[2].kind = "crlf" /\ h[3].kind = "end"
      BY DEF Piece
    <2>4. b \in Seq(Pieces) /\ \A i \in 1..Len(b) : b[i].kind = "body"
      BY <1>1
    <2> HIDE DEF h, b
    <2>5. /\ r \in Seq(Pieces) /\ Len(r) = 3 + Len(b)
          /\ \A i \in 1..3 : r[i] = h[i]
          /\ \A i \in 4..Len(r) : r[i] = b[i - 3] /\ i - 3 \in 1..Len(b)
      <3>1. /\ r \in Seq(Pieces) /\ Len(r) = 3 + Len(b)
            /\ \A i \in 1..3 : r[i] = h[i]
            /\ \A i \in 1..Len(b) : r[3 + i] = b[i]
        <4>1. h \o b \in Seq(Pieces) /\ Len(h \o b) = Len(h) + Len(b)
          BY ONLY <2>2, <2>4, Join
        <4>2. \A i \in 1..Len(h) : (h \o b)[i] = h[i]
          BY ONLY <2>2, <2>4, JoinFront
        <4>3. \A i \in 1..Len(b) : (h \o b)[Len(h) + i] = b[i]
          <5>1. \A j \in 1..(Len(h) + Len(b)) :
              (h \o b)[j] = IF j <= Len(h) THEN h[j] ELSE b[j - Len(h)]
            BY ONLY <2>2, <2>4, ConcatProperties
          <5>2. Len(h) \in Nat /\ Len(b) \in Nat
            BY <2>2, <2>4
          <5>3. \A i \in 1..Len(b) : /\ Len(h) + i \in 1..(Len(h) + Len(b))
                                  /\ ~(Len(h) + i <= Len(h)) /\ (Len(h) + i) - Len(h) = i
            BY ONLY <5>2
          <5> QED
            BY ONLY <5>1, <5>3
        <4> QED
          BY ONLY <2>1, <2>2, <4>1, <4>2, <4>3
      <3>2. \A i \in 4..Len(r) : i - 3 \in 1..Len(b) /\ 3 + (i - 3) = i
        BY <2>4, <3>1
      <3> QED
        BY <3>1, <3>2
    <2> QED
      BY <2>3, <2>4, <2>5 DEF WithoutLength, HeadOf
  <1> QED
    BY <1>3, <1>4 DEF Responses

(* Of a prefix of a response: what it has, and where. *)
LEMMA PartOfResponse ==
  ASSUME TypeOK, size_fetched < Size,
         NEW t \in Seq(Pieces), NEW u \in Seq(Pieces), t \o u \in Responses
  PROVE  /\ WithLength(t \o u) \/ WithoutLength(t \o u)
         /\ \A i \in 1..Len(t) : t[i] = (t \o u)[i]
         /\ WithLength(t \o u) =>
              /\ Has(t, "end") <=> Len(t) >= 4
              /\ Has(t, "end") => Has(t, "length") /\ Where(t, "end") = 4 /\ Where(t, "length") = 3
         /\ WithoutLength(t \o u) =>
              /\ Has(t, "end") <=> Len(t) >= 3
              /\ ~Has(t, "length")
  <1> DEFINE r == t \o u
  <1>1. WithLength(r) \/ WithoutLength(r)
    BY ResponseShape
  <1>2. /\ Len(r) = Len(t) + Len(u)
        /\ \A i \in 1..Len(t) : t[i] = r[i]
    OBVIOUS
  <1> HIDE DEF r
  <1>3. ASSUME WithLength(r)
        PROVE  /\ Has(t, "end") <=> Len(t) >= 4
               /\ Has(t, "end") => Has(t, "length") /\ Where(t, "end") = 4
                                   /\ Where(t, "length") = 3
    <2>1. \A i \in 1..Len(t) : (t[i].kind = "end" <=> i = 4) /\ (t[i].kind = "length" <=> i = 3)
      <3> TAKE i \in 1..Len(t)
      <3>1. CASE i \in 1..4
        BY <1>2, <1>3, <3>1 DEF WithLength, HeadOf
      <3>2. CASE i > 4
        <4>1. i - 4 \in 1..(Len(r) - 4) /\ 4 + (i - 4) = i
          BY <1>2, <3>2
        <4>2. r[i].kind = "body"
          BY <1>3, <4>1 DEF WithLength
        <4> QED
          BY <1>2, <3>2, <4>2
      <3> QED
        BY <3>1, <3>2
    <2>2. Has(t, "end") <=> Len(t) >= 4
      BY <2>1 DEF Has
    <2>3. ASSUME Len(t) >= 4
          PROVE  Has(t, "length") /\ Where(t, "end") = 4 /\ Where(t, "length") = 3
      <3>1. 3 \in 1..Len(t) /\ 4 \in 1..Len(t)
        BY <2>3
      <3>2. Has(t, "length")
        BY <2>1, <3>1 DEF Has
      <3>3. Where(t, "end") = 4
        BY <2>1, <3>1 DEF Where
      <3>4. Where(t, "length") = 3
        BY <2>1, <3>1 DEF Where
      <3> QED
        BY <3>2, <3>3, <3>4
    <2> QED
      BY <2>2, <2>3
  <1>4. ASSUME WithoutLength(r)
        PROVE  /\ Has(t, "end") <=> Len(t) >= 3
               /\ ~Has(t, "length")
    <2>1. \A i \in 1..Len(t) : (t[i].kind = "end" <=> i = 3) /\ t[i].kind # "length"
      <3> TAKE i \in 1..Len(t)
      <3>1. CASE i \in 1..3
        BY <1>2, <1>4, <3>1 DEF WithoutLength, HeadOf
      <3>2. CASE i > 3
        BY <1>2, <1>4, <3>2 DEF WithoutLength
      <3> QED
        BY <3>1, <3>2
    <2> QED
      BY <2>1 DEF Has
  <1> QED
    BY <1>1, <1>2, <1>3, <1>4 DEF r

----------------------------------------------------------------------------
LEMMA PiecesOf ==
  ASSUME NEW s \in Seq(Pieces)
  PROVE  \A i \in 1..Len(s) :
           s[i] \in [kind : {"status", "crlf", "length", "end", "body"}, value : 0..Size]
  <1>1. \A i \in 1..Len(s) : s[i] \in Pieces
    BY ONLY s \in Seq(Pieces)
  <1> QED
    BY ONLY <1>1 DEF Pieces

LEMMA InitIInv == Init => IInv
  <1> SUFFICES ASSUME Init
               PROVE  IInv
    OBVIOUS
  <1>1. TypeOK /\ Sequences_
    <2>1. Sequences_
      BY DEF Init, Sequences_
    <2>2. net \in {"none", "up", "bad"}
      BY DEF Init, _http_connect
    <2>3. Len(<<>>) = 0 /\ 1..0 = {}
      OBVIOUS
    <2>4. Len(stream) = 0 /\ Len(response_buf) = 0 /\ Len(received) = 0
      BY <2>3 DEF Init
    <2>5. tries \in 0 .. MAX_TRIES - 1 /\ extend_count \in 0 .. 2 * MAX_RETRY_COUNT + 1
      BY DEF Init
    <2>6. Len(response_buf) <= BufLen - 1 /\ retrieve_len \in 0..Size /\ diff \in 0..Size
          /\ response_content_len \in -1..Size
      BY <2>4 DEF Init
    <2> QED
      BY <2>1, <2>2, <2>3, <2>4, <2>5, <2>6 DEF Init, TypeOK
  <1>2. SlicesInOrder
    <2>1. <<>> = [i \in 1..0 |-> i]
      OBVIOUS
    <2> QED
      BY <2>1 DEF Init, SlicesInOrder
  <1>3. Connected /\ Fresh /\ Heading /\ Within /\ Filled /\ Missing /\ Closed
    BY DEF Init, Connected, Fresh, Heading, Within, Filled, Missing, Closed
  <1> QED
    BY <1>1, <1>2, <1>3 DEF IInv

(* A step to where nothing is claimed of the connection. *)
LEMMA Aside ==
  ASSUME IInv, TypeOK', Sequences_', UNCHANGED <<ranges, size_fetched, received>>,
         reconnected => reconnected',
         pc # "done",
         \/ pc' = "returned" /\ rc' # SUCCESS /\ net' # "up"
         \/ pc' = "returned" /\ rc' = CONN_ERROR
         \/ pc' = "done"
         \/ pc' = "fetch" /\ net' # "up"
  PROVE  IInv'
  <1>1. SlicesInOrder' /\ Missing'
    BY DEF IInv, SlicesInOrder, Missing
  <1>2. Connected' /\ Fresh' /\ Heading' /\ Within' /\ Filled' /\ Closed'
    BY DEF Connected, Fresh, Heading, Within, Filled, Closed
  <1> QED
    BY <1>1, <1>2 DEF IInv

(* http_client_recv_data ends with an error. *)
LEMMA FailReceiveIInv ==
  ASSUME IInv, NEW r \in {FAILURE, CONN_ERROR}, FailReceive(r), pc # "done",
         UNCHANGED <<tls, ranges, is_more, retrieve_len, response_buf, diff, download>>,
         data' \in Seq(Pieces), response_content_len' \in -1..Size,
         extend_count' \in 0 .. 2 * MAX_RETRY_COUNT + 1
  PROVE  IInv'
  <1>1. net' = "none" /\ stream' = <<>> /\ rc' = r /\ pc' = "returned"
    BY DEF FailReceive, http_client_close, Return
  <1>2. TypeOK' /\ Sequences_'
    BY <1>1 DEF IInv, TypeOK, Sequences_
  <1> QED
    BY <1>1, <1>2, Aside

----------------------------------------------------------------------------
(* A request. *)
LEMMA FetchIInv ==
  ASSUME IInv, ofc_fetch
  PROVE  IInv'
  <1>0. /\ pc = "fetch" /\ size_fetched < Size
        /\ UNCHANGED <<tls, ranges, net, size_fetched, received, tries, reconnected>>
    BY DEF ofc_fetch, IInv, Missing
  <1>1. ASSUME NEW r \in {FAILURE, CONN_ERROR}, Return(r), r = FAILURE => net = "none",
               UNCHANGED <<stream, http_data, response_buf, diff, data, extend_count>>
        PROVE  IInv'
    <2>1. TypeOK' /\ Sequences_'
      BY <1>0, <1>1 DEF IInv, TypeOK, Sequences_, Return
    <2> QED
      BY <1>0, <1>1, <2>1, Aside DEF Return
  <1>2. ASSUME NEW r \in Responses, net = "up", stream' = stream \o r,
               response_buf' = <<>>, response_content_len' = 0, diff' = retrieve_len,
               pc' = IF is_more THEN "fill" ELSE "head",
               is_more' = TRUE, data' = <<>>, extend_count' = 0,
               UNCHANGED <<retrieve_len, rc>>
        PROVE  IInv'
    <2>1. r \in Seq(Pieces)
      BY <1>0, ResponseShape DEF IInv
    <2>2. stream \in Seq(Pieces)
      BY DEF IInv, Sequences_
    <2>3. /\ stream' \in Seq(Pieces) /\ Len(stream') = Len(stream) + Len(r)
          /\ \A i \in 1..Len(stream) : stream'[i] = stream[i]
      BY <1>2, <2>1, <2>2, Join
    <2>4. TypeOK' /\ Sequences_'
      <3>1. Sequences_'
        BY <1>0, <1>2, <2>3 DEF IInv, Sequences_
      <3>2. \A i \in 1..Len(stream') :
              stream'[i] \in [kind : {"status", "crlf", "length", "end", "body"}, value : 0..Size]
        BY <2>3, PiecesOf
      <3> QED
        BY <1>0, <1>2, <3>1, <3>2 DEF IInv, TypeOK
    <2>5. SlicesInOrder' /\ Missing' /\ Connected' /\ Fresh' /\ Closed'
      BY <1>0, <1>2 DEF IInv, SlicesInOrder, Missing, Connected, Fresh, Closed
    <2>6. CASE is_more
      <3>1. /\ retrieve_len <= Len(stream)
            /\ \A i \in 1..retrieve_len : stream[i].kind = "body"
            /\ Ordered => \A i \in 1..retrieve_len : stream[i].value = size_fetched + i
            /\ ~ranges /\ size_fetched + retrieve_len >= Size
            /\ retrieve_len \in Nat
        BY <1>0, <1>2, <2>6 DEF IInv, TypeOK, Within
      <3>2. data' \o stream' = stream'
        BY <1>2, <2>3, ConcatEmptySeq
      <3>3. Heading'
        BY <1>2, <2>6 DEF Heading
      <3>4. Within'
        <4>1. Ahead' = stream' /\ Got' = 0 /\ ~More'
          BY <1>2, <2>6, <3>2
        <4>2. retrieve_len <= Len(stream') /\ \A i \in 1..retrieve_len : stream'[i] = stream[i]
          BY <2>2, <2>3, <3>1
        <4>3. UNCHANGED <<ranges, size_fetched, reconnected, retrieve_len>>
          BY <1>0, <1>2
        <4>4. size_fetched \in Nat
          BY DEF IInv, TypeOK
        <4>5. \A i \in 1..retrieve_len :
                /\ stream'[i].kind = "body"
                /\ Ordered => stream'[i].value = size_fetched + 0 + i
          BY <3>1, <4>2, <4>4
        <4>6. size_fetched + 0 + retrieve_len >= Size
          BY <3>1, <4>4
        <4>7. Ordered' <=> Ordered
          BY <4>3
        <4> HIDE DEF Ahead, Got, More, Ordered
        <4> QED
          BY <3>1, <4>1, <4>2, <4>3, <4>5, <4>6, <4>7 DEF Within
      <3>5. Filled'
        BY <1>2, <2>6, <3>1 DEF Filled
      <3> QED
        BY <2>4, <2>5, <3>3, <3>4, <3>5 DEF IInv
    <2>7. CASE ~is_more
      <3>1. stream = <<>> /\ retrieve_len = 0 /\ AskedOnce
        BY <1>0, <1>2, <2>7 DEF IInv, Fresh
      <3>2. stream' = r
        BY <1>2, <2>1, <3>1, ConcatEmptySeq
      <3>3. Responses' = Responses
        BY <1>0 DEF Responses, Response, Body, Piece
      <3>4. Heading'
        BY <1>0, <1>2, <2>7, <3>1, <3>2, <3>3 DEF Heading
      <3>5. Within' /\ Filled'
        BY <1>2, <2>7 DEF Within, Filled
      <3> QED
        BY <2>4, <2>5, <3>4, <3>5 DEF IInv
    <2> QED
      BY <2>6, <2>7
  <1>3. CASE net = "none" /\ Return(FAILURE)
             /\ UNCHANGED <<stream, http_data, response_buf, diff, data, extend_count>>
    BY <1>1, <1>3
  <1>4. CASE net # "none" /\ Return(CONN_ERROR)
             /\ UNCHANGED <<stream, http_data, response_buf, diff, data, extend_count>>
    BY <1>1, <1>4
  <1> QED
    BY <1>2, <1>3, <1>4 DEF ofc_fetch

(* What has been read of a response is parsed: the header goes on, or the  *)
(* body begins, or the connection is given up.                             *)
LEMMA ParseIInv ==
  ASSUME IInv, pc \in {"head", "header"},
         NEW before \in Seq(Pieces), NEW d \in Seq(Pieces), NEW rest \in Seq(Pieces),
         (before \o d) \o rest \in Responses, ~Has(before, "end"), Len(d) <= HEAD_SIZE,
         _http_parse_response_header(before \o d),
         stream' = IF net' = "up" THEN rest ELSE <<>>,
         UNCHANGED <<tls, ranges, is_more, response_buf, diff, extend_count, download>>
  PROVE  IInv'
  <1> DEFINE t == before \o d
             r == t \o rest
  <1>0. /\ size_fetched < Size /\ net = "up" /\ is_more
        /\ response_buf = <<>> /\ diff = 0 /\ AskedOnce
        /\ t \in Seq(Pieces) /\ Len(t) = Len(before) + Len(d)
    BY Join DEF IInv, Missing, Connected, Heading
  <1>1. /\ WithLength(r) \/ WithoutLength(r)
        /\ WithLength(r) =>
              /\ Has(t, "end") <=> Len(t) >= 4
              /\ Has(t, "end") => Has(t, "length") /\ Where(t, "end") = 4 /\ Where(t, "length") = 3
        /\ WithoutLength(r) =>
              /\ Has(t, "end") <=> Len(t) >= 3
              /\ ~Has(t, "length")
    <2>1. TypeOK /\ t \in Seq(Pieces) /\ t \o rest \in Responses
      BY <1>0 DEF IInv
    <2> HIDE DEF t
    <2> QED
      BY <1>0, <2>1, PartOfResponse
  <1>2. \A i \in 1..Len(before) : t[i] = before[i]
    BY Join
  <1>3. r \in Seq(Pieces) /\ Len(r) = Len(t) + Len(rest)
    BY <1>0, Join
  <1>4. /\ \A i \in 1..Len(t) : r[i] = t[i]
        /\ \A i \in 1..Len(rest) : r[Len(t) + i] = rest[i]
    BY <1>0, Join
  <1>5. Responses' = Responses
    BY DEF Responses, Response, Body, Piece
  <1>6. Len(t) \in Nat /\ Len(d) \in Nat /\ Len(before) \in Nat /\ Len(rest) \in Nat
    BY <1>0
  <1> HIDE DEF t, r
  <1>7. _http_parse_response_header(t) /\ r \in Responses /\ r = t \o rest
    BY DEF t, r
  <1>8. SlicesInOrder' /\ Missing'
    <2>1. pc # "done"
      OBVIOUS
    <2> QED
      BY <2>1 DEF IInv, SlicesInOrder, Missing
  <1>9. CASE ~Has(t, "end")
    <2>1. /\ data' = t /\ pc' = "header" /\ response_content_len' = -1
          /\ UNCHANGED <<retrieve_len, rc, net>> /\ stream' = rest
      BY <1>0, <1>7, <1>9 DEF _http_parse_response_header
    <2>2. TypeOK' /\ Sequences_'
      BY <1>0, <2>1, PiecesOf DEF IInv, TypeOK, Sequences_
    <2>3. Heading'
      <3>1. ~Has(data', "end") /\ data' \o stream' \in Responses'
        BY <1>5, <1>7, <1>9, <2>1
      <3>2. ~Has(data, "end")' <=> ~Has(data', "end")
        BY DEF Has
      <3> QED
        BY <1>0, <2>1, <3>1, <3>2 DEF Heading
    <2>4. Connected' /\ Fresh' /\ Within' /\ Filled' /\ Closed'
      BY <1>0, <2>1 DEF Connected, Fresh, Within, Filled, Closed
    <2> QED
      BY <1>8, <2>2, <2>3, <2>4 DEF IInv
  <1>10. CASE Has(t, "end") /\ Has(t, "length")
    <2>1. /\ WithLength(r) /\ Len(t) >= 4
          /\ Where(t, "end") = 4 /\ Where(t, "length") = 3
      BY <1>1, <1>10
    <2>2. /\ response_content_len' = t[3].value /\ retrieve_len' = t[3].value
          /\ data' = SubSeq(t, 5, Len(t)) /\ pc' = "fill"
          /\ UNCHANGED <<rc, net>> /\ stream' = rest
      <3>1. /\ response_content_len' = t[Where(t, "length")].value
            /\ retrieve_len' = response_content_len'
            /\ data' = SubSeq(t, Where(t, "end") + 1, Len(t))
            /\ pc' = "fill" /\ UNCHANGED <<rc, net>>
        BY <1>7, <1>10 DEF _http_parse_response_header
      <3>2. 4 + 1 = 5
        OBVIOUS
      <3> QED
        BY <1>0, <2>1, <3>1, <3>2
    <2>3. t[3].value = Len(r) - 4 /\ t[3].value \in 0..Size
      <3>1. 3 \in 1..Len(t) /\ t[3] \in Pieces /\ t[3] = r[3]
        BY <1>0, <1>4, <1>6, <2>1
      <3> QED
        BY <2>1, <3>1 DEF WithLength, Pieces
    <2>4. /\ data' \in Seq(Pieces) /\ Len(data') = Len(t) - 4
          /\ \A i \in 1..(Len(t) - 4) : data'[i] = t[4 + i]
      <3>1. 4 \in 0..Len(t) /\ 4 + 1 = 5
        BY <1>6, <2>1
      <3> QED
        BY <1>0, <2>2, <3>1, Cut
    <2>5. Len(data') <= BufLen - 1
      <3>1. Len(before) < 4
        <4>1. SUFFICES ASSUME Len(before) >= 4
                       PROVE  FALSE
          BY <1>6
        <4>2. 4 \in 1..Len(before) /\ 4 \in 1..Len(t)
          BY <1>0, <1>6, <4>1
        <4>3. before[4].kind = "end"
          BY <1>2, <1>4, <2>1, <4>2 DEF WithLength
        <4> QED
          BY <4>2, <4>3 DEF Has
      <3> QED
        BY <1>0, <1>6, <2>4, <3>1
    <2>6. TypeOK' /\ Sequences_'
      <3>1. Sequences_'
        BY <1>0, <2>2, <2>4 DEF IInv, Sequences_
      <3>2. \A i \in 1..Len(stream') :
              stream'[i] \in [kind : {"status", "crlf", "length", "end", "body"}, value : 0..Size]
        BY <2>2, PiecesOf
      <3>3. response_content_len' \in -1..Size /\ retrieve_len' \in 0..Size
        BY <2>2, <2>3
      <3> QED
        BY <1>0, <2>2, <3>1, <3>2, <3>3 DEF IInv, TypeOK
    <2>7. /\ data' \o rest \in Seq(Pieces)
          /\ Len(data' \o rest) = Len(r) - 4
          /\ \A i \in 1..(Len(r) - 4) : (data' \o rest)[i] = r[4 + i]
      <3>1. /\ data' \o rest \in Seq(Pieces) /\ Len(data' \o rest) = Len(data') + Len(rest)
            /\ \A i \in 1..Len(data') : (data' \o rest)[i] = data'[i]
            /\ \A j \in 1..(Len(data') + Len(rest)) :
                 (data' \o rest)[j] = IF j <= Len(data') THEN data'[j] ELSE rest[j - Len(data')]
        <4>1. data' \in Seq(Pieces) /\ rest \in Seq(Pieces)
          BY <2>4
        <4>2. /\ data' \o rest \in Seq(Pieces) /\ Len(data' \o rest) = Len(data') + Len(rest)
              /\ \A j \in 1..(Len(data') + Len(rest)) :
                   (data' \o rest)[j] = IF j <= Len(data') THEN data'[j] ELSE rest[j - Len(data')]
          BY ONLY <4>1, ConcatProperties
        <4>3. \A i \in 1..Len(data') : (data' \o rest)[i] = data'[i]
          BY ONLY <4>1, JoinFront
        <4> QED
          BY <4>2, <4>3
      <3>2. ASSUME NEW i \in 1..(Len(r) - 4)
            PROVE  (data' \o rest)[i] = r[4 + i]
        <4>1. CASE i <= Len(data')
          <5>1. i \in 1..(Len(t) - 4) /\ 4 + i \in 1..Len(t) /\ i \in 1..Len(data')
            BY <1>3, <1>6, <2>4, <4>1
          <5> QED
            BY <1>4, <2>4, <3>1, <5>1
        <4>2. CASE i > Len(data')
          <5>1. /\ i - Len(data') \in 1..Len(rest) /\ i \in 1..(Len(data') + Len(rest))
                /\ Len(t) + (i - Len(data')) = 4 + i
            BY <1>3, <1>6, <2>4, <4>2
          <5>2. r[4 + i] = rest[i - Len(data')]
            BY <1>4, <5>1
          <5>3. ~(i <= Len(data'))
            BY <2>4, <1>6, <4>2
          <5> QED
            BY <3>1, <5>1, <5>2, <5>3
        <4>3. i <= Len(data') \/ i > Len(data')
          BY <1>6, <2>4
        <4> QED
          BY <4>1, <4>2, <4>3
      <3> QED
        BY <1>3, <1>6, <2>4, <3>1, <3>2
    <2>8. Within'
      <3>1. Ahead' = data' \o rest /\ Got' = 0 /\ ~More' /\ retrieve_len' = Len(r) - 4
        BY <1>0, <2>2, <2>3
      <3>2. \A i \in 1..(Len(r) - 4) :
               /\ r[4 + i].kind = "body"
               /\ r[4 + i].value = i + (IF ranges THEN size_fetched ELSE 0)
        BY <2>1 DEF WithLength
      <3>3. size_fetched \in Nat
        BY DEF IInv, TypeOK
      <3>4. Ordered => \A i \in 1..(Len(r) - 4) : r[4 + i].value = size_fetched + i
        <4>1. AskedOnce
          BY <1>0 DEF IInv, Heading
        <4>2. CASE ranges
          BY ONLY <3>2, <3>3, <4>2, SMTT(30)
        <4>3. CASE ~ranges
          <5>1. Ordered => size_fetched = 0
            BY ONLY <4>1, <4>3 DEF Ordered, AskedOnce
          <5>2. \A i \in 1..(Len(r) - 4) : r[4 + i].value = i + 0
            BY ONLY <3>2, <4>3, SMTT(30)
          <5> QED
            BY ONLY <5>1, <5>2, SMTT(30)
        <4> QED
          BY <4>2, <4>3
      <3>6. UNCHANGED <<ranges, size_fetched, reconnected>> /\ (Ordered' <=> Ordered)
        OBVIOUS
      <3>7. \A i \in 1..(Len(r) - 4) :
              /\ (data' \o rest)[i].kind = "body"
              /\ Ordered => (data' \o rest)[i].value = size_fetched + 0 + i
        <4>1. TAKE i \in 1..(Len(r) - 4)
        <4>2. (data' \o rest)[i] = r[4 + i]
          BY ONLY <2>7, <4>1
        <4>3. r[4 + i].kind = "body" /\ (Ordered => r[4 + i].value = size_fetched + i)
          BY ONLY <3>2, <3>4, <4>1
        <4>4. size_fetched + 0 + i = size_fetched + i
          BY ONLY <3>3, <4>1
        <4> QED
          BY ONLY <4>2, <4>3, <4>4
      <3>5. /\ ranges => Len(r) - 4 <= RangeLen + 1
            /\ ~ranges => Len(r) - 4 \in {0, Size}
        BY <2>1 DEF WithLength
      <3>8. Len(r) - 4 \in Nat
        BY <2>3
      <3>9. ~ranges => \/ size_fetched + 0 + (Len(r) - 4) >= Size
                       \/ Len(r) - 4 = 0
        BY <3>3, <3>5
      <3>10. /\ Len(data' \o rest) = Len(r) - 4
             /\ ranges => 0 + (Len(r) - 4) <= RangeLen + 1
        BY <2>7, <3>5, <3>8
      <3> HIDE DEF Ahead, Got, More, Ordered
      <3> QED
        BY ONLY <3>1, <3>6, <3>7, <3>8, <3>9, <3>10 DEF Within
    <2>9. Filled'
      BY <1>0, <1>3, <1>6, <2>2, <2>3, <2>4, <2>5 DEF Filled
    <2>10. Connected' /\ Fresh' /\ Heading' /\ Closed'
      BY <1>0, <2>2 DEF Connected, Fresh, Heading, Closed
    <2> QED
      BY <1>8, <2>6, <2>8, <2>9, <2>10 DEF IInv
  <1>11. CASE Has(t, "end") /\ ~Has(t, "length")
    <2>1. /\ rc' = CONN_ERROR /\ pc' = "returned" /\ net' = "none"
          /\ response_content_len' = -1 /\ data' = t /\ UNCHANGED retrieve_len
          /\ stream' = <<>>
      BY <1>7, <1>11 DEF _http_parse_response_header, Return
    <2>2. Sequences_'
      BY <1>0, <2>1 DEF IInv, Sequences_
    <2>3. TypeOK'
      BY <1>0, <2>1, SMTT(30) DEF IInv, TypeOK
    <2> QED
      BY <2>1, <2>2, <2>3, Aside
  <1> QED
    BY <1>9, <1>10, <1>11

LEMMA RecvResponseIInv ==
  ASSUME IInv, _http_client_recv_response
  PROVE  IInv'
  <1>0. /\ pc = "head" /\ stream \in Responses /\ stream \in Seq(Pieces)
        /\ UNCHANGED <<tls, ranges, is_more, response_buf, diff, extend_count, download>>
    BY DEF IInv, Heading, Sequences_, _http_client_recv_response
  <1>1. ASSUME NEW d \in Reads(HEAD_SIZE), _http_parse_response_header(d),
               stream' = IF net' = "up" THEN SubSeq(stream, Len(d) + 1, Len(stream)) ELSE <<>>
        PROVE  IInv'
    <2> DEFINE rest == SubSeq(stream, Len(d) + 1, Len(stream))
    <2>1. /\ d \in Seq(Pieces) /\ Len(d) <= HEAD_SIZE /\ rest \in Seq(Pieces)
          /\ d \o rest = stream
      BY ReadPart DEF IInv
    <2>2. <<>> \in Seq(Pieces) /\ <<>> \o d = d /\ ~Has(<<>>, "end")
      BY <2>1, ConcatEmptySeq DEF Has
    <2> HIDE DEF rest
    <2>3. stream' = IF net' = "up" THEN rest ELSE <<>>
      BY <1>1 DEF rest
    <2> QED
      BY <1>0, <1>1, <2>1, <2>2, <2>3, ParseIInv
  <1>2. ASSUME NEW r \in {FAILURE, CONN_ERROR}, FailReceive(r),
               response_content_len' \in {-1, response_content_len},
               UNCHANGED <<data, retrieve_len>>
        PROVE  IInv'
    <2>1. /\ data' \in Seq(Pieces) /\ response_content_len' \in -1..Size
          /\ extend_count' \in 0 .. 2 * MAX_RETRY_COUNT + 1
      BY <1>0, <1>2 DEF IInv, TypeOK, Sequences_
    <2> QED
      BY <1>0, <1>2, <2>1, FailReceiveIInv
  <1> QED
    BY <1>1, <1>2 DEF _http_client_recv_response

LEMMA HeaderLoopIInv ==
  ASSUME IInv, HeaderLoop
  PROVE  IInv'
  <1>0. /\ pc = "header" /\ data \o stream \in Responses /\ ~Has(data, "end")
        /\ stream \in Seq(Pieces) /\ data \in Seq(Pieces)
        /\ UNCHANGED <<tls, ranges, is_more, response_buf, diff, extend_count, download>>
    BY DEF IInv, Heading, Sequences_, HeaderLoop
  <1>1. ASSUME NEW d \in Reads(HEAD_SIZE), _http_parse_response_header(data \o d),
               stream' = IF net' = "up" THEN SubSeq(stream, Len(d) + 1, Len(stream)) ELSE <<>>
        PROVE  IInv'
    <2> DEFINE rest == SubSeq(stream, Len(d) + 1, Len(stream))
    <2>1. /\ d \in Seq(Pieces) /\ Len(d) <= HEAD_SIZE /\ rest \in Seq(Pieces)
          /\ d \o rest = stream
      BY ReadPart DEF IInv
    <2> HIDE DEF rest
    <2>2. (data \o d) \o rest = data \o stream
      <3>1. (data \o d) \o rest = data \o (d \o rest)
        <4>1. data \in Seq(Pieces) /\ d \in Seq(Pieces) /\ rest \in Seq(Pieces)
          BY <1>0, <2>1
        <4> QED
          BY ONLY <4>1, ConcatAssociative
      <3> QED
        BY <2>1, <3>1
    <2>3. stream' = IF net' = "up" THEN rest ELSE <<>>
      BY <1>1 DEF rest
    <2> QED
      BY <1>0, <1>1, <2>1, <2>2, <2>3, ParseIInv
  <1>2. ASSUME FailReceive(CONN_ERROR),
               UNCHANGED <<data, retrieve_len, response_content_len>>
        PROVE  IInv'
    <2>1. /\ data' \in Seq(Pieces) /\ response_content_len' \in -1..Size
          /\ extend_count' \in 0 .. 2 * MAX_RETRY_COUNT + 1
      BY <1>0, <1>2 DEF IInv, TypeOK, Sequences_
    <2> QED
      BY <1>0, <1>2, <2>1, FailReceiveIInv
  <1> QED
    BY <1>1, <1>2 DEF HeaderLoop

----------------------------------------------------------------------------
(* What was read fits the buffer, so all of it goes there. *)
LEMMA FillIInv ==
  ASSUME IInv, _http_get_response_body
  PROVE  IInv'
  <1> DEFINE room == BufLen - 1 - Len(response_buf)
             n == Min({Len(data), retrieve_len, room})
             k == Len(data)
  <1>0. /\ pc = "fill" /\ net = "up" /\ is_more /\ size_fetched < Size
        /\ UNCHANGED <<tls, ranges, net, stream, response_content_len, data, diff,
                       extend_count, size_fetched, received, tries, reconnected>>
    BY DEF IInv, Missing, Connected, _http_get_response_body
  <1>1. /\ data \in Seq(Pieces) /\ response_buf \in Seq(Pieces) /\ stream \in Seq(Pieces)
        /\ k \in Nat /\ Len(response_buf) \in Nat /\ Len(stream) \in Nat
        /\ retrieve_len \in 0..Size /\ size_fetched \in Nat
    BY DEF IInv, TypeOK, Sequences_
  <1>2. /\ k <= retrieve_len /\ k + Len(response_buf) <= BufLen - 1
        /\ Len(response_buf) = Fetched
        /\ Ordered => \A i \in 1..Len(response_buf) : response_buf[i].value = size_fetched + i
    BY <1>0 DEF IInv, Filled
  <1>3. n = k
    <2>1. k \in Int /\ retrieve_len \in Int /\ room \in Int
      BY <1>1
    <2>2. n \in {k, retrieve_len, room} /\ n <= k /\ n <= retrieve_len /\ n <= room
      BY <2>1, MinOfThree
    <2>3. k <= room
      BY <1>1, <1>2
    <2> HIDE DEF n, k, room
    <2> QED
      BY <1>2, <2>1, <2>2, <2>3
  <1>4. /\ response_buf' = response_buf \o data /\ retrieve_len' = retrieve_len - k
        /\ \/ pc' = "returned" /\ rc' = SUCCESS /\ is_more' = is_more
              /\ Len(response_buf') = BufLen - 1
           \/ pc' = "returned" /\ rc' = SUCCESS /\ is_more' = FALSE
              /\ retrieve_len' = 0
           \/ pc' = "read" /\ rc' = rc /\ is_more' = is_more
              /\ Len(response_buf') # BufLen - 1 /\ retrieve_len' # 0
    <2>1. _utils_fill_rx_buf
      BY DEF _http_get_response_body
    <2>2. response_buf' = response_buf \o SubSeq(data, 1, n) /\ retrieve_len' = retrieve_len - n
      BY <2>1 DEF _utils_fill_rx_buf
    <2>3. SubSeq(data, 1, k) = data
      BY <1>1
    <2>4. \/ pc' = "returned" /\ rc' = SUCCESS /\ is_more' = is_more
             /\ Len(response_buf') = BufLen - 1
          \/ pc' = "returned" /\ rc' = SUCCESS /\ is_more' = FALSE
             /\ retrieve_len' = 0
          \/ pc' = "read" /\ rc' = rc /\ is_more' = is_more
             /\ Len(response_buf') # BufLen - 1 /\ retrieve_len' # 0
      BY DEF _http_get_response_body, Return
    <2> QED
      BY <1>3, <2>2, <2>3, <2>4
  <1> HIDE DEF n
  <1>5. /\ response_buf' \in Seq(Pieces) /\ Len(response_buf') = Len(response_buf) + k
        /\ \A i \in 1..(Len(response_buf) + k) :
             response_buf'[i] = IF i <= Len(response_buf) THEN response_buf[i]
                                ELSE data[i - Len(response_buf)]
    BY ONLY <1>1, <1>4, ConcatProperties
  <1>6. /\ data \o stream \in Seq(Pieces) /\ Len(data \o stream) = k + Len(stream)
        /\ \A i \in 1..k : (data \o stream)[i] = data[i]
        /\ \A i \in 1..(k + Len(stream)) :
             (data \o stream)[i] = IF i <= k THEN data[i] ELSE stream[i - k]
    <2>1. /\ data \o stream \in Seq(Pieces) /\ Len(data \o stream) = k + Len(stream)
          /\ \A i \in 1..(k + Len(stream)) :
               (data \o stream)[i] = IF i <= k THEN data[i] ELSE stream[i - k]
      BY ONLY <1>1, ConcatProperties
    <2>2. \A i \in 1..k : (data \o stream)[i] = data[i]
      BY ONLY <1>1, JoinFront
    <2> QED
      BY <2>1, <2>2
  <1>7. /\ retrieve_len <= k + Len(stream)
        /\ \A i \in 1..retrieve_len : (data \o stream)[i].kind = "body"
        /\ Ordered => \A i \in 1..retrieve_len :
                        (data \o stream)[i].value = size_fetched + Len(response_buf) + i
        /\ ranges => /\ k + Len(stream) = retrieve_len
                     /\ Len(response_buf) + retrieve_len <= RangeLen + 1
        /\ ~ranges => \/ size_fetched + Len(response_buf) + retrieve_len >= Size
                      \/ retrieve_len = 0 /\ Len(response_buf) = 0
    <2>1. Ahead = data \o stream /\ Got = Len(response_buf)
      BY <1>0
    <2> HIDE DEF Ahead, Got, More, Ordered, k
    <2> QED
      BY <1>0, <1>6, <2>1 DEF IInv, Within
  <1> HIDE DEF k
  <1>8. TypeOK' /\ Sequences_'
    <2>1. Sequences_'
      BY <1>0, <1>5 DEF IInv, Sequences_
    <2>2. Len(response_buf') <= BufLen - 1 /\ retrieve_len' \in 0..Size
      BY <1>1, <1>2, <1>4, <1>5
    <2>3. pc' \in {"read", "returned"} /\ rc' \in {SUCCESS, rc} /\ is_more' \in BOOLEAN
      BY <1>0, <1>4
    <2> QED
      BY <1>0, <2>1, <2>2, <2>3 DEF IInv, TypeOK
  <1>9. ASSUME NEW i \in 1..retrieve_len'
        PROVE  /\ stream[i].kind = "body"
               /\ Ordered => stream[i].value = size_fetched + Len(response_buf') + i
    <2>1. /\ k + i \in 1..retrieve_len /\ k + i \in 1..(k + Len(stream))
          /\ ~(k + i <= k) /\ (k + i) - k = i
      BY <1>1, <1>4, <1>7
    <2>2. (data \o stream)[k + i] = stream[i]
      BY <1>6, <2>1
    <2>3. size_fetched + Len(response_buf) + (k + i) = size_fetched + Len(response_buf') + i
      BY <1>1, <1>5
    <2> QED
      BY <1>7, <2>1, <2>2, <2>3
  <1>10. ASSUME Ordered, NEW i \in 1..Len(response_buf')
         PROVE  response_buf'[i].value = size_fetched + i
    <2>1. CASE i <= Len(response_buf)
      <3>1. i \in 1..Len(response_buf) /\ response_buf'[i] = response_buf[i]
        BY <1>1, <1>5, <2>1
      <3> QED
        BY <1>2, <1>10, <3>1
    <2>2. CASE ~(i <= Len(response_buf))
      <3>1. /\ i - Len(response_buf) \in 1..k /\ i - Len(response_buf) \in 1..retrieve_len
            /\ response_buf'[i] = data[i - Len(response_buf)]
        BY <1>1, <1>2, <1>5, <2>2
      <3>2. /\ (data \o stream)[i - Len(response_buf)] = data[i - Len(response_buf)]
            /\ size_fetched + Len(response_buf) + (i - Len(response_buf)) = size_fetched + i
        BY <1>1, <1>6, <3>1
      <3> QED
        BY <1>7, <1>10, <3>1, <3>2
    <2> QED
      BY <2>1, <2>2
  <1>11. Within'
    <2>1. Ahead' = stream /\ Got' = Len(response_buf') /\ ~More' /\ (Ordered' <=> Ordered)
          /\ ranges' = ranges /\ size_fetched' = size_fetched
      BY <1>0, <1>4
    <2>2. /\ retrieve_len' <= Len(stream)
          /\ ranges => /\ Len(stream) = retrieve_len'
                       /\ Len(response_buf') + retrieve_len' <= RangeLen + 1
          /\ ~ranges => \/ size_fetched + Len(response_buf') + retrieve_len' >= Size
                        \/ retrieve_len' = 0 /\ Len(response_buf') = 0
      <3>1. /\ retrieve_len' = retrieve_len - k /\ Len(response_buf') = Len(response_buf) + k
            /\ k \in Nat /\ k <= retrieve_len /\ retrieve_len \in Nat
            /\ Len(response_buf) \in Nat /\ Len(stream) \in Nat /\ size_fetched \in Nat
        BY <1>1, <1>2, <1>4, <1>5
      <3>2. retrieve_len <= k + Len(stream)
        BY <1>1, <1>7
      <3>3. ranges => /\ k + Len(stream) = retrieve_len
                      /\ Len(response_buf) + retrieve_len <= RangeLen + 1
        BY <1>1, <1>7
      <3>4. ~ranges => \/ size_fetched + Len(response_buf) + retrieve_len >= Size
                       \/ retrieve_len = 0 /\ Len(response_buf) = 0
        BY <1>1, <1>7
      <3>5. RangeLen \in Nat /\ Size \in Nat
        BY Sizes
      <3>6. retrieve_len' <= Len(stream)
        BY ONLY <3>1, <3>2
      <3>7. ranges => /\ Len(stream) = retrieve_len'
                      /\ Len(response_buf') + retrieve_len' <= RangeLen + 1
        BY ONLY <3>1, <3>3, <3>5
      <3>8. ~ranges => \/ size_fetched + Len(response_buf') + retrieve_len' >= Size
                       \/ retrieve_len' = 0 /\ Len(response_buf') = 0
        BY ONLY <3>1, <3>4, <3>5
      <3> QED
        BY ONLY <3>6, <3>7, <3>8
    <2> HIDE DEF Ahead, Got, More, Ordered
    <2> QED
      BY ONLY <1>9, <2>1, <2>2 DEF Within
  <1>12. Filled'
    <2>1. Fetched' = Fetched + k /\ Len(response_buf') = Fetched'
      BY <1>0, <1>1, <1>2, <1>4, <1>5 DEF IInv, TypeOK
    <2>2. (Ordered' <=> Ordered) /\ size_fetched' = size_fetched /\ net' = "up"
      BY <1>0
    <2>3. pc' = "read" => retrieve_len' > 0 /\ Len(response_buf') < BufLen - 1
      BY <1>1, <1>2, <1>4, <1>5
    <2>4. pc' # "fill" /\ (Good' => IF is_more' THEN Len(response_buf') = BufLen - 1
                                                ELSE retrieve_len' = 0)
      BY <1>0, <1>4
    <2> HIDE DEF Fetched, Ordered, Good
    <2> QED
      BY ONLY <1>10, <2>1, <2>2, <2>3, <2>4 DEF Filled
  <1>13. SlicesInOrder' /\ Missing' /\ Connected' /\ Fresh' /\ Heading' /\ Closed'
    <2>1. /\ UNCHANGED <<ranges, reconnected, received, size_fetched>> /\ net' = "up"
          /\ pc' \in {"returned", "read"} /\ (pc' = "returned" => rc' = SUCCESS)
          /\ (pc' = "read" => is_more') /\ size_fetched < Size
      BY <1>0, <1>4 DEF IInv, Missing
    <2>2. SlicesInOrder'
      BY <2>1 DEF IInv, SlicesInOrder
    <2>3. Missing' /\ Connected'
      BY ONLY <2>1 DEF Missing, Connected
    <2>4. Heading' /\ Closed'
      BY <2>1 DEF Heading, Closed, FAILURE, SUCCESS
    <2>5. Fresh'
      BY <2>1 DEF Fresh
    <2> QED
      BY <2>2, <2>3, <2>4, <2>5
  <1> QED
    BY <1>8, <1>11, <1>12, <1>13 DEF IInv

(* A read of the body that brings something, or nothing. *)
LEMMA MoreDataIInv ==
  ASSUME IInv, pc = "read", pc' = "fill", UNCHANGED <<rc, net>>,
         data' \in Seq(Pieces), stream' \in Seq(Pieces), data' \o stream' = stream,
         Len(data') <= retrieve_len, Len(data') <= BufLen - 1 - Len(response_buf),
         extend_count' \in 0 .. 2 * MAX_RETRY_COUNT + 1,
         UNCHANGED <<tls, ranges, http_data, response_buf, diff, download>>
  PROVE  IInv'
  <1>1. /\ net = "up" /\ is_more /\ size_fetched < Size /\ Len(response_buf) \in Nat
        /\ UNCHANGED <<is_more, retrieve_len, response_content_len, size_fetched, received,
                       tries, reconnected>>
    BY DEF IInv, Missing, Connected, Sequences_
  <1>2. TypeOK' /\ Sequences_'
    <2>1. Sequences_'
      BY <1>1 DEF IInv, Sequences_
    <2>2. \A i \in 1..Len(stream') :
            stream'[i] \in [kind : {"status", "crlf", "length", "end", "body"}, value : 0..Size]
      BY PiecesOf
    <2> QED
      BY <1>1, <2>1, <2>2 DEF IInv, TypeOK
  <1>3. Within'
    <2>1. /\ Ahead' = stream /\ Ahead = stream /\ Got' = Len(response_buf)
          /\ Got = Len(response_buf) /\ ~More' /\ ~More /\ (Ordered' <=> Ordered)
      BY <1>1
    <2>2. UNCHANGED <<ranges, size_fetched, retrieve_len>>
      BY <1>1
    <2> HIDE DEF Ahead, Got, More, Ordered
    <2> QED
      BY <2>1, <2>2 DEF IInv, Within
  <1>4. Filled'
    <2>1. /\ Fetched' = Fetched /\ (Ordered' <=> Ordered) /\ ~Good'
          /\ UNCHANGED <<size_fetched, response_buf, retrieve_len>>
      BY <1>1
    <2>2. Len(data') + Len(response_buf) <= BufLen - 1
      BY <1>1
    <2> HIDE DEF Fetched, Ordered, Good
    <2> QED
      BY <2>1, <2>2 DEF IInv, Filled
  <1>5. SlicesInOrder' /\ Missing' /\ Connected' /\ Fresh' /\ Heading' /\ Closed'
    BY <1>1 DEF IInv, SlicesInOrder, Missing, Connected, Fresh, Heading, Closed
  <1> QED
    BY <1>2, <1>3, <1>4, <1>5 DEF IInv

LEMMA ReadBodyIInv ==
  ASSUME IInv, ReadBody
  PROVE  IInv'
  <1>0. /\ pc = "read" /\ stream \in Seq(Pieces) /\ data \in Seq(Pieces)
        /\ Len(response_buf) \in Nat /\ retrieve_len \in 0..Size
        /\ response_content_len \in -1..Size
        /\ Len(response_buf) < BufLen - 1
        /\ extend_count \in 0 .. 2 * MAX_RETRY_COUNT + 1
        /\ UNCHANGED <<tls, ranges, http_data, response_buf, diff, download>>
    BY DEF IInv, TypeOK, Sequences_, Filled, ReadBody
  <1>1. Min({extend_count + 1, 2 * MAX_RETRY_COUNT + 1}) \in 0 .. 2 * MAX_RETRY_COUNT + 1
    <2>1. extend_count + 1 \in Int /\ 2 * MAX_RETRY_COUNT + 1 \in Int
      BY <1>0
    <2>2. /\ Min({extend_count + 1, 2 * MAX_RETRY_COUNT + 1})
               \in {extend_count + 1, 2 * MAX_RETRY_COUNT + 1}
          /\ Min({extend_count + 1, 2 * MAX_RETRY_COUNT + 1}) <= 2 * MAX_RETRY_COUNT + 1
      BY <2>1, MinOfTwo, Zenon
    <2> QED
      BY <1>0, <2>1, <2>2
  <1>2. ASSUME NEW d \in Reads(MaxLenToReceive), data' = d, pc' = "fill",
               stream' = SubSeq(stream, Len(d) + 1, Len(stream)),
               extend_count' \in {extend_count, Min({extend_count + 1, 2 * MAX_RETRY_COUNT + 1})},
               UNCHANGED <<rc, net>>
        PROVE  IInv'
    <2> DEFINE room == BufLen - 1 - Len(response_buf)
    <2>1. CHUNK_SIZE - 1 \in Int /\ room \in Int /\ retrieve_len \in Int
      BY <1>0
    <2>2. /\ MaxLenToReceive \in {CHUNK_SIZE - 1, room, retrieve_len}
          /\ MaxLenToReceive <= room /\ MaxLenToReceive <= retrieve_len
      BY <2>1, MinOfThree DEF MaxLenToReceive
    <2> HIDE DEF room
    <2>3. MaxLenToReceive \in Int
      BY <2>1, <2>2
    <2>4. /\ d \in Seq(Pieces) /\ Len(d) <= MaxLenToReceive
          /\ stream' \in Seq(Pieces) /\ d \o stream' = stream
      BY <1>2, <2>3, ReadPart DEF IInv
    <2>5. Len(d) <= room /\ Len(d) <= retrieve_len
      BY <2>1, <2>2, <2>3, <2>4
    <2> QED
      BY <1>0, <1>1, <1>2, <2>4, <2>5, MoreDataIInv DEF room
  <1>3. CASE _utils_check_deadloop
    <2>1. data' = <<>> /\ extend_count' \in 0 .. 2 * MAX_RETRY_COUNT + 1
      BY <1>1, <1>3 DEF _utils_check_deadloop
    <2>2. CASE FailReceive(CONN_ERROR)
      <3>1. /\ data' \in Seq(Pieces) /\ response_content_len' \in -1..Size
            /\ UNCHANGED <<is_more, retrieve_len>>
        BY <1>0, <2>1
      <3> QED
        BY <1>0, <2>1, <2>2, <3>1, FailReceiveIInv
    <2>3. CASE pc' = "fill" /\ UNCHANGED <<rc, net, stream>>
      <3>1. data' \in Seq(Pieces) /\ Len(data') = 0 /\ data' \o stream' = stream
        BY <1>0, <2>1, <2>3, ConcatEmptySeq
      <3>2. Len(data') <= retrieve_len /\ Len(data') <= BufLen - 1 - Len(response_buf)
        BY <1>0, <3>1
      <3> QED
        BY <1>0, <2>1, <2>3, <3>1, <3>2, MoreDataIInv
    <2> QED
      BY <1>3, <2>2, <2>3 DEF _utils_check_deadloop
  <1>4. CASE FailReceive(CONN_ERROR) /\ UNCHANGED <<data, extend_count>>
    <2>1. /\ data' \in Seq(Pieces) /\ response_content_len' \in -1..Size
          /\ extend_count' \in 0 .. 2 * MAX_RETRY_COUNT + 1
          /\ UNCHANGED <<is_more, retrieve_len>>
      BY <1>0, <1>4
    <2> QED
      BY <1>0, <1>4, <2>1, FailReceiveIInv
  <1> QED
    BY <1>2, <1>3, <1>4 DEF ReadBody

----------------------------------------------------------------------------
(* The tries of IOT_OTA_FetchYield. *)
LEMMA ReconnectIInv ==
  ASSUME IInv, Reconnect
  PROVE  IInv'
  <1>0. /\ pc = "returned" /\ tries \in 0 .. MAX_TRIES - 1 /\ size_fetched < Size
        /\ is_more' = FALSE /\ retrieve_len' = 0 /\ response_content_len' = 0
        /\ reconnected' = TRUE
        /\ UNCHANGED <<tls, ranges, data, response_buf, diff, extend_count, rc,
                       size_fetched, received>>
    BY DEF IInv, TypeOK, Missing, Reconnect
  <1>a. /\ retrieve_len' \in 0..Size /\ response_content_len' \in -1..Size
         /\ is_more' \in BOOLEAN /\ reconnected' \in BOOLEAN
    <2>1. 0 \in 0..Size /\ 0 \in -1..Size
      BY Sizes
    <2> QED
      BY ONLY <1>0, <2>1
  <1>1. CASE LastTry /\ GiveUp
    <2>1. net' = "none" /\ stream' = <<>> /\ pc' = "done" /\ tries' = 0
      BY <1>1 DEF GiveUp, http_client_close
    <2>2. Sequences_'
      BY <1>0, <2>1 DEF IInv, Sequences_
    <2>3. TypeOK'
      <3>1. 0 \in 0 .. MAX_TRIES - 1
        BY Sizes
      <3>2. tries' \in 0 .. MAX_TRIES - 1 /\ net' \in {"none", "up", "bad"}
        BY <2>1, <3>1
      <3> QED
        BY <1>0, <1>a, <2>1, <3>2 DEF IInv, TypeOK
    <2> QED
      BY <1>0, <2>1, <2>2, <2>3, Aside
  <1>2. CASE ~LastTry /\ net' \in _http_connect(tls) /\ stream' = <<>> /\ pc' = "fetch"
             /\ tries' = tries + 1
    <2>1. net' \in {"up", "none", "bad"}
      BY <1>2 DEF _http_connect
    <2>2. tries' \in 0 .. MAX_TRIES - 1
      BY <1>0, <1>2 DEF LastTry
    <2>3. TypeOK' /\ Sequences_'
      <3>1. Sequences_'
        BY <1>0, <1>2 DEF IInv, Sequences_
      <3>2. TypeOK'
        BY <1>0, <1>a, <1>2, <2>1, <2>2 DEF IInv, TypeOK
      <3> QED
        BY <3>1, <3>2
    <2>4. SlicesInOrder' /\ Missing'
      BY <1>0 DEF IInv, SlicesInOrder, Missing
    <2>5. Connected' /\ Fresh' /\ Heading' /\ Within' /\ Filled' /\ Closed'
      BY <1>0, <1>2 DEF Connected, Fresh, Heading, Within, Filled, Closed
    <2> QED
      BY <2>3, <2>4, <2>5 DEF IInv
  <1> QED
    BY <1>1, <1>2 DEF Reconnect

LEMMA RetryIInv ==
  ASSUME IInv, Retry
  PROVE  IInv'
  <1>0. /\ pc = "returned" /\ net # "up" /\ tries \in 0 .. MAX_TRIES - 1
        /\ UNCHANGED <<tls, ranges, http_data, data, response_buf, diff, extend_count, rc,
                       size_fetched, received, reconnected>>
    BY DEF IInv, TypeOK, Closed, Retry
  <1>1. CASE LastTry /\ GiveUp
    <2>1. net' = "none" /\ stream' = <<>> /\ pc' = "done" /\ tries' = 0
      BY <1>1 DEF GiveUp, http_client_close
    <2>2. Sequences_'
      BY <1>0, <2>1 DEF IInv, Sequences_
    <2>3. TypeOK'
      <3>1. /\ tries' \in 0 .. MAX_TRIES - 1 /\ net' \in {"none", "up", "bad"}
            /\ UNCHANGED <<is_more, retrieve_len, response_content_len>> /\ Len(stream') = 0
        BY <1>0, <2>1
      <3> QED
        BY <1>0, <2>1, <3>1 DEF IInv, TypeOK
    <2> QED
      BY <1>0, <2>1, <2>2, <2>3, Aside
  <1>2. CASE ~LastTry /\ pc' = "fetch" /\ tries' = tries + 1 /\ UNCHANGED <<net, stream>>
    <2>1. /\ tries' \in 0 .. MAX_TRIES - 1
          /\ UNCHANGED <<is_more, retrieve_len, response_content_len>>
      BY <1>0, <1>2 DEF LastTry
    <2>2. TypeOK' /\ Sequences_'
      <3>1. Sequences_'
        BY <1>0, <1>2 DEF IInv, Sequences_
      <3>2. TypeOK'
        BY <1>0, <1>2, <2>1 DEF IInv, TypeOK
      <3> QED
        BY <3>1, <3>2
    <2> QED
      BY <1>0, <1>2, <2>2, Aside
  <1> QED
    BY <1>1, <1>2 DEF Retry

(* A slice goes to the file. *)
LEMMA FetchYieldIInv ==
  ASSUME IInv, IOT_OTA_FetchYield
  PROVE  IInv'
  <1>0. /\ pc = "returned" /\ rc = SUCCESS /\ tries' = 0 /\ net = "up" /\ size_fetched < Size
        /\ UNCHANGED <<tls, ranges, is_more, retrieve_len, response_content_len, data,
                       response_buf, diff, extend_count, rc, reconnected>>
    BY DEF IInv, Missing, Filled, IOT_OTA_FetchYield
  <1> DEFINE k == Len(response_buf)
  <1>1. /\ k = Fetched /\ k \in Nat
        /\ Ordered => \A i \in 1..k : response_buf[i].value = size_fetched + i
        /\ IF is_more THEN k = BufLen - 1 ELSE retrieve_len = 0
    BY SMTT(30), <1>0 DEF IInv, Filled, Sequences_
  <1>2. /\ retrieve_len <= Len(stream)
        /\ \A i \in 1..retrieve_len : stream[i].kind = "body"
        /\ Ordered => \A i \in 1..retrieve_len : stream[i].value = size_fetched + k + i
        /\ ranges => Len(stream) = retrieve_len /\ k + retrieve_len <= RangeLen + 1
        /\ ~ranges => \/ size_fetched + k + retrieve_len >= Size
                      \/ retrieve_len = 0 /\ k = 0
    <2>1. Ahead = stream /\ Got = k /\ Good
      BY <1>0
    <2> HIDE DEF Ahead, Got, More, Ordered, Good
    <2> QED
      BY <2>1 DEF IInv, Within
  <1>3. /\ response_buf \in Seq(Pieces) /\ stream \in Seq(Pieces) /\ received \in Seq(Int)
        /\ size_fetched = Len(received) /\ retrieve_len \in 0..Size /\ size_fetched \in Nat
        /\ is_more \in BOOLEAN /\ Len(stream) \in Nat
    BY DEF IInv, TypeOK, Sequences_
  <1>4. CASE ~(Fetched > 0)
    <2>1. pc' = "done" /\ net' = "none" /\ stream' = <<>> /\ UNCHANGED <<size_fetched, received>>
      BY <1>4 DEF IOT_OTA_FetchYield, http_client_close
    <2>2. TypeOK' /\ Sequences_'
      BY <1>0, <2>1 DEF IInv, TypeOK, Sequences_
    <2> QED
      BY <1>0, <2>1, <2>2, Aside
  <1>5. CASE Fetched > 0
    <2> DEFINE slice == [i \in 1..Fetched |-> response_buf[i].value]
    <2>1. /\ size_fetched' = size_fetched + Fetched
          /\ received' = received \o slice
          /\ IF size_fetched' >= Size
             THEN pc' = "done" /\ net' = "none" /\ stream' = <<>>
             ELSE pc' = "fetch" /\ UNCHANGED <<net, stream>>
      BY <1>5 DEF IOT_OTA_FetchYield, http_client_close
    <2>2. slice \in Seq(Int) /\ Len(slice) = k /\ \A i \in 1..k : slice[i] = response_buf[i].value
      <3>1. ASSUME NEW i \in 1..k
            PROVE  response_buf[i].value \in Int
        <4>1. response_buf[i] \in Pieces
          BY ONLY <1>3, <3>1 DEF k
        <4>2. Size \in Int
          BY Sizes
        <4> QED
          BY ONLY <4>1, <4>2 DEF Pieces
      <3> HIDE DEF k
      <3> QED
        BY <1>1, <3>1
    <2> HIDE DEF slice, k, Fetched
    <2>3. /\ received' \in Seq(Int) /\ Len(received') = Len(received) + k
          /\ \A i \in 1..(Len(received) + k) :
               received'[i] = IF i <= Len(received) THEN received[i] ELSE slice[i - Len(received)]
      BY ONLY <1>3, <2>1, <2>2, ConcatProperties
    <2>4. SlicesInOrder'
      <3>1. SUFFICES ASSUME Ordered
                     PROVE  received' = [i \in 1..Len(received') |-> i]
        BY <1>0, <2>1 DEF SlicesInOrder
      <3>2. received = [i \in 1..Len(received) |-> i]
        BY <3>1 DEF IInv, SlicesInOrder
      <3>3. ASSUME NEW i \in 1..(Len(received) + k)
            PROVE  received'[i] = i
        <4>1. CASE i <= Len(received)
          <5>1. i \in 1..Len(received)
            BY <1>1, <1>3, <4>1
          <5> QED
            BY <2>3, <3>2, <4>1, <5>1
        <4>2. CASE ~(i <= Len(received))
          <5>1. i - Len(received) \in 1..k /\ received'[i] = slice[i - Len(received)]
            BY <1>1, <1>3, <2>3, <4>2
          <5>2. response_buf[i - Len(received)].value = size_fetched + (i - Len(received))
            BY <1>1, <3>1, <5>1
          <5> QED
            BY <1>1, <1>3, <2>2, <5>1, <5>2
        <4> QED
          BY <4>1, <4>2
      <3> DEFINE all == [i \in 1..(Len(received) + k) |-> i]
      <3>4. Len(received) + k \in Nat
        BY <1>1, <1>3
      <3>5. /\ all \in Seq(Int) /\ Len(all) = Len(received) + k
            /\ \A i \in 1..(Len(received) + k) : all[i] = i
        BY <3>4
      <3> HIDE DEF all
      <3>6. received' = all
        <4>1. \A i \in 1..Len(received') : received'[i] = all[i]
          BY <2>3, <3>3, <3>5
        <4> QED
          BY ONLY <2>3, <3>5, <4>1, SeqEqual
      <3> QED
        BY <2>3, <3>6 DEF all
    <2>5. size_fetched' = Len(received')
      BY <1>1, <1>3, <2>1, <2>3
    <2>6. CASE size_fetched' >= Size
      <3>1. pc' = "done" /\ net' = "none" /\ stream' = <<>>
        BY <2>1, <2>6
      <3>2. Sequences_'
        BY <1>0, <2>3, <3>1 DEF IInv, Sequences_
      <3>3. TypeOK'
        BY <1>0, <2>5, <3>1 DEF IInv, TypeOK
      <3>4. Missing' /\ Connected' /\ Fresh' /\ Heading' /\ Within' /\ Filled' /\ Closed'
        BY <3>1 DEF Missing, Connected, Fresh, Heading, Within, Filled, Closed
      <3> QED
        BY <2>4, <3>2, <3>3, <3>4 DEF IInv
    <2>7. CASE ~(size_fetched' >= Size)
      <3>1. pc' = "fetch" /\ UNCHANGED <<net, stream>>
        BY <2>1, <2>7
      <3>2. Sequences_'
        BY <1>0, <2>3, <3>1 DEF IInv, Sequences_
      <3>3. TypeOK'
        BY <1>0, <2>5, <3>1 DEF IInv, TypeOK
      <3>4. size_fetched' = size_fetched + k /\ size_fetched' < Size /\ k > 0
        BY <1>1, <1>3, <1>5, <2>1, <2>7
      <3>5. is_more => ~ranges
        BY <1>1, <1>2, <1>3
      <3>6. ~is_more => ranges /\ retrieve_len = 0 /\ stream = <<>>
        BY <1>1, <1>2, <1>3, <3>4
      <3>7. Missing' /\ Connected' /\ Heading' /\ Filled' /\ Closed'
        BY <3>1, <3>4 DEF Missing, Connected, Heading, Filled, Closed
      <3>8. Fresh'
        BY <1>0, <3>1, <3>6 DEF Fresh
      <3>9. Within'
        <4>1. /\ Ahead' = stream /\ Got' = 0 /\ (Ordered' <=> Ordered) /\ (More' => is_more)
              /\ ~Good' /\ pc' = "fetch"
              /\ UNCHANGED <<ranges, retrieve_len>>
          BY <1>0, <3>1
        <4>2. ASSUME is_more
              PROVE  /\ size_fetched' + 0 + retrieve_len >= Size
                     /\ \A i \in 1..retrieve_len :
                          /\ stream[i].kind = "body"
                          /\ Ordered => stream[i].value = size_fetched' + 0 + i
          <5>1. \A i \in 1..retrieve_len : size_fetched' + 0 + i = size_fetched + k + i
            BY <1>1, <1>3, <3>4
          <5>2. size_fetched' + 0 + retrieve_len >= Size
            BY <1>1, <1>2, <1>3, <3>4, <3>5, <4>2
          <5> QED
            BY <1>2, <5>1, <5>2
        <4> HIDE DEF Ahead, Got, More, Ordered, Good
        <4> QED
          BY ONLY <1>2, <3>5, <4>1, <4>2 DEF Within
      <3> QED
        BY <2>4, <3>2, <3>3, <3>7, <3>8, <3>9 DEF IInv
    <2> QED
      BY <2>6, <2>7
  <1> QED
    BY <1>4, <1>5

----------------------------------------------------------------------------
LEMMA NextIInv ==
  ASSUME IInv, [Next]_vars
  PROVE  IInv'
  <1>1. CASE UNCHANGED vars
    <2>1. Responses' = Responses /\ (Has(data, "end")' <=> Has(data, "end"))
      BY <1>1 DEF vars, Responses, Response, Body, Piece, Has
    <2>2. TypeOK' /\ Sequences_' /\ SlicesInOrder'
      BY <1>1 DEF IInv, vars, TypeOK, Sequences_, SlicesInOrder
    <2> QED
      BY ZenonT(60), <1>1, <2>1, <2>2 DEF IInv, vars, Connected, Fresh, Heading, Within, Filled, Missing, Closed
  <1> QED
    BY <1>1, FetchIInv, RecvResponseIInv, HeaderLoopIInv, FillIInv, ReadBodyIInv,
       ReconnectIInv, RetryIInv, FetchYieldIInv DEF Next

LEMMA Invariance == Spec => []IInv
  BY InitIInv, NextIInv, PTL DEF Spec

(* The buffer of the caller is never overrun (_utils_fill_rx_buf), and what *)
(* has been fetched is counted byte for byte.                              *)
THEOREM TypeCorrect == Spec => []TypeOK
  <1>1. IInv => TypeOK
    BY DEF IInv
  <1> QED
    BY <1>1, Invariance, PTL

(* The slices of a download are the beginning of the file, each byte once  *)
(* and in order, whatever sizes the file, the range and the buffers have:  *)
(* when the server honours Range however often the client reconnects, and  *)
(* otherwise as long as it need not (ofc_fetch, http_client_recv_data).    *)
THEOREM DownloadsInOrder == Spec => []SlicesInOrder
  <1>1. IInv => SlicesInOrder
    BY DEF IInv
  <1> QED
    BY <1>1, Invariance, PTL

(* Between two requests the client never takes a body for a header nor a   *)
(* header for a body: nothing of an earlier response is left in the        *)
(* connection but what HTTP_RETRIEVE_MORE_DATA goes on with.               *)
THEOREM StaysInStep == Spec => []InStep
  <1>1. IInv => InStep
    <2> SUFFICES ASSUME IInv, pc \in {"fetch", "head"}, net = "up"
                 PROVE  IF pc = "fetch" /\ is_more
                        THEN /\ retrieve_len > 0 /\ Len(stream) >= retrieve_len
                             /\ \A i \in 1..retrieve_len : stream[i].kind = "body"
                        ELSE stream # <<>> => stream[1].kind = "status"
      BY DEF InStep
    <2>1. size_fetched < Size /\ size_fetched \in Nat /\ retrieve_len \in 0..Size /\ Len(stream) \in Nat
      BY DEF IInv, Missing, TypeOK, Sequences_
    <2>2. CASE pc = "fetch" /\ is_more
      <3>1. More /\ Ahead = stream /\ Got = 0
        BY <2>2
      <3>2. /\ retrieve_len <= Len(stream)
            /\ \A i \in 1..retrieve_len : stream[i].kind = "body"
            /\ size_fetched + 0 + retrieve_len >= Size
        <4> HIDE DEF More, Ahead, Got, Ordered
        <4> QED
          BY <3>1 DEF IInv, Within
      <3> QED
        BY <2>1, <2>2, <3>2
    <2>3. CASE pc = "fetch" /\ ~is_more
      BY <2>3 DEF IInv, Fresh
    <2>4. CASE pc = "head"
      <3>1. stream \in Responses
        BY <2>4 DEF IInv, Heading
      <3>2. WithLength(stream) \/ WithoutLength(stream)
        BY <2>1, <3>1, ResponseShape DEF IInv
      <3> QED
        BY <2>4, <3>2 DEF WithLength, WithoutLength, HeadOf
    <2> QED
      BY <2>2, <2>3, <2>4
  <1> QED
    BY <1>1, Invariance, PTL

=============================================================================
