--------------------------- MODULE Answers_proofs ---------------------------
(***************************************************************************)
(* Proofs about an answer as a whole: that the surfaces of the API ask and *)
(* answer alike, and that every post counts once in what comes back.       *)
(***************************************************************************)
EXTENDS Algorithms_proofs

-----------------------------------------------------------------------------
(* A request, by way of the surfaces.                                       *)

(* The numbers up to n are in their own order. *)
LEMMA CountedInOrder ==
    ASSUME NEW n \in Nat
    PROVE  Ascending(1..n) = [k \in 1..n |-> k]
<1> DEFINE S == 1..n
           below == {p \in S \X S : p[1] < p[2]}
           rank(x) == Cardinality({y \in S : <<y, x>> \in below})
<1>1. ASSUME NEW x \in S PROVE rank(x) = x - 1
  <2>1. {y \in S : <<y, x>> \in below} = 1..(x - 1)
    OBVIOUS
  <2>2. Cardinality(1..(x - 1)) = x - 1
    <3>1. 1 \in Int /\ x - 1 \in Int /\ x - 1 - 1 + 1 = x - 1
      OBVIOUS
    <3>2. Cardinality(1..(x - 1)) = IF 1 > x - 1 THEN 0 ELSE x - 1 - 1 + 1
      BY <3>1, FS_Interval
    <3> QED
      BY <3>1, <3>2
  <2> HIDE DEF below
  <2> QED
    BY <2>1, <2>2
<1>2. Cardinality(S) = n
  <2>1. 1 \in Int /\ n \in Int /\ n - 1 + 1 = n
    OBVIOUS
  <2>2. Cardinality(1..n) = IF 1 > n THEN 0 ELSE n - 1 + 1
    BY <2>1, FS_Interval
  <2> QED
    BY <2>1, <2>2
<1> DEFINE pick(k) == CHOOSE x \in S : rank(x) = k - 1
<1>3. Ascending(S) = [k \in 1..n |-> pick(k)]
  BY <1>2, Zenon DEF Ascending, InOrder
<1>4. ASSUME NEW k \in 1..n PROVE pick(k) = k
  <2> HIDE DEF rank
  <2>1. \E x \in S : rank(x) = k - 1
    BY <1>1
  <2>2. pick(k) \in S /\ rank(pick(k)) = k - 1
    BY <2>1, Zenon
  <2> HIDE DEF pick
  <2>3. pick(k) - 1 = k - 1
    BY <1>1, <2>2
  <2> QED
    BY <2>2, <2>3
<1> HIDE DEF pick
<1> QED
  BY <1>3, <1>4

(* Who leaves none out has the sequence. *)
LEMMA NoneLeftOut ==
    ASSUME NEW S, NEW s \in Seq(S)
    PROVE  AtPlaces(s, DOMAIN s) = s
<1>1. Len(s) \in Nat /\ DOMAIN s = 1..Len(s) /\ s = [k \in 1..Len(s) |-> s[k]]
  OBVIOUS
<1> DEFINE n == Len(s)
           order == Ascending(1..n)
<1>2. order = [k \in 1..n |-> k]
  BY <1>1, CountedInOrder
<1>3. AtPlaces(s, DOMAIN s) = [k \in DOMAIN order |-> s[order[k]]]
  BY <1>1 DEF AtPlaces
<1> HIDE DEF order, n
<1> QED
  BY <1>1, <1>2, <1>3 DEF n

(* A function on the first numbers is a sequence. *)
LEMMA ListIs ==
    ASSUME NEW S, NEW k \in Nat, NEW s \in [1..k -> S]
    PROVE  s \in Seq(S) /\ Len(s) = k
  OBVIOUS

(* A sequence is the function of its elements. *)
LEMMA ListOf ==
    ASSUME NEW S, NEW s \in Seq(S)
    PROVE  Len(s) \in Nat /\ DOMAIN s = 1..Len(s) /\ s = [i \in 1..Len(s) |-> s[i]]
  OBVIOUS

(* An element of a sequence. *)
LEMMA ElementIs ==
    ASSUME NEW S, NEW s \in Seq(S), NEW i \in 1..Len(s)
    PROVE  s[i] \in S
  OBVIOUS

(* Names of one part each, joined, are the parts. *)
LEMMA JoinedSingles ==
    ASSUME NEW S, NEW ss \in Seq(Seq(S)), \A i \in DOMAIN ss : Len(ss[i]) = 1
    PROVE  FlattenSeq(ss) = [i \in DOMAIN ss |-> ss[i][1]]
<1> DEFINE n == Len(ss)
<1>1. n \in Nat /\ DOMAIN ss = 1..n /\ \A i \in 1..n : ss[i] \in Seq(S) /\ Len(ss[i]) = 1
  <2> DEFINE Part == Seq(S)
  <2>1. ss \in Seq(Part)
    OBVIOUS
  <2> HIDE DEF Part
  <2>2. n \in Nat /\ DOMAIN ss = 1..n /\ \A i \in 1..n : ss[i] \in Part /\ Len(ss[i]) = 1
    BY <2>1
  <2> QED
    BY <2>2 DEF Part
<1>2. CASE n = 0
  <2>1. FlattenSeq(ss) = ss
    BY <1>2 DEF FlattenSeq
  <2>2. ss = <<>>
    BY <1>2
  <2> QED
    BY <2>1, <2>2
<1>3. CASE n # 0
  <2>1. PICK g : IsJoining(g, ss) /\ FlattenSeq(ss) = g[n]
    BY <1>3, FlattenJoins
  <2>2. g[1] = ss[1] /\ \A i \in 2..n : g[i] = g[i - 1] \o ss[i]
    BY <2>1 DEF IsJoining
  <2> DEFINE first(k) == [i \in 1..k |-> ss[i][1]]
             T == {k \in Nat : k \in 1..n => g[k] = first(k)}
  <2>3. 0 \in T
    OBVIOUS
  <2>4. ASSUME NEW k \in Nat, k \in T PROVE k + 1 \in T
    <3> SUFFICES ASSUME k + 1 \in 1..n PROVE g[k + 1] = first(k + 1)
      OBVIOUS
    <3>1. ss[k + 1] \in Seq(S) /\ Len(ss[k + 1]) = 1
      BY <1>1
    <3>2. CASE k = 0
      <4>1. ss[1] = [i \in 1..1 |-> ss[i][1]]
        <5>1. ss[1] = [i \in 1..1 |-> ss[1][i]]
          BY <3>1, <3>2
        <5>2. \A i \in 1..1 : ss[i][1] = ss[1][i]
          OBVIOUS
        <5> QED
          BY <5>1, <5>2
      <4> QED
        BY <2>2, <3>2, <4>1
    <3>3. CASE k # 0
      <4>1. g[k] = first(k) /\ k \in 1..n
        BY <2>4, <3>3
      <4>2. \A i \in 1..k : ss[i][1] \in S
        BY <1>1, <4>1
      <4>3. g[k] \in Seq(S) /\ Len(g[k]) = k /\ \A i \in 1..k : g[k][i] = ss[i][1]
        <5> DEFINE s == first(k)
        <5>1. s \in [1..k -> S] /\ \A i \in 1..k : s[i] = ss[i][1]
          BY <4>2
        <5> HIDE DEF s
        <5>2. s \in Seq(S) /\ Len(s) = k
          BY <5>1, ListIs
        <5> QED
          BY <4>1, <5>1, <5>2 DEF s
      <4>4. g[k + 1] = g[k] \o ss[k + 1]
        <5>1. k + 1 \in 2..n /\ (k + 1) - 1 = k
          BY <3>3
        <5> QED
          BY <2>2, <5>1
      <4>5. /\ g[k + 1] \in Seq(S) /\ Len(g[k + 1]) = k + 1
            /\ \A i \in 1..(k + 1) : g[k + 1][i] = IF i <= k THEN g[k][i] ELSE ss[k + 1][i - k]
        <5> DEFINE s == g[k]
                   t == ss[k + 1]
                   u == s \o t
        <5>1. s \in Seq(S) /\ t \in Seq(S) /\ Len(s) = k /\ Len(t) = 1 /\ g[k + 1] = u
          BY <3>1, <4>3, <4>4
        <5> HIDE DEF s, t
        <5>2. /\ u \in Seq(S) /\ Len(u) = Len(s) + Len(t)
              /\ \A i \in 1..(Len(s) + Len(t)) : u[i] = IF i <= Len(s) THEN s[i] ELSE t[i - Len(s)]
          BY <5>1, ConcatProperties
        <5> HIDE DEF u
        <5>3. u \in Seq(S) /\ Len(u) = k + 1
              /\ \A i \in 1..(k + 1) : u[i] = IF i <= k THEN s[i] ELSE t[i - k]
          BY <5>1, <5>2
        <5> QED
          BY <5>1, <5>3 DEF s, t
      <4>6. \A i \in 1..(k + 1) : g[k + 1][i] = ss[i][1]
        BY <4>3, <4>5
      <4>7. g[k + 1] = [i \in 1..(k + 1) |-> g[k + 1][i]]
        BY <4>5
      <4> QED
        BY <4>6, <4>7
    <3> QED
      BY <3>2, <3>3
  <2> HIDE DEF T
  <2>5. Nat \subseteq T
    BY <2>3, <2>4, CountingUp
  <2>6. g[n] = first(n)
    BY <1>1, <1>3, <2>5 DEF T
  <2> QED
    BY <1>1, <2>1, <2>6
<1> QED
  BY <1>2, <1>3

(* A list of plain names survives a comma-separated list. *)
LEMMA PlainNamesStay ==
    ASSUME NEW S, NEW names \in Seq(Seq(S)), Plain(names)
    PROVE  splitAndTrim(FlattenSeq(names)) = names
<1> DEFINE n == Len(names)
           joined == FlattenSeq(names)
           full == {i \in DOMAIN joined : joined[i] # ""}
           parts == AtPlaces(joined, full)
<1>1. /\ n \in Nat /\ DOMAIN names = 1..n /\ names = [i \in 1..n |-> names[i]]
      /\ \A i \in 1..n : names[i] \in Seq(S) /\ Len(names[i]) = 1 /\ names[i][1] # ""
  <2> DEFINE Part == Seq(S)
  <2>1. names \in Seq(Part)
    OBVIOUS
  <2> HIDE DEF Part
  <2>2. /\ n \in Nat /\ DOMAIN names = 1..n /\ names = [i \in 1..n |-> names[i]]
        /\ \A i \in 1..n : names[i] \in Part
    BY <2>1
  <2> QED
    BY <2>2 DEF Part, Plain
<1>2. joined = [i \in 1..n |-> names[i][1]]
  BY <1>1, JoinedSingles
<1>3. splitAndTrim(joined) = [i \in DOMAIN parts |-> <<parts[i]>>]
  BY Zenon DEF splitAndTrim, Those
<1> HIDE DEF joined
<1>4. full = DOMAIN joined /\ joined \in Seq(S)
  <2>1. ASSUME NEW i \in 1..n PROVE names[i][1] \in S
    <3> DEFINE name == names[i]
    <3>1. name \in Seq(S) /\ Len(name) = 1
      BY <1>1, Zenon
    <3> HIDE DEF name
    <3>2. 1 \in 1..Len(name)
      BY <3>1
    <3>3. name[1] \in S
      BY <3>1, <3>2, ElementIs
    <3> QED
      BY <3>3 DEF name
  <2>2. joined \in [1..n -> S] /\ \A i \in 1..n : joined[i] # ""
    BY <1>1, <1>2, <2>1
  <2> HIDE DEF n
  <2>3. DOMAIN joined = 1..n /\ joined \in Seq(S)
    BY <1>1, <2>2, ListIs
  <2> QED
    BY <2>2, <2>3
<1>5. parts = joined
  BY <1>4, NoneLeftOut
<1> HIDE DEF parts
<1>6. ASSUME NEW i \in 1..n PROVE <<names[i][1]>> = names[i]
  <2> DEFINE name == names[i]
  <2>1. name \in Seq(S) /\ Len(name) = 1
    BY <1>1
  <2> HIDE DEF name
  <2>2. <<name[1]>> = name
    BY <2>1
  <2> QED
    BY <2>2 DEF name
<1>7. splitAndTrim(joined) = [i \in 1..n |-> names[i]]
  <2>1. splitAndTrim(joined) = [i \in 1..n |-> <<names[i][1]>>]
    BY <1>2, <1>3, <1>5
  <2> QED
    BY <1>6, <2>1
<1> HIDE DEF n
<1>8. splitAndTrim(joined) = names
  BY <1>1, <1>7
<1> QED
  BY <1>8 DEF joined

-----------------------------------------------------------------------------
(* A question, however it is put.                                           *)

(* What the middleware puts into the context comes out of it. *)
LEMMA KeysArrive ==
    ASSUME NEW values
    PROVE  CredsFromContext(WithCredentials(values)) = credsFrom(values)
<1> DEFINE keys == credsFrom(values)
<1>1. CASE keys = NoKeys
  <2>1. WithCredentials(values) = {}
    BY <1>1 DEF WithCredentials
  <2> QED
    BY <1>1, <2>1, Zenon DEF CredsFromContext
<1>2. CASE keys # NoKeys
  <2>1. WithCredentials(values) = {keys}
    BY <1>2 DEF WithCredentials
  <2> HIDE DEF keys
  <2>2. {keys} # {} /\ (CHOOSE c \in {keys} : TRUE) = keys
    OBVIOUS
  <2>3. CredsFromContext({keys}) = keys
    BY <2>2, Zenon DEF CredsFromContext
  <2> QED
    BY <2>1, <2>3 DEF keys
<1> QED
  BY <1>1, <1>2

(* A question as every surface puts it to the service. *)
Put(q) ==
    Asks(q.topic, q.platforms, q.limit, q.aspects, q.language, q.since, q.location, credsFrom(q.keys))

(* The service refuses what a surface refuses for want of a topic. *)
LEMMA TopicIsMissed ==
    ASSUME NEW q
    PROVE  /\ Taken(runTopic(Put(q))) = Taken(Put(q))
           /\ "error" \notin DOMAIN Put(q)
<1>1. Put(q).Topic = q.topic /\ "error" \notin DOMAIN Put(q)
  BY DEF Put, Asks
<1>2. CASE q.topic = ""
  <2>1. runTopic(Put(q)) = Refused("ErrTopicRequired")
    BY <1>1, <1>2 DEF runTopic
  <2>2. "error" \in DOMAIN Refused("ErrTopicRequired")
    BY DEF Refused
  <2>3. Taken(Refused("ErrTopicRequired")) = Refused("ErrTopicRequired")
    BY <2>2, Zenon DEF Taken
  <2>4. Put(q).Topic \in {"", " "}
    BY <1>1, <1>2
  <2>5. Taken(Put(q)) = Refused("ErrTopicRequired")
    BY <1>1, <2>4, Zenon DEF Taken
  <2> QED
    BY <1>1, <2>1, <2>3, <2>5
<1>3. CASE q.topic # ""
  <2>1. runTopic(Put(q)) = Put(q)
    BY <1>1, <1>3 DEF runTopic
  <2> QED
    BY <1>1, <2>1
<1> QED
  BY <1>2, <1>3

(* An ordinary question is the same one in all four ways. *)
LEMMA SameQuestion ==
    ASSUME NEW Name, NEW q, q.platforms \in Seq(Seq(Name)), q.aspects \in Seq(Seq(Name)),
           Ordinary(q), NEW media, NEW way \in Ways,
           way = "post" => canonicalMedia(media) # mimeYAML
    PROVE  Taken(AskBy(way, q, media)) = Taken(Put(q))
<1>1. /\ Plain(q.platforms) /\ Plain(q.aspects) /\ q.stray = FALSE
      /\ GARBLED \notin Numbers(q) /\ q.limit # GARBLED /\ q.since # GARBLED
  BY DEF Ordinary, Numbers
<1>2. CredsFromContext(WithCredentials(q.keys)) = credsFrom(q.keys)
  BY KeysArrive
<1>3. CASE way = "post"
  <2>1. AskBy(way, q, media) = Post(q, media)
    BY <1>3 DEF AskBy
  <2>2. Post(q, media) = decodeRequest(media, GARBLED \in Numbers(q), q.stray, runTopic(Put(q)))
    BY <1>2, Zenon DEF Post, Put
  <2>3. Post(q, media) = runTopic(Put(q))
    <3> DEFINE coding == canonicalMedia(media)
               body == runTopic(Put(q))
    <3>1. coding # mimeYAML
      BY <1>3
    <3> HIDE DEF coding, body
    <3>2. ~(coding # mimeYAML
              /\ (GARBLED \in Numbers(q) \/ (q.stray /\ coding # mimeXML)))
      BY <1>1
    <3>3. decodeRequest(media, GARBLED \in Numbers(q), q.stray, body) = body
      BY <3>1, <3>2, Zenon DEF decodeRequest, coding
    <3> QED
      BY <2>2, <3>3 DEF body
  <2> QED
    BY <2>1, <2>3, TopicIsMissed
<1>4. CASE way = "get"
  <2>1. AskBy(way, q, media) = Get(q)
    BY <1>4 DEF AskBy
  <2>2. /\ splitAndTrim(FlattenSeq(q.platforms)) = q.platforms
        /\ splitAndTrim(FlattenSeq(q.aspects)) = q.aspects
    BY <1>1, PlainNamesStay
  <2>3. Get(q) = runTopic(Put(q))
    BY <1>1, <1>2, <2>2, Zenon DEF Get, Put
  <2> QED
    BY <2>1, <2>3, TopicIsMissed
<1>5. CASE way = "graphql"
  <2>1. AskBy(way, q, media) = Query(q)
    BY <1>5 DEF AskBy
  <2>2. Query(q) = Put(q)
    BY <1>1, <1>2, Zenon DEF Query, Put
  <2> QED
    BY <2>1, <2>2
<1>6. CASE way = "grpc"
  <2>1. AskBy(way, q, media) = Rpc(q)
    BY <1>6 DEF AskBy
  <2>2. Rpc(q) = Put(q)
    BY <1>1, Zenon DEF Rpc, Put
  <2> QED
    BY <2>1, <2>2
<1> QED
  BY <1>3, <1>4, <1>5, <1>6 DEF Ways

(* Metadata that is taken away twice is taken away. *)
LEMMA TakenAwayOnce ==
    ASSUME NEW Text, NEW Metadata, NEW d \in [text : Text, metadata : Metadata], NEW none
    PROVE  [[d EXCEPT !.metadata = none] EXCEPT !.metadata = none] = [d EXCEPT !.metadata = none]
  OBVIOUS

(* Inline documents are the same ones in every way, their metadata aside. *)
LEMMA SameDocuments ==
    ASSUME NEW Text, NEW Metadata,
           NEW q, q.documents \in Seq([text : Text, metadata : Metadata]),
           q.documents # <<>>, q.stray = FALSE, NEW media, canonicalMedia(media) # mimeYAML,
           NEW way \in {"post", "graphql", "grpc"}
    PROVE  WithoutMetadata(TextBy(way, q, media).Documents) = WithoutMetadata(q.documents)
<1> DEFINE docs == q.documents
           bare == WithoutMetadata(docs)
           Doc == [text : Text, metadata : Metadata]
<1>1. WithoutMetadata(bare) = bare
  <2>1. \A i \in DOMAIN docs : docs[i] \in Doc
    <3> HIDE DEF Doc
    <3>1. docs \in Seq(Doc)
      BY DEF Doc
    <3> QED
      BY <3>1, ListOf, ElementIs
  <2>2. ASSUME NEW i \in DOMAIN docs
        PROVE  [[docs[i] EXCEPT !.metadata = ""] EXCEPT !.metadata = ""] = [docs[i] EXCEPT !.metadata = ""]
    BY <2>1, TakenAwayOnce, Zenon
  <2>3. DOMAIN bare = DOMAIN docs /\ \A i \in DOMAIN docs : bare[i] = [docs[i] EXCEPT !.metadata = ""]
    BY Zenon DEF WithoutMetadata
  <2>4. \A i \in DOMAIN docs : [bare[i] EXCEPT !.metadata = ""] = [docs[i] EXCEPT !.metadata = ""]
    BY <2>2, <2>3, Zenon
  <2>5. [i \in DOMAIN bare |-> [bare[i] EXCEPT !.metadata = ""]]
          = [i \in DOMAIN docs |-> [docs[i] EXCEPT !.metadata = ""]]
    BY <2>3, <2>4, Zenon
  <2> QED
    BY <2>5, Zenon DEF WithoutMetadata
<1>2. ASSUME NEW them, them \in {docs, bare}, NEW r, r = [Documents |-> them]
      PROVE  WithoutMetadata(r.Documents) = bare
  <2>1. r.Documents = them
    BY <1>2
  <2> QED
    BY <1>1, <1>2, <2>1, Zenon
<1> HIDE DEF bare
<1>3. CASE way = "grpc"
  <2>1. TextBy(way, q, media) = [Documents |-> docs]
    BY <1>3 DEF TextBy
  <2> QED
    BY <1>2, <2>1, Zenon DEF bare
<1>4. CASE way = "graphql"
  <2>1. TextBy(way, q, media) = [Documents |-> bare]
    BY <1>4 DEF TextBy, bare
  <2> QED
    BY <1>2, <2>1, Zenon DEF bare
<1>5. CASE way = "post"
  <2> DEFINE coding == canonicalMedia(media)
             sent == IF coding = mimeXML THEN bare ELSE docs
             body == [Documents |-> sent]
  <2>1. TextBy(way, q, media) = decodeRequest(media, FALSE, q.stray,
                                     IF docs = <<>> THEN Refused("ErrInvalidRequest") ELSE body)
    BY <1>5 DEF TextBy, bare
  <2>2. (IF docs = <<>> THEN Refused("ErrInvalidRequest") ELSE body) = body
    OBVIOUS
  <2>3. TextBy(way, q, media) = decodeRequest(media, FALSE, q.stray, body)
    BY <2>1, <2>2, Zenon
  <2>4. sent \in {docs, bare}
    OBVIOUS
  <2> HIDE DEF sent
  <2>5. coding # mimeYAML
    OBVIOUS
  <2> HIDE DEF coding
  <2>6. ~(coding # mimeYAML /\ (FALSE \/ (q.stray /\ coding # mimeXML)))
    OBVIOUS
  <2>7. decodeRequest(media, FALSE, q.stray, body) = body
    <3> HIDE DEF body
    <3> QED
      BY <2>5, <2>6, Zenon DEF decodeRequest, coding
  <2>8. TextBy(way, q, media) = [Documents |-> sent]
    BY <2>3, <2>7, Zenon
  <2> DEFINE r == TextBy(way, q, media)
  <2>9. r = [Documents |-> sent]
    BY <2>8
  <2> HIDE DEF r, docs
  <2>10. WithoutMetadata(r.Documents) = bare
    BY <1>2, <2>4, <2>9
  <2> QED
    BY <2>10, Zenon DEF bare, r, docs
<1> QED
  BY <1>3, <1>4, <1>5

-----------------------------------------------------------------------------
(* An error, by its sentinel or its status.                                 *)

(* The sentinels an error may wrap. *)
Sentinels == {"ErrTopicRequired", "ErrInvalidRequest", "errYAMLRequestBody", "ErrNoPlatforms",
              "ErrAllConnectorsFailed", "context.DeadlineExceeded"}

(* What the surfaces tell errors apart by. *)
Kinds == {"BadRequest", "Unsupported", "Upstream", "Timeout", "NoCapacity", "Internal"}

(* The tables of the sentinels and of the statuses, row by row. *)
LEMMA Tables ==
    /\ DOMAIN sentinels = 1..6 /\ DOMAIN statuses = 1..4
    /\ sentinels[1][1] = "ErrTopicRequired" /\ sentinels[1][2] = "BadRequest"
    /\ sentinels[2][1] = "ErrInvalidRequest" /\ sentinels[2][2] = "BadRequest"
    /\ sentinels[3][1] = "errYAMLRequestBody" /\ sentinels[3][2] = "Unsupported"
    /\ sentinels[4][1] = "ErrNoPlatforms" /\ sentinels[4][2] = "NoCapacity"
    /\ sentinels[5][1] = "ErrAllConnectorsFailed" /\ sentinels[5][2] = "Upstream"
    /\ sentinels[6][1] = "context.DeadlineExceeded" /\ sentinels[6][2] = "Timeout"
    /\ statuses[1][1] = "DeadlineExceeded" /\ statuses[1][2] = "Timeout"
    /\ statuses[2][1] = "Unavailable" /\ statuses[2][2] = "Upstream"
    /\ statuses[3][1] = "ResourceExhausted" /\ statuses[3][2] = "Internal"
    /\ statuses[4][1] = "InvalidArgument" /\ statuses[4][2] = "BadRequest"
  BY DEF sentinels, statuses

(* The first sentinel of the table that an error wraps decides, then the   *)
(* status.                                                                  *)
LEMMA FirstSentinelDecides ==
    ASSUME NEW err, NEW i \in 1..6, sentinels[i][1] \in err.is,
           \A j \in 1..6 : sentinels[j][1] \in err.is => i <= j
    PROVE  classify(err) = sentinels[i][2]
<1> DEFINE hits == {j \in DOMAIN sentinels : sentinels[j][1] \in err.is}
<1>1. hits \subseteq Int /\ i \in hits /\ \A j \in hits : i <= j
  BY Tables
<1>2. Min(hits) = i
  <2> HIDE DEF hits
  <2> QED
    BY <1>1, LeastIs
<1>3. hits # {}
  BY <1>1
<1> QED
  BY <1>2, <1>3, Zenon DEF classify

(* An error that wraps no sentinel is told by the first row of its status. *)
LEMMA StatusDecides ==
    ASSUME NEW err, err.is = {}, NEW i \in 1..4, statuses[i][1] = err.code,
           \A j \in 1..4 : statuses[j][1] = err.code => i <= j
    PROVE  classify(err) = statuses[i][2]
<1> DEFINE hits == {j \in DOMAIN sentinels : sentinels[j][1] \in err.is}
           statusHits == {j \in DOMAIN statuses : statuses[j][1] = err.code}
<1>1. hits = {}
  OBVIOUS
<1>2. statusHits \subseteq Int /\ i \in statusHits /\ \A j \in statusHits : i <= j
  BY Tables
<1>3. Min(statusHits) = i
  <2> HIDE DEF statusHits
  <2> QED
    BY <1>2, LeastIs
<1>4. statusHits # {}
  BY <1>2
<1> QED
  BY <1>1, <1>3, <1>4, Zenon DEF classify

(* Every error is of some kind. *)
LEMMA KindOfError ==
    ASSUME NEW err
    PROVE  classify(err) \in Kinds
<1> DEFINE hits == {j \in DOMAIN sentinels : sentinels[j][1] \in err.is}
           statusHits == {j \in DOMAIN statuses : statuses[j][1] = err.code}
<1>1. hits \subseteq Nat /\ statusHits \subseteq Nat
  BY Tables
<1>2. hits # {} => sentinels[Min(hits)][2] \in Kinds
  <2> SUFFICES ASSUME hits # {} PROVE sentinels[Min(hits)][2] \in Kinds
    OBVIOUS
  <2>1. Min(hits) \in hits
    BY <1>1, LeastIn
  <2>2. \A j \in hits : sentinels[j][2] \in Kinds
    BY Tables DEF Kinds
  <2> QED
    BY <2>1, <2>2
<1>3. statusHits # {} => statuses[Min(statusHits)][2] \in Kinds
  <2> SUFFICES ASSUME statusHits # {} PROVE statuses[Min(statusHits)][2] \in Kinds
    OBVIOUS
  <2>1. Min(statusHits) \in statusHits
    BY <1>1, LeastIn
  <2>2. \A j \in statusHits : statuses[j][2] \in Kinds
    BY Tables DEF Kinds
  <2> QED
    BY <2>1, <2>2
<1>4. "Internal" \in Kinds
  BY DEF Kinds
<1> QED
  BY <1>2, <1>3, <1>4, Zenon DEF classify

(* REST and gRPC blame the same. *)
LEMMA BlameIsSame ==
    ASSUME NEW err
    PROVE  SameBlame(httpStatusFor(err), grpcCodeFor(err))
<1> DEFINE kind == classify(err)
<1>1. kind \in Kinds
  BY KindOfError
<1>2. /\ httpStatusFor(err) = [BadRequest |-> 400, Unsupported |-> 415, Upstream |-> 502,
                               Timeout |-> 504, NoCapacity |-> 503, Internal |-> 500][kind]
      /\ grpcCodeFor(err) = [BadRequest |-> "InvalidArgument", Unsupported |-> "InvalidArgument",
                             Upstream |-> "Unavailable", Timeout |-> "DeadlineExceeded",
                             NoCapacity |-> "FailedPrecondition", Internal |-> "Internal"][kind]
  BY DEF httpStatusFor, grpcCodeFor
<1> HIDE DEF kind
<1> QED
  BY <1>1, <1>2 DEF Kinds, SameBlame

(* The status of an error of each kind. *)
LEMMA StatusOfKind ==
    ASSUME NEW err
    PROVE  /\ classify(err) = "BadRequest" => httpStatusFor(err) = 400
           /\ classify(err) = "Unsupported" => httpStatusFor(err) = 415
           /\ classify(err) = "Upstream" => httpStatusFor(err) = 502
           /\ classify(err) = "Timeout" => httpStatusFor(err) = 504
           /\ classify(err) = "NoCapacity" => httpStatusFor(err) = 503
           /\ classify(err) = "Internal" => httpStatusFor(err) = 500
<1> DEFINE kind == classify(err)
<1>1. httpStatusFor(err) = [BadRequest |-> 400, Unsupported |-> 415, Upstream |-> 502,
                            Timeout |-> 504, NoCapacity |-> 503, Internal |-> 500][kind]
  BY DEF httpStatusFor
<1> HIDE DEF kind
<1>2. /\ kind = "BadRequest" => httpStatusFor(err) = 400
      /\ kind = "Unsupported" => httpStatusFor(err) = 415
      /\ kind = "Upstream" => httpStatusFor(err) = 502
      /\ kind = "Timeout" => httpStatusFor(err) = 504
      /\ kind = "NoCapacity" => httpStatusFor(err) = 503
      /\ kind = "Internal" => httpStatusFor(err) = 500
  BY <1>1
<1> QED
  BY <1>2 DEF kind

(* The documented table is what the code does. *)
LEMMA TableIsKept ==
    ASSUME NEW err
    PROVE  httpStatusFor(err) = Documented(err)
<1> DEFINE is == err.is
           a == is \cap {"ErrTopicRequired", "ErrInvalidRequest"} # {}
           b == is = {"errYAMLRequestBody"}
           c == is = {"ErrNoPlatforms"}
           d == is = {"ErrAllConnectorsFailed"}
           e == is = {"ErrAllConnectorsFailed", "context.DeadlineExceeded"}
           f == is = {"context.DeadlineExceeded"}
           g == is = {} /\ err.code = "Unavailable"
           h == is = {} /\ err.code = "DeadlineExceeded"
           k == is = {} /\ err.code = "ResourceExhausted"
<1>1. a => httpStatusFor(err) = 400
  <2> SUFFICES ASSUME a PROVE classify(err) = "BadRequest"
    BY StatusOfKind
  <2>1. CASE "ErrTopicRequired" \in is
    BY <2>1, FirstSentinelDecides, Tables
  <2>2. CASE "ErrTopicRequired" \notin is
    <3>1. "ErrInvalidRequest" \in is
      BY <2>2
    <3>2. \A j \in 1..6 : sentinels[j][1] \in err.is => 2 <= j
      BY <2>2, Tables
    <3> QED
      BY <3>1, <3>2, FirstSentinelDecides, Tables
  <2> QED
    BY <2>1, <2>2
<1>2. b => httpStatusFor(err) = 415
  <2> SUFFICES ASSUME b PROVE classify(err) = "Unsupported"
    BY StatusOfKind
  <2>1. sentinels[3][1] \in err.is /\ \A j \in 1..6 : sentinels[j][1] \in err.is => 3 <= j
    BY Tables
  <2> QED
    BY <2>1, FirstSentinelDecides, Tables
<1>3. c => httpStatusFor(err) = 503
  <2> SUFFICES ASSUME c PROVE classify(err) = "NoCapacity"
    BY StatusOfKind
  <2>1. sentinels[4][1] \in err.is /\ \A j \in 1..6 : sentinels[j][1] \in err.is => 4 <= j
    BY Tables
  <2> QED
    BY <2>1, FirstSentinelDecides, Tables
<1>4. d \/ e => httpStatusFor(err) = 502
  <2> SUFFICES ASSUME d \/ e PROVE classify(err) = "Upstream"
    BY StatusOfKind
  <2>1. sentinels[5][1] \in err.is /\ \A j \in 1..6 : sentinels[j][1] \in err.is => 5 <= j
    BY Tables
  <2> QED
    BY <2>1, FirstSentinelDecides, Tables
<1>5. f => httpStatusFor(err) = 504
  <2> SUFFICES ASSUME f PROVE classify(err) = "Timeout"
    BY StatusOfKind
  <2>1. sentinels[6][1] \in err.is /\ \A j \in 1..6 : sentinels[j][1] \in err.is => 6 <= j
    BY Tables
  <2> QED
    BY <2>1, FirstSentinelDecides, Tables
<1>6. g => httpStatusFor(err) = 502
  <2> SUFFICES ASSUME g PROVE classify(err) = "Upstream"
    BY StatusOfKind
  <2>1. statuses[2][1] = err.code /\ \A j \in 1..4 : statuses[j][1] = err.code => 2 <= j
    BY Tables
  <2> QED
    BY <2>1, StatusDecides, Tables
<1>7. h => httpStatusFor(err) = 504
  <2> SUFFICES ASSUME h PROVE classify(err) = "Timeout"
    BY StatusOfKind
  <2>1. statuses[1][1] = err.code /\ \A j \in 1..4 : statuses[j][1] = err.code => 1 <= j
    BY Tables
  <2> QED
    BY <2>1, StatusDecides, Tables
<1>8. k => httpStatusFor(err) = 500
  <2> SUFFICES ASSUME k PROVE classify(err) = "Internal"
    BY StatusOfKind
  <2>1. statuses[3][1] = err.code /\ \A j \in 1..4 : statuses[j][1] = err.code => 3 <= j
    BY Tables
  <2> QED
    BY <2>1, StatusDecides, Tables
<1>9. /\ a => ~b /\ ~c /\ ~d /\ ~e /\ ~f /\ ~g /\ ~h /\ ~k
      /\ b => ~c /\ ~d /\ ~e /\ ~f /\ ~g /\ ~h /\ ~k
      /\ c => ~d /\ ~e /\ ~f /\ ~g /\ ~h /\ ~k
      /\ d => ~e /\ ~f /\ ~g /\ ~h /\ ~k
      /\ e => ~f /\ ~g /\ ~h /\ ~k
      /\ f => ~g /\ ~h /\ ~k
      /\ g => ~h /\ ~k
      /\ h => ~k
  OBVIOUS
<1>10. Documented(err) =
         CASE a -> 400 [] b -> 415 [] c -> 503 [] d -> 502 [] e -> 502 [] f -> 504
           [] g -> 502 [] h -> 504 [] k -> 500 [] OTHER -> httpStatusFor(err)
  BY Zenon DEF Documented
<1> HIDE DEF a, b, c, d, e, f, g, h, k
<1> DEFINE told == httpStatusFor(err)
<1> HIDE DEF told
<1> QED
  BY <1>1, <1>2, <1>3, <1>4, <1>5, <1>6, <1>7, <1>8, <1>9, <1>10 DEF told

-----------------------------------------------------------------------------
(* A text, and the surfaces together.                                       *)

(* An error that wraps one sentinel and no status. *)
Wraps(sentinel) == [is |-> {sentinel}, code |-> "none"]

(* A body in YAML is refused for being in YAML. *)
RefusesYaml(q, media) ==
    httpStatusFor([is |-> {Post(q, media).error}, code |-> "none"]) = 415

(* It is, whatever the question. *)
LEMMA YamlIsRefused ==
    ASSUME NEW q, NEW media, canonicalMedia(media) = mimeYAML
    PROVE  RefusesYaml(q, media)
<1>1. Post(q, media) = Refused("errYAMLRequestBody")
  BY Zenon DEF Post, decodeRequest
<1>2. Post(q, media).error = "errYAMLRequestBody"
  BY <1>1 DEF Refused
<1> DEFINE sentinel == Post(q, media).error
           err == Wraps(sentinel)
<1>3. sentinel = "errYAMLRequestBody"
  BY <1>2
<1> HIDE DEF sentinel
<1>4. err.is = {"errYAMLRequestBody"}
  BY <1>3 DEF Wraps
<1> HIDE DEF err
<1>5. sentinels[3][1] \in err.is /\ \A j \in 1..6 : sentinels[j][1] \in err.is => 3 <= j
  BY <1>4, Tables
<1>6. classify(err) = "Unsupported"
  BY <1>5, FirstSentinelDecides, Tables
<1>7. httpStatusFor(err) = 415
  BY <1>6, StatusOfKind
<1> QED
  BY <1>7, Zenon DEF err, sentinel, Wraps, RefusesYaml

(* Every column of a row of the topic export holds what its header says.   *)
LEMMA TopicColumns == writeTopicCSV(<<Cells>>)[1] = topicCSVHeader
<1> DEFINE cols == <<"label", "confidence", "polarity", "p_negative", "p_neutral", "p_positive">>
           doc == <<"platform", "doc_id", "created_at">>
           front == doc \o cols
<1>1. scoreColumns(Cells.overall) = cols
  BY DEF scoreColumns, Cells
<1>2. /\ Cells.document.platform = "platform" /\ Cells.document.id = "doc_id"
      /\ Cells.document.created_at = "created_at" /\ Cells.document.text = "text"
  BY DEF Cells
<1>3. writeTopicCSV(<<Cells>>)[1]
        = <<Cells.document.platform, Cells.document.id, Cells.document.created_at>>
             \o scoreColumns(Cells.overall) \o <<Cells.document.text>>
  <2> DEFINE row(r) == <<r.document.platform, r.document.id, r.document.created_at>>
                         \o scoreColumns(r.overall) \o <<r.document.text>>
             one == <<Cells>>
  <2>1. one[1] = Cells /\ 1 \in DOMAIN one
    OBVIOUS
  <2> HIDE DEF one
  <2>2. writeTopicCSV(one) = [i \in DOMAIN one |-> row(one[i])]
    BY Zenon DEF writeTopicCSV
  <2>3. writeTopicCSV(one)[1] = row(one[1])
    <3> HIDE DEF row
    <3> QED
      BY <2>1, <2>2
  <2>4. writeTopicCSV(one)[1] = row(Cells)
    BY <2>1, <2>3, Zenon
  <2> QED
    BY <2>4 DEF one
<1>4. writeTopicCSV(<<Cells>>)[1] = front \o <<"text">>
  BY <1>1, <1>2, <1>3, Zenon
<1> DEFINE S == {"platform", "doc_id", "created_at", "label", "confidence", "polarity",
                 "p_negative", "p_neutral", "p_positive", "text"}
<1>5. doc \in Seq(S) /\ Len(doc) = 3 /\ cols \in Seq(S) /\ Len(cols) = 6
      /\ <<"text">> \in Seq(S) /\ Len(<<"text">>) = 1
  OBVIOUS
<1>6. /\ front \in Seq(S) /\ Len(front) = 9
      /\ front[1] = doc[1] /\ front[2] = doc[2] /\ front[3] = doc[3]
      /\ front[4] = cols[1] /\ front[5] = cols[2] /\ front[6] = cols[3]
      /\ front[7] = cols[4] /\ front[8] = cols[5] /\ front[9] = cols[6]
  <2> HIDE DEF S, doc, cols
  <2>1. /\ front \in Seq(S) /\ Len(front) = Len(doc) + Len(cols)
        /\ \A i \in 1..(Len(doc) + Len(cols)) :
             front[i] = IF i <= Len(doc) THEN doc[i] ELSE cols[i - Len(doc)]
    BY <1>5, ConcatProperties
  <2> HIDE DEF front
  <2> QED
    BY <1>5, <2>1
<1>7. /\ doc[1] = "platform" /\ doc[2] = "doc_id" /\ doc[3] = "created_at" /\ cols[1] = "label"
      /\ cols[2] = "confidence" /\ cols[3] = "polarity" /\ cols[4] = "p_negative"
      /\ cols[5] = "p_neutral" /\ cols[6] = "p_positive"
  OBVIOUS
<1> HIDE DEF doc, cols, front
<1> DEFINE last == <<"text">>
           whole == front \o last
<1>8. last[1] = "text" /\ last \in Seq(S) /\ Len(last) = 1
  BY <1>5
<1> HIDE DEF S, last
<1>9. /\ whole \in Seq(S) /\ Len(whole) = 10 /\ whole[10] = last[1]
      /\ \A i \in 1..9 : whole[i] = front[i]
  <2>1. /\ whole \in Seq(S) /\ Len(whole) = Len(front) + Len(last)
        /\ \A i \in 1..(Len(front) + Len(last)) :
             whole[i] = IF i <= Len(front) THEN front[i] ELSE last[i - Len(front)]
    BY <1>6, <1>8, ConcatProperties
  <2> HIDE DEF whole
  <2> QED
    BY <1>6, <1>8, <2>1
<1> HIDE DEF whole
<1>10. whole = [i \in 1..10 |-> whole[i]]
  BY <1>9, ListOf
<1>11. /\ topicCSVHeader = [i \in 1..10 |-> topicCSVHeader[i]]
       /\ topicCSVHeader[1] = "platform" /\ topicCSVHeader[2] = "doc_id"
       /\ topicCSVHeader[3] = "created_at" /\ topicCSVHeader[4] = "label"
       /\ topicCSVHeader[5] = "confidence" /\ topicCSVHeader[6] = "polarity"
       /\ topicCSVHeader[7] = "p_negative" /\ topicCSVHeader[8] = "p_neutral"
       /\ topicCSVHeader[9] = "p_positive" /\ topicCSVHeader[10] = "text"
  BY DEF topicCSVHeader
<1>12. \A i \in 1..10 : whole[i] = topicCSVHeader[i]
  BY <1>6, <1>7, <1>8, <1>9, <1>11
<1>13. whole = topicCSVHeader
  BY <1>10, <1>11, <1>12
<1> QED
  BY <1>4, <1>13 DEF whole, last

(* So does every column of a row of the text export but the first, which is *)
(* the number of the row.                                                    *)
LEMMA TextColumns ==
    SubSeq(writeTextCSV(<<Cells>>)[1], 2, 7) = SubSeq(textCSVHeader, 2, 7)
<1> DEFINE cols == <<"label", "confidence", "polarity", "p_negative", "p_neutral", "p_positive">>
           number == <<0>>
           row == number \o cols
           S == {0, "label", "confidence", "polarity", "p_negative", "p_neutral", "p_positive"}
<1>1. scoreColumns(Cells.overall) = cols
  BY DEF scoreColumns, Cells
<1>2. writeTextCSV(<<Cells>>)[1] = row
  <2> DEFINE told(i, r) == <<i - 1>> \o scoreColumns(r.overall)
             one == <<Cells>>
  <2>1. one[1] = Cells /\ 1 \in DOMAIN one
    OBVIOUS
  <2> HIDE DEF one
  <2>2. writeTextCSV(one) = [i \in DOMAIN one |-> told(i, one[i])]
    BY Zenon DEF writeTextCSV
  <2>3. writeTextCSV(one)[1] = told(1, one[1])
    <3> HIDE DEF told
    <3> QED
      BY <2>1, <2>2
  <2>4. 1 - 1 = 0
    OBVIOUS
  <2>5. writeTextCSV(one)[1] = number \o cols
    BY <1>1, <2>1, <2>3, <2>4, Zenon
  <2> QED
    BY <2>5 DEF one
<1>3. number \in Seq(S) /\ Len(number) = 1 /\ cols \in Seq(S) /\ Len(cols) = 6
  OBVIOUS
<1>4. /\ cols[1] = "label" /\ cols[2] = "confidence" /\ cols[3] = "polarity"
      /\ cols[4] = "p_negative" /\ cols[5] = "p_neutral" /\ cols[6] = "p_positive"
  OBVIOUS
<1> HIDE DEF number, cols, S
<1>5. row \in Seq(S) /\ Len(row) = 7 /\ \A i \in 2..7 : row[i] = cols[i - 1]
  <2>1. /\ row \in Seq(S) /\ Len(row) = Len(number) + Len(cols)
        /\ \A i \in 1..(Len(number) + Len(cols)) :
             row[i] = IF i <= Len(number) THEN number[i] ELSE cols[i - Len(number)]
    BY <1>3, ConcatProperties
  <2> HIDE DEF row
  <2> QED
    BY <1>3, <2>1
<1>6. /\ textCSVHeader[2] = "label" /\ textCSVHeader[3] = "confidence"
      /\ textCSVHeader[4] = "polarity" /\ textCSVHeader[5] = "p_negative"
      /\ textCSVHeader[6] = "p_neutral" /\ textCSVHeader[7] = "p_positive"
  BY DEF textCSVHeader
<1> HIDE DEF row
<1>7. \A i \in 2..7 : row[i] = textCSVHeader[i]
  BY <1>4, <1>5, <1>6
<1>8. SubSeq(row, 2, 7) = SubSeq(textCSVHeader, 2, 7)
  <2>1. \A i \in 1..6 : row[i + 2 - 1] = textCSVHeader[i + 2 - 1]
    BY <1>7
  <2>2. 7 - 2 + 1 = 6
    OBVIOUS
  <2>3. SubSeq(row, 2, 7) = [i \in 1..(7 - 2 + 1) |-> row[2 + i - 1]]
    BY <1>5
  <2>4. SubSeq(textCSVHeader, 2, 7) = [i \in 1..(7 - 2 + 1) |-> textCSVHeader[2 + i - 1]]
    BY DEF textCSVHeader
  <2> QED
    BY <2>1, <2>2, <2>3, <2>4
<1> QED
  BY <1>2, <1>8

(***************************************************************************)
(* Whatever the question, the error and the format, the transports agree.  *)
(***************************************************************************)
THEOREM TransportsAgree ==
    ASSUME NEW Name, NEW Text, NEW Metadata,
           given.part = "question" =>
             /\ given.asked.platforms \in Seq(Seq(Name)) /\ given.asked.aspects \in Seq(Seq(Name))
             /\ given.asked.stray \in BOOLEAN /\ given.text.stray = given.asked.stray
             /\ given.text.documents \in Seq([text : Text, metadata : Metadata])
    PROVE  SurfacesAgree
<1> DEFINE q == given.asked
           text == given.text
           media == given.media
           ask(way) == Taken(AskBy(way, q, media))
           told(way) == WithoutMetadata(TextBy(way, text, media).Documents)
           yaml == canonicalMedia(media) = mimeYAML
<1>1. ASSUME given.part = "question", Ordinary(q)
      PROVE  /\ \A way \in Ways : ask(way) = ask("grpc") \/ (way = "post" /\ yaml)
             /\ text.documents # <<>> /\ ~yaml =>
                  told("post") = told("grpc") /\ told("graphql") = told("grpc")
  <2>1. q.platforms \in Seq(Seq(Name)) /\ q.aspects \in Seq(Seq(Name))
    BY <1>1
  <2>2. "grpc" \in Ways
    BY DEF Ways
  <2>3. ask("grpc") = Taken(Put(q))
    BY <1>1, <2>1, <2>2, SameQuestion
  <2>4. ASSUME NEW way \in Ways, ~(way = "post" /\ yaml) PROVE ask(way) = Taken(Put(q))
    <3>1. way = "post" => canonicalMedia(media) # mimeYAML
      BY <2>4
    <3> QED
      BY <1>1, <2>1, <3>1, SameQuestion
  <2>5. text.stray = FALSE
    BY <1>1 DEF Ordinary
  <2>6. ASSUME text.documents # <<>>, ~yaml
        PROVE  told("post") = told("grpc") /\ told("graphql") = told("grpc")
    <3>1. canonicalMedia(media) # mimeYAML /\ text.documents \in Seq([text : Text, metadata : Metadata])
      BY <1>1, <2>6
    <3>2. \A way \in {"post", "graphql", "grpc"} : told(way) = WithoutMetadata(text.documents)
      BY <2>5, <2>6, <3>1, SameDocuments
    <3> HIDE DEF told
    <3> QED
      BY <3>2
  <2> HIDE DEF ask, told, yaml
  <2> QED
    BY <2>3, <2>4, <2>6
<1>2. ASSUME yaml
      PROVE  httpStatusFor([is |-> {Post(q, media).error}, code |-> "none"]) = 415
  <2>1. canonicalMedia(media) = mimeYAML
    BY <1>2, Zenon
  <2> HIDE DEF q, media
  <2>2. RefusesYaml(q, media)
    BY <2>1, YamlIsRefused
  <2> QED
    BY <2>2, Zenon DEF RefusesYaml, q, media
<1>3. /\ httpStatusFor(given.error) = Documented(given.error)
      /\ SameBlame(httpStatusFor(given.error), grpcCodeFor(given.error))
  BY TableIsKept, BlameIsSame
<1>4. ASSUME NEW format
      PROVE  /\ "partial" \in RestParts(format) \cap GraphQLParts \cap GrpcParts
                \/ format \in {mimeCSV, mimeNDJSON}
             /\ ErrorFormat(format) # mimeCSV
  <2>1. mimeJSON # mimeCSV
    BY DEF mimeJSON, mimeCSV
  <2>2. "partial" \in Parts \cap GraphQLParts \cap GrpcParts
    BY DEF Parts, GraphQLParts, GrpcParts
  <2>3. format \notin {mimeCSV, mimeNDJSON} => RestParts(format) = Parts
    BY Zenon DEF RestParts
  <2>4. ErrorFormat(format) # mimeCSV
    BY <2>1, Zenon DEF ErrorFormat
  <2> QED
    BY <2>2, <2>3, <2>4, Zenon
<1> HIDE DEF ask, told, yaml, q, text, media
<1> QED
  BY <1>1, <1>2, <1>3, <1>4, TopicColumns, TextColumns, Zenon
     DEF SurfacesAgree, ask, told, yaml, q, text, media

-----------------------------------------------------------------------------
(* One document of each id.                                                 *)

(* What stands at some places of a sequence, each of them once.            *)
PickedFrom(t, s, places) ==
    \E order \in Bijection(1..Len(t), places) : \A k \in 1..Len(t) : t[k] = s[order[k]]

(* AtPlaces picks each of its places once. *)
LEMMA PlacesArePicked ==
    ASSUME NEW S, NEW s \in Seq(S), NEW places \in SUBSET (DOMAIN s)
    PROVE  AtPlaces(s, places) \in Seq(S) /\ PickedFrom(AtPlaces(s, places), s, places)
<1> DEFINE n == Len(s)
           m == Cardinality(places)
           order == Ascending(places)
           t == AtPlaces(s, places)
<1>1. n \in Nat /\ DOMAIN s = 1..n /\ \A i \in 1..n : s[i] \in S
  BY ListOf, ElementIs
<1> HIDE DEF n
<1>2. places \subseteq Int /\ IsFiniteSet(places)
  <2>1. IsFiniteSet(1..n) /\ places \in SUBSET (1..n)
    BY <1>1, FS_Interval
  <2> HIDE DEF order, t, m
  <2>2. IsFiniteSet(places)
    BY <2>1, FS_Subset
  <2> QED
    BY <2>1, <2>2
<1>3. m \in Nat /\ order \in Bijection(1..m, places)
  BY <1>2, AscendingIs
<1> HIDE DEF m
<1>4. t = [k \in DOMAIN order |-> s[order[k]]]
  BY Zenon DEF AtPlaces
<1> HIDE DEF order, t
<1>5. DOMAIN order = 1..m /\ \A k \in 1..m : order[k] \in places
  BY <1>3 DEF Bijection, Injection
<1>6. t = [k \in 1..m |-> s[order[k]]] /\ \A k \in 1..m : s[order[k]] \in S
  BY <1>1, <1>4, <1>5
<1>7. t \in [1..m -> S]
  BY <1>6
<1>8. t \in Seq(S) /\ Len(t) = m
  BY <1>3, <1>7, ListIs
<1>9. \A k \in 1..Len(t) : t[k] = s[order[k]]
  BY <1>6, <1>8
<1>10. order \in Bijection(1..Len(t), places)
  BY <1>3, <1>8
<1>11. PickedFrom(t, s, places)
  BY <1>9, <1>10, Zenon DEF PickedFrom
<1> QED
  BY <1>8, <1>11 DEF t

(* Those picked are the ones at the places. *)
LEMMA PickedRange ==
    ASSUME NEW S, NEW s \in Seq(S), NEW places \in SUBSET (DOMAIN s)
    PROVE  Range(AtPlaces(s, places)) = {s[i] : i \in places}
<1> DEFINE t == AtPlaces(s, places)
<1>1. t \in Seq(S) /\ PickedFrom(t, s, places)
  BY PlacesArePicked
<1>2. DOMAIN t = 1..Len(t)
  BY <1>1, ListOf
<1> HIDE DEF t
<1>3. PICK order \in Bijection(1..Len(t), places) : \A k \in 1..Len(t) : t[k] = s[order[k]]
  BY <1>1, Zenon DEF PickedFrom
<1>4. ASSUME NEW k \in 1..Len(t) PROVE t[k] \in {s[i] : i \in places}
  <2>1. order[k] \in places
    BY <1>3 DEF Bijection, Injection
  <2> QED
    BY <1>3, <2>1
<1>5. ASSUME NEW i \in places PROVE \E k \in 1..Len(t) : t[k] = s[i]
  <2>1. PICK k \in 1..Len(t) : order[k] = i
    BY <1>3 DEF Bijection, Surjection
  <2> QED
    BY <1>3, <2>1
<1>6. Range(t) = {s[i] : i \in places}
  BY <1>2, <1>4, <1>5 DEF Range
<1> QED
  BY <1>6 DEF t

(* Sequences joined have what each of them has. *)
LEMMA JoinedHave ==
    ASSUME NEW S, NEW ss \in Seq(Seq(S)), Len(ss) # 0
    PROVE  /\ FlattenSeq(ss) \in Seq(S)
           /\ Range(FlattenSeq(ss)) = UNION {Range(ss[k]) : k \in 1..Len(ss)}
<1> DEFINE n == Len(ss)
<1>1. n \in Nat /\ DOMAIN ss = 1..n /\ \A i \in 1..n : ss[i] \in Seq(S)
  <2> DEFINE Part == Seq(S)
  <2>1. ss \in Seq(Part)
    OBVIOUS
  <2> HIDE DEF Part
  <2>2. n \in Nat /\ DOMAIN ss = 1..n /\ \A i \in 1..n : ss[i] \in Part
    BY <2>1, ListOf, ElementIs
  <2> QED
    BY <2>2 DEF Part
<1>2. PICK g : IsJoining(g, ss) /\ FlattenSeq(ss) = g[n]
  BY FlattenJoins
<1>3. g[1] = ss[1] /\ \A i \in 2..n : g[i] = g[i - 1] \o ss[i]
  BY <1>2 DEF IsJoining
<1>4. n # 0
  OBVIOUS
<1> HIDE DEF n
<1> DEFINE Before(i) == UNION {Range(ss[k]) : k \in 1..i}
           Joined(i) == g[i] \in Seq(S) /\ Range(g[i]) = Before(i)
           T == {i \in Nat : i \in 1..n => Joined(i)}
<1>5. 0 \in T
  OBVIOUS
<1>6. ASSUME NEW i \in Nat, i \in T PROVE i + 1 \in T
  <2> SUFFICES ASSUME i + 1 \in 1..n PROVE Joined(i + 1)
    OBVIOUS
  <2>1. CASE i = 0
    <3>1. 1 \in 1..n /\ i + 1 = 1 /\ 1..1 = {1}
      BY <1>1, <2>1
    <3>2. Before(1) = Range(ss[1])
      BY <3>1
    <3> HIDE DEF Before
    <3> QED
      BY <1>1, <1>3, <3>1, <3>2
  <2>2. CASE i # 0
    <3>1. i \in 1..n /\ i + 1 \in 2..n /\ (i + 1) - 1 = i
      BY <1>1, <2>2
    <3>2. Joined(i)
      BY <1>6, <3>1
    <3>3. g[i + 1] = g[i] \o ss[i + 1] /\ ss[i + 1] \in Seq(S)
      BY <1>1, <1>3, <3>1
    <3>4. Before(i + 1) = Before(i) \cup Range(ss[i + 1])
      <4>1. 1..i + 1 = (1..i) \cup {i + 1}
        BY <3>1
      <4> QED
        BY <4>1
    <3>5. g[i] \in Seq(S) /\ Range(g[i]) = Before(i)
      BY <3>2
    <3> HIDE DEF Before, T
    <3>6. g[i] \o ss[i + 1] \in Seq(S) /\ Range(g[i] \o ss[i + 1]) = Range(g[i]) \cup Range(ss[i + 1])
      BY <3>3, <3>5, ConcatHas
    <3> QED
      BY <3>3, <3>4, <3>5, <3>6
  <2> QED
    BY <2>1, <2>2
<1> HIDE DEF T
<1>7. Nat \subseteq T
  BY <1>5, <1>6, CountingUp
<1>8. Joined(n)
  BY <1>1, <1>4, <1>7 DEF T
<1> QED
  BY <1>2, <1>8 DEF n

(***************************************************************************)
(* dedupeByID keeps a document of every id it finds, makes none up, and     *)
(* keeps no two of one id (service.go:432-447).                              *)
(***************************************************************************)
OneOfEach(docs, once) ==
    /\ Range(once) \subseteq Range(docs)
    /\ \A d \in Range(docs) : \E e \in Range(once) : e.id = d.id
    /\ \A i \in DOMAIN once : \A j \in DOMAIN once : once[i].id = once[j].id => i = j

THEOREM DedupeKeepsOne ==
    ASSUME NEW Doc, NEW docs \in Seq(Doc)
    PROVE  dedupeByID(docs) \in Seq(Doc) /\ OneOfEach(docs, dedupeByID(docs))
<1> DEFINE n == Len(docs)
           firsts == {i \in DOMAIN docs : \A j \in 1..(i - 1) : docs[j].id # docs[i].id}
           once == AtPlaces(docs, firsts)
<1>1. n \in Nat /\ DOMAIN docs = 1..n
  BY ListOf
<1>2. dedupeByID(docs) = once
  BY Zenon DEF dedupeByID
<1>3. firsts \in SUBSET (DOMAIN docs)
  OBVIOUS
<1>4. ASSUME NEW i \in 1..n PROVE \E j \in firsts : docs[j].id = docs[i].id
  <2> DEFINE same == {j \in 1..n : docs[j].id = docs[i].id}
  <2>1. same \subseteq Nat /\ i \in same
    BY <1>1
  <2> HIDE DEF n, firsts, once
  <2>2. PICK j \in same : \A k \in same : j <= k
    <3> HIDE DEF same
    <3> QED
      BY <2>1, LeastNumber
  <2>3. \A k \in 1..(j - 1) : k \in 1..n /\ k \notin same
    BY <1>1, <2>2
  <2>4. j \in firsts
    BY <1>1, <2>2, <2>3 DEF firsts
  <2> QED
    BY <2>2, <2>4
<1>5. ASSUME NEW i \in firsts, NEW j \in firsts, docs[i].id = docs[j].id PROVE i = j
  <2>1. i \in 1..n /\ j \in 1..n
    BY <1>1
  <2>2. ~(i < j) /\ ~(j < i)
    BY <1>1, <1>5, <2>1
  <2> QED
    BY <1>1, <2>1, <2>2
<1> HIDE DEF firsts, n
<1>6. once \in Seq(Doc) /\ PickedFrom(once, docs, firsts) /\ Range(once) = {docs[i] : i \in firsts}
  BY <1>3, PlacesArePicked, PickedRange
<1> HIDE DEF once
<1>7. DOMAIN once = 1..Len(once)
  BY <1>6, ListOf
<1>8. PICK order \in Bijection(1..Len(once), firsts) : \A k \in 1..Len(once) : once[k] = docs[order[k]]
  BY <1>6, Zenon DEF PickedFrom
<1>9. ASSUME NEW i \in DOMAIN once, NEW j \in DOMAIN once, once[i].id = once[j].id PROVE i = j
  <2>1. order[i] \in firsts /\ order[j] \in firsts /\ (order[i] = order[j] => i = j)
    BY <1>7, <1>8 DEF Bijection, Injection, IsInjective
  <2> QED
    BY <1>5, <1>7, <1>8, <1>9, <2>1
<1>10. Range(once) \subseteq Range(docs)
  BY <1>3, <1>6 DEF Range
<1>11. \A d \in Range(docs) : \E e \in Range(once) : e.id = d.id
  BY <1>1, <1>4, <1>6 DEF Range
<1> QED
  BY <1>2, <1>6, <1>9, <1>10, <1>11 DEF OneOfEach

-----------------------------------------------------------------------------
(* The documents of a platform's posts.                                     *)

(* The posts of a platform that pass its connector's tests.                *)
Passes(p, post, q) ==
    /\ p = "bluesky" => TrimSpace(post.body) # ""
    /\ p = "gdelt" => TrimSpace(post.title) # ""
    /\ p = "hackernews" => firstNonEmpty(post.body, post.title) # ""
    /\ p = "mastodon" => (q.since > 0 => post.age \in 0..Duration(q.since)) /\ stripHTML(post.body) # ""
    /\ p = "reddit" => TrimSpace(post.title) # "" \/ post.body # ""
    /\ p = "rss" => post.about /\ (q.since > 0 => post.age = -1 \/ post.age <= Duration(q.since))
    /\ p = "stocktwits" => post.body # ""

(* A document made of a post. *)
DocumentOf(post) == [id |-> DocumentID(post), post |-> post]

(* Documents are made of posts that pass, and of every one of them unless   *)
(* there are more than the caller wants.                                    *)
MadeOf(docs, p, posts, q) ==
    /\ docs \in Seq({DocumentOf(post) : post \in Range(posts)})
    /\ \A d \in Range(docs) : \E post \in Range(posts) : d = DocumentOf(post) /\ Passes(p, post, q)
    /\ \A post \in Range(posts) : Passes(p, post, q) =>
         \/ \E d \in Range(docs) : d = DocumentOf(post)
         \/ p = "rss" /\ Len(posts) > q.limit

(* Documents of a sequence of posts. *)
LEMMA DocumentsOfPosts ==
    ASSUME NEW Item, NEW posts \in Seq(Item), NEW places \in SUBSET (DOMAIN posts),
           NEW Some, \A i \in places : posts[i] \in Some
    PROVE  LET docs == DocumentsOf(AtPlaces(posts, places))
           IN  /\ docs \in Seq({DocumentOf(post) : post \in Some})
               /\ Range(docs) = {DocumentOf(posts[i]) : i \in places}
               /\ Len(docs) = Len(AtPlaces(posts, places))
<1> DEFINE t == AtPlaces(posts, places)
           docs == DocumentsOf(t)
           Docs == {DocumentOf(post) : post \in Some}
<1>1. t \in Seq(Item) /\ Range(t) = {posts[i] : i \in places}
  BY PlacesArePicked, PickedRange
<1> HIDE DEF t
<1>2. Len(t) \in Nat /\ DOMAIN t = 1..Len(t)
  BY <1>1, ListOf
<1>3. docs = [i \in DOMAIN t |-> DocumentOf(t[i])]
  BY Zenon DEF DocumentsOf, DocumentOf
<1>4. \A i \in DOMAIN t : t[i] \in Some
  BY <1>1 DEF Range
<1>5. docs \in [1..Len(t) -> Docs]
  <2>1. \A i \in 1..Len(t) : DocumentOf(t[i]) \in Docs
    BY <1>2, <1>4
  <2> HIDE DEF Docs
  <2> QED
    BY <1>2, <1>3, <2>1
<1> HIDE DEF docs
<1>6. docs \in Seq(Docs) /\ Len(docs) = Len(t)
  <2> HIDE DEF Docs
  <2> QED
    BY <1>2, <1>5, ListIs
<1>7. Range(docs) = {DocumentOf(posts[i]) : i \in places}
  <2>1. Range(docs) = {DocumentOf(x) : x \in Range(t)}
    BY <1>3 DEF Range
  <2> QED
    BY <1>1, <2>1
<1> QED
  BY <1>6, <1>7 DEF docs, t

(* A connector that drops the posts that do not pass and nothing else.      *)
LEMMA DropsOnly ==
    ASSUME NEW Item, NEW posts \in Seq(Item), NEW p, NEW q, NEW places,
           places = {i \in DOMAIN posts : Passes(p, posts[i], q)}
    PROVE  MadeOf(DocumentsOf(AtPlaces(posts, places)), p, posts, q)
<1> DEFINE docs == DocumentsOf(AtPlaces(posts, places))
           Some == Range(posts)
<1>1. places \in SUBSET (DOMAIN posts) /\ \A i \in places : posts[i] \in Some
  BY DEF Range
<1> HIDE DEF Some
<1>2. /\ docs \in Seq({DocumentOf(post) : post \in Some})
      /\ Range(docs) = {DocumentOf(posts[i]) : i \in places}
  BY <1>1, DocumentsOfPosts
<1> HIDE DEF docs
<1>3. \A d \in Range(docs) : \E post \in Range(posts) : d = DocumentOf(post) /\ Passes(p, post, q)
  BY <1>2 DEF Range
<1>4. ASSUME NEW post \in Range(posts), Passes(p, post, q) PROVE \E d \in Range(docs) : d = DocumentOf(post)
  <2>1. PICK i \in DOMAIN posts : posts[i] = post
    BY DEF Range
  <2>2. i \in places
    BY <1>4, <2>1
  <2> QED
    BY <1>2, <2>1, <2>2
<1> QED
  BY <1>2, <1>3, <1>4, Zenon DEF MadeOf, docs, Some

(* The answer of a search that has one. *)
LEMMA AnswerOf ==
    ASSUME NEW limit, NEW span, NEW narrowed, NEW key, NEW host, NEW docs
    PROVE  (CHOOSE r \in Asked(limit, span, narrowed, key, host, docs) : TRUE).docs = docs
<1> DEFINE S == Asked(limit, span, narrowed, key, host, docs)
           r == CHOOSE r \in S : TRUE
<1>1. S # {}
  BY AskedIsAsked
<1>2. r \in S
  BY <1>1, Zenon
<1> HIDE DEF r
<1>3. Makes(r, limit, narrowed, docs)
  BY <1>2, AskedWith, Zenon
<1>4. r.docs = docs
  BY <1>3, Zenon DEF Makes
<1> QED
  BY <1>4 DEF r

-----------------------------------------------------------------------------
(* A count, from the posts to the documents.                                *)

(* No more are picked than there are. *)
LEMMA PickedAreFewer ==
    ASSUME NEW S, NEW s \in Seq(S), NEW places \in SUBSET (DOMAIN s)
    PROVE  Len(AtPlaces(s, places)) \in Nat /\ Len(AtPlaces(s, places)) <= Len(s)
<1> DEFINE n == Len(s)
           t == AtPlaces(s, places)
           m == Len(t)
<1>1. n \in Nat /\ DOMAIN s = 1..n
  BY ListOf
<1>2. t \in Seq(S) /\ PickedFrom(t, s, places)
  BY PlacesArePicked
<1> HIDE DEF t
<1>3. m \in Nat
  BY <1>2, ListOf
<1>4. PICK order : order \in Bijection(1..m, places)
  BY <1>2, Zenon DEF PickedFrom
<1> HIDE DEF n, m
<1>5. IsFiniteSet(1..n) /\ Cardinality(1..n) = n /\ IsFiniteSet(1..m) /\ Cardinality(1..m) = m
  BY <1>1, <1>3, FS_Interval
<1>6. order \in Injection(1..m, 1..n)
  BY <1>1, <1>4 DEF Bijection, Injection, IsInjective
<1>7. Cardinality(1..m) <= Cardinality(1..n)
  BY <1>5, <1>6, FS_Injection
<1> QED
  BY <1>3, <1>5, <1>7 DEF n, m, t

(* What comes back from a connector that drops what does not pass.          *)
LEMMA Brings ==
    ASSUME NEW Item, NEW posts \in Seq(Item), NEW p, NEW q, NEW places,
           places = {i \in DOMAIN posts : Passes(p, posts[i], q)},
           NEW limit, NEW span, NEW narrowed, NEW key, NEW host, NEW found,
           found = Asked(limit, span, narrowed, key, host, DocumentsOf(AtPlaces(posts, places)))
    PROVE  MadeOf((CHOOSE r \in found : TRUE).docs, p, posts, q)
<1> DEFINE docs == DocumentsOf(AtPlaces(posts, places))
           r == CHOOSE r \in Asked(limit, span, narrowed, key, host, docs) : TRUE
<1>1. MadeOf(docs, p, posts, q)
  BY DropsOnly
<1> HIDE DEF docs
<1>2. r.docs = docs
  BY AnswerOf
<1>3. r = CHOOSE s \in found : TRUE
  BY Zenon DEF docs
<1> HIDE DEF r
<1> QED
  BY <1>1, <1>2, <1>3, Zenon

(* A search that is made. *)
Brought(p, q, cfg, public, posts) ==
    (CHOOSE r \in SearchOf(p, q, cfg, public, posts) : TRUE).docs

(* What comes back from Bluesky. *)
LEMMA BlueskyBrings ==
    ASSUME NEW Item, NEW posts \in Seq(Item), NEW q, NEW cfg, NEW public,
           SearchOf("bluesky", q, cfg, public, posts) # {}
    PROVE  MadeOf(Brought("bluesky", q, cfg, public, posts), "bluesky", posts, q)
<1> DEFINE places == {i \in DOMAIN posts : TrimSpace(posts[i].body) # ""}
           limit == Clamped(q.limit, 25, 100)
           span == Since(q.since)
           narrowed == andLocation(q.location) \cup inLanguage(q.language)
           key == ""
           host == "bluesky"
           docs == DocumentsOf(AtPlaces(posts, places))
           found == SearchOf("bluesky", q, cfg, public, posts)
<1>1. found = Bluesky(q, posts) /\ found # {}
  BY ConnectorOf
<1> HIDE DEF found
<1>2. found = Asked(limit, span, narrowed, key, host, docs)
  BY <1>1, Zenon DEF Bluesky, Those
<1>3. places = {i \in DOMAIN posts : Passes("bluesky", posts[i], q)}
  BY DEF Passes
<1> HIDE DEF places, limit, span, narrowed, key, host
<1> DEFINE r == CHOOSE r \in found : TRUE
<1>4. MadeOf(r.docs, "bluesky", posts, q)
  BY <1>2, <1>3, Brings
<1> QED
  BY <1>4, Zenon DEF Brought, found

(* What comes back from GDELT. *)
LEMMA GdeltBrings ==
    ASSUME NEW Item, NEW posts \in Seq(Item), NEW q, NEW cfg, NEW public,
           SearchOf("gdelt", q, cfg, public, posts) # {}
    PROVE  MadeOf(Brought("gdelt", q, cfg, public, posts), "gdelt", posts, q)
<1> DEFINE places == {i \in DOMAIN posts : TrimSpace(posts[i].title) # ""}
           country == countryFIPS(q.location)
           place == IF country = "" THEN andLocation(q.location) ELSE {<<"sourcecountry", country>>}
           limit == Clamped(q.limit, 25, 250)
           span == IF q.since > 0 THEN gdeltTimespan(q.since) ELSE Forever
           narrowed == place \cup (IF q.language \in gdeltLangs THEN inLanguage(q.language) ELSE {})
           key == ""
           host == "gdelt"
           docs == DocumentsOf(AtPlaces(posts, places))
           found == SearchOf("gdelt", q, cfg, public, posts)
<1>1. found = GDELT(q, posts) /\ found # {}
  BY ConnectorOf
<1> HIDE DEF found
<1>2. found = Asked(limit, span, narrowed, key, host, docs)
  BY <1>1, Zenon DEF GDELT, Those
<1>3. places = {i \in DOMAIN posts : Passes("gdelt", posts[i], q)}
  BY DEF Passes
<1> HIDE DEF places, country, place, limit, span, narrowed, key, host
<1> DEFINE r == CHOOSE r \in found : TRUE
<1>4. MadeOf(r.docs, "gdelt", posts, q)
  BY <1>2, <1>3, Brings
<1> QED
  BY <1>4, Zenon DEF Brought, found

(* What comes back from Hacker News. *)
LEMMA HackerNewsBrings ==
    ASSUME NEW Item, NEW posts \in Seq(Item), NEW q, NEW cfg, NEW public,
           SearchOf("hackernews", q, cfg, public, posts) # {}
    PROVE  MadeOf(Brought("hackernews", q, cfg, public, posts), "hackernews", posts, q)
<1> DEFINE places == {i \in DOMAIN posts : firstNonEmpty(posts[i].body, posts[i].title) # ""}
           limit == Clamped(q.limit, 20, 100)
           span == Since(q.since)
           narrowed == andLocation(q.location)
           key == ""
           host == "hackernews"
           docs == DocumentsOf(AtPlaces(posts, places))
           found == SearchOf("hackernews", q, cfg, public, posts)
<1>1. found = HackerNews(q, posts) /\ found # {}
  BY ConnectorOf
<1> HIDE DEF found
<1>2. found = Asked(limit, span, narrowed, key, host, docs)
  BY <1>1, Zenon DEF HackerNews, Those
<1>3. places = {i \in DOMAIN posts : Passes("hackernews", posts[i], q)}
  BY DEF Passes
<1> HIDE DEF places, limit, span, narrowed, key, host
<1> DEFINE r == CHOOSE r \in found : TRUE
<1>4. MadeOf(r.docs, "hackernews", posts, q)
  BY <1>2, <1>3, Brings
<1> QED
  BY <1>4, Zenon DEF Brought, found

(* What comes back from Mastodon. *)
LEMMA MastodonBrings ==
    ASSUME NEW Item, NEW posts \in Seq(Item), NEW q, NEW cfg, NEW public,
           SearchOf("mastodon", q, cfg, public, posts) # {}
    PROVE  MadeOf(Brought("mastodon", q, cfg, public, posts), "mastodon", posts, q)
<1> DEFINE places == {i \in DOMAIN posts : (q.since > 0 => posts[i].age \in 0..Duration(q.since)) /\ stripHTML(posts[i].body) # ""}
           limit == Clamped(q.limit, 25, 40)
           span == Forever
           narrowed == andLocation(q.location)
           key == tokenFor(cfg, q.creds)
           host == instanceFor(cfg, q.creds, public)
           docs == DocumentsOf(AtPlaces(posts, places))
           found == SearchOf("mastodon", q, cfg, public, posts)
<1>1. found = Mastodon(q, cfg, public, posts) /\ found # {}
  BY ConnectorOf
<1> HIDE DEF found
<1>2. found = Asked(limit, span, narrowed, key, host, docs)
  BY <1>1, Zenon DEF Mastodon, Those
<1>3. places = {i \in DOMAIN posts : Passes("mastodon", posts[i], q)}
  BY DEF Passes
<1> HIDE DEF places, limit, span, narrowed, key, host
<1> DEFINE r == CHOOSE r \in found : TRUE
<1>4. MadeOf(r.docs, "mastodon", posts, q)
  BY <1>2, <1>3, Brings
<1> QED
  BY <1>4, Zenon DEF Brought, found

(* What comes back from Reddit. *)
LEMMA RedditBrings ==
    ASSUME NEW Item, NEW posts \in Seq(Item), NEW q, NEW cfg, NEW public,
           SearchOf("reddit", q, cfg, public, posts) # {}
    PROVE  MadeOf(Brought("reddit", q, cfg, public, posts), "reddit", posts, q)
<1> DEFINE places == {i \in DOMAIN posts : TrimSpace(posts[i].title) # "" \/ posts[i].body # ""}
           limit == Clamped(q.limit, 25, 100)
           span == IF q.since > 0 THEN redditTimeWindow(q.since) ELSE Forever
           narrowed == andLocation(q.location)
           key == cfg.Reddit
           host == "reddit"
           docs == DocumentsOf(AtPlaces(posts, places))
           found == SearchOf("reddit", q, cfg, public, posts)
<1>1. found = Reddit(q, cfg, posts) /\ found # {}
  BY ConnectorOf
<1> HIDE DEF found
<1>2. found = Asked(limit, span, narrowed, key, host, docs)
  BY <1>1, Zenon DEF Reddit, Those
<1>3. places = {i \in DOMAIN posts : Passes("reddit", posts[i], q)}
  BY DEF Passes
<1> HIDE DEF places, limit, span, narrowed, key, host
<1> DEFINE r == CHOOSE r \in found : TRUE
<1>4. MadeOf(r.docs, "reddit", posts, q)
  BY <1>2, <1>3, Brings
<1> QED
  BY <1>4, Zenon DEF Brought, found

(* What comes back from Stocktwits. *)
LEMMA StockTwitsBrings ==
    ASSUME NEW Item, NEW posts \in Seq(Item), NEW q, NEW cfg, NEW public,
           SearchOf("stocktwits", q, cfg, public, posts) # {}
    PROVE  MadeOf(Brought("stocktwits", q, cfg, public, posts), "stocktwits", posts, q)
<1> DEFINE places == {i \in DOMAIN posts : posts[i].body # ""}
           limit == Clamped(q.limit, 30, 30)
           span == Forever
           narrowed == {<<"symbol", extractSymbol(q.topic)>>}
           key == ""
           host == "stocktwits"
           docs == DocumentsOf(AtPlaces(posts, places))
           found == SearchOf("stocktwits", q, cfg, public, posts)
<1>1. found = StockTwits(q, posts) /\ found # {}
  BY ConnectorOf
<1> HIDE DEF found
<1>2. found = Asked(limit, span, narrowed, key, host, docs)
  BY <1>1, Zenon DEF StockTwits, Those
<1>3. places = {i \in DOMAIN posts : Passes("stocktwits", posts[i], q)}
  BY DEF Passes
<1> HIDE DEF places, limit, span, narrowed, key, host
<1> DEFINE r == CHOOSE r \in found : TRUE
<1>4. MadeOf(r.docs, "stocktwits", posts, q)
  BY <1>2, <1>3, Brings
<1> QED
  BY <1>4, Zenon DEF Brought, found

-----------------------------------------------------------------------------
(* What comes back from every connector.                                    *)

(* What comes back from a connector that drops none. *)
LEMMA BringsAll ==
    ASSUME NEW Item, NEW posts \in Seq(Item), NEW p, NEW q, \A i \in DOMAIN posts : Passes(p, posts[i], q),
           NEW limit, NEW span, NEW narrowed, NEW key, NEW host, NEW found,
           found = Asked(limit, span, narrowed, key, host, DocumentsOf(posts))
    PROVE  MadeOf((CHOOSE r \in found : TRUE).docs, p, posts, q)
<1> DEFINE places == DOMAIN posts
<1>1. AtPlaces(posts, places) = posts
  BY NoneLeftOut
<1>2. places = {i \in DOMAIN posts : Passes(p, posts[i], q)}
  OBVIOUS
<1> HIDE DEF places
<1>3. found = Asked(limit, span, narrowed, key, host, DocumentsOf(AtPlaces(posts, places)))
  BY <1>1
<1> QED
  BY <1>2, <1>3, Brings

(* What comes back from Twitter. *)
LEMMA TwitterBrings ==
    ASSUME NEW Item, NEW posts \in Seq(Item), NEW q, NEW cfg, NEW public,
           SearchOf("twitter", q, cfg, public, posts) # {}
    PROVE  MadeOf(Brought("twitter", q, cfg, public, posts), "twitter", posts, q)
<1> DEFINE limit == Clamped(q.limit, 25, 100)
           span == Since(q.since)
           narrowed == andLocation(q.location) \cup inLanguage(q.language)
           key == cfg.Twitter
           host == "twitter"
           found == SearchOf("twitter", q, cfg, public, posts)
<1>1. found = Twitter(q, cfg, posts) /\ found # {}
  BY ConnectorOf
<1> HIDE DEF found
<1>2. found = Asked(limit, span, narrowed, key, host, DocumentsOf(posts))
  BY <1>1, Zenon DEF Twitter
<1>3. \A i \in DOMAIN posts : Passes("twitter", posts[i], q)
  BY DEF Passes
<1> HIDE DEF limit, span, narrowed, key, host
<1> DEFINE r == CHOOSE r \in found : TRUE
<1>4. MadeOf(r.docs, "twitter", posts, q)
  BY <1>2, <1>3, BringsAll
<1> QED
  BY <1>4, Zenon DEF Brought, found

(* What comes back from YouTube. *)
LEMMA YouTubeBrings ==
    ASSUME NEW Item, NEW posts \in Seq(Item), NEW q, NEW cfg, NEW public,
           SearchOf("youtube", q, cfg, public, posts) # {}
    PROVE  MadeOf(Brought("youtube", q, cfg, public, posts), "youtube", posts, q)
<1> DEFINE limit == Clamped(q.limit, 25, 50)
           span == Since(q.since)
           narrowed == andLocation(q.location) \cup inLanguage(q.language)
           key == keyFor(cfg, q.creds)
           host == "youtube"
           found == SearchOf("youtube", q, cfg, public, posts)
<1>1. found = YouTube(q, cfg, posts) /\ found # {}
  BY ConnectorOf
<1> HIDE DEF found
<1>2. found = Asked(limit, span, narrowed, key, host, DocumentsOf(posts))
  BY <1>1, Zenon DEF YouTube
<1>3. \A i \in DOMAIN posts : Passes("youtube", posts[i], q)
  BY DEF Passes
<1> HIDE DEF limit, span, narrowed, key, host
<1> DEFINE r == CHOOSE r \in found : TRUE
<1>4. MadeOf(r.docs, "youtube", posts, q)
  BY <1>2, <1>3, BringsAll
<1> QED
  BY <1>4, Zenon DEF Brought, found

(* The feeds bring the items that pass, up to the caller's limit. *)
LEMMA FeedsBring ==
    ASSUME NEW Item, NEW posts \in Seq(Item), NEW q, q.limit \in Int, NEW cfg, NEW public
    PROVE  MadeOf(Brought("rss", q, cfg, public, posts), "rss", posts, q)
<1> DEFINE limit == IF q.limit <= 0 THEN 30 ELSE q.limit
           places == {i \in DOMAIN posts : posts[i].about /\ (q.since > 0 => posts[i].age = -1 \/ posts[i].age <= Duration(q.since))}
           docs == DocumentsOf(AtPlaces(posts, places))
           m == Min({limit, Len(docs)})
           cut == SubSeq(docs, 1, m)
           found == SearchOf("rss", q, cfg, public, posts)
           Docs == {DocumentOf(post) : post \in Range(posts)}
<1>1. found = RSS(q, posts)
  BY ConnectorOf
<1> HIDE DEF found
<1>2. found = Asked(limit, Forever, andLocation(q.location), "", "rss", cut)
  BY <1>1, Zenon DEF RSS, Those
<1>3. Brought("rss", q, cfg, public, posts) = cut
  <2> HIDE DEF cut, limit
  <2>1. (CHOOSE r \in found : TRUE).docs = cut
    <3>1. (CHOOSE r \in Asked(limit, Forever, andLocation(q.location), "", "rss", cut) : TRUE).docs = cut
      BY AnswerOf
    <3> QED
      BY <1>2, <3>1
  <2> QED
    BY <2>1, Zenon DEF Brought, found
<1>4. places = {i \in DOMAIN posts : Passes("rss", posts[i], q)}
  BY DEF Passes
<1>5. places \in SUBSET (DOMAIN posts)
  OBVIOUS
<1>6. limit \in Nat
  OBVIOUS
<1>7. q.limit <= 0 \/ limit = q.limit
  OBVIOUS
<1> HIDE DEF limit, places, Docs
<1>8. MadeOf(docs, "rss", posts, q)
  BY <1>4, DropsOnly
<1>9. Len(docs) \in Nat /\ Len(docs) <= Len(posts) /\ Len(posts) \in Nat
  <2>1. \A i \in places : posts[i] \in Range(posts)
    BY <1>5 DEF Range
  <2>2. Len(docs) = Len(AtPlaces(posts, places))
    BY <1>5, <2>1, DocumentsOfPosts
  <2>3. Len(AtPlaces(posts, places)) \in Nat /\ Len(AtPlaces(posts, places)) <= Len(posts)
    BY <1>5, PickedAreFewer
  <2>4. Len(posts) \in Nat
    BY ListOf
  <2> QED
    BY <2>2, <2>3, <2>4
<1> HIDE DEF docs
<1>10. docs \in Seq(Docs)
  BY <1>8, Zenon DEF MadeOf, Docs
<1>11. m = IF limit <= Len(docs) THEN limit ELSE Len(docs)
  BY <1>6, <1>9, OfTwo
<1> HIDE DEF m
<1>12. m \in 0..Len(docs)
  BY <1>6, <1>9, <1>11
<1>13. cut \in Seq(Docs) /\ Len(cut) = m /\ \A i \in 1..m : cut[i] = docs[i]
  <2>1. cut = [i \in 1..m |-> docs[i]]
    BY <1>9, <1>10, <1>12
  <2>2. \A i \in 1..m : docs[i] \in Docs
    BY <1>9, <1>10, <1>12, ElementIs
  <2> HIDE DEF cut
  <2>3. cut \in [1..m -> Docs] /\ m \in Nat
    BY <1>9, <1>12, <2>1, <2>2
  <2>4. cut \in Seq(Docs) /\ Len(cut) = m
    BY <2>3, ListIs
  <2> QED
    BY <2>1, <2>4
<1> HIDE DEF cut
<1>14. DOMAIN docs = 1..Len(docs) /\ DOMAIN cut = 1..m
  BY <1>10, <1>13, ListOf
<1>15. Range(cut) \subseteq Range(docs)
  BY <1>9, <1>12, <1>13, <1>14 DEF Range
<1>16. ASSUME NEW post \in Range(posts), Passes("rss", post, q), ~(Len(posts) > q.limit)
       PROVE  \E d \in Range(cut) : d = DocumentOf(post)
  <2>1. PICK d \in Range(docs) : d = DocumentOf(post)
    BY <1>8, <1>16 DEF MadeOf
  <2>2. DOMAIN posts = 1..Len(posts) /\ DOMAIN posts # {}
    BY <1>16, ListOf DEF Range
  <2>3. Len(posts) > 0
    BY <1>9, <2>2
  <2>4. limit = q.limit /\ m = Len(docs)
    BY <1>7, <1>9, <1>11, <1>16, <2>3
  <2> QED
    BY <1>13, <1>14, <2>1, <2>4 DEF Range
<1>17. \A d \in Range(cut) : \E post \in Range(posts) : d = DocumentOf(post) /\ Passes("rss", post, q)
  BY <1>8, <1>15 DEF MadeOf
<1>18. MadeOf(cut, "rss", posts, q)
  BY <1>13, <1>16, <1>17 DEF MadeOf, Docs
<1> QED
  BY <1>3, <1>18

(* The platforms, in the order they are given here. *)
Platforms == {"bluesky", "gdelt", "hackernews", "mastodon", "reddit", "rss", "stocktwits",
              "twitter", "youtube"}

(* What comes back from any platform. *)
LEMMA EveryPlatformBrings ==
    ASSUME NEW Item, NEW posts \in Seq(Item), NEW q, q.limit \in Int, NEW cfg, NEW public,
           NEW p \in Platforms, SearchOf(p, q, cfg, public, posts) # {}
    PROVE  MadeOf(Brought(p, q, cfg, public, posts), p, posts, q)
<1>1. CASE p = "bluesky"
  BY <1>1, BlueskyBrings
<1>2. CASE p = "gdelt"
  BY <1>2, GdeltBrings
<1>3. CASE p = "hackernews"
  BY <1>3, HackerNewsBrings
<1>4. CASE p = "mastodon"
  BY <1>4, MastodonBrings
<1>5. CASE p = "reddit"
  BY <1>5, RedditBrings
<1>6. CASE p = "rss"
  BY <1>6, FeedsBring
<1>7. CASE p = "stocktwits"
  BY <1>7, StockTwitsBrings
<1>8. CASE p = "twitter"
  BY <1>8, TwitterBrings
<1>9. CASE p = "youtube"
  BY <1>9, YouTubeBrings
<1> QED
  BY <1>1, <1>2, <1>3, <1>4, <1>5, <1>6, <1>7, <1>8, <1>9 DEF Platforms

-----------------------------------------------------------------------------
(* The keys of posts.                                                       *)

(* The posts there may be: a date is there or it is not, Bluesky, Mastodon  *)
(* and StockTwits have no titles and GDELT nothing but a title, and only     *)
(* the feeds bring what nobody searched for.                                 *)
Postings(Owner, Key, Text) ==
    {post \in [platform : Platforms, owner : Owner, key : Key, title : Text, body : Text,
               age : Nat \cup {-1}, about : BOOLEAN] :
       /\ post.platform \in {"bluesky", "mastodon", "stocktwits"} => post.title = ""
       /\ post.platform = "gdelt" => post.body = ""
       /\ post.platform # "rss" => post.about}

(* A key stands for one post of the platform, except on Bluesky and in the  *)
(* feeds.                                                                   *)
KeysAreUnique(posts) ==
    \A x \in Range(posts) : \A y \in Range(posts) :
      x.platform = y.platform /\ x.key = y.key /\ x.platform \notin {"bluesky", "rss"}
      => x.owner = y.owner

(* A post that is wanted passes its connector's tests. *)
WantedPost(post, q) ==
    /\ HasWords(post) /\ post.about
    /\ post.platform \in {"mastodon", "rss"} =>
         InTime(post, q.since) /\ (q.since < MaxDuration \/ post.age = -1)
    /\ post.platform = "mastodon" /\ q.since > 0 => post.age # -1

(* It does, on every platform. *)
LEMMA WantedPass ==
    ASSUME NEW Owner, NEW Key, NEW Text, NEW post \in Postings(Owner, Key, Text),
           NEW q, q.since \in Nat, WantedPost(post, q)
    PROVE  Passes(post.platform, post, q)
<1> DEFINE p == post.platform  body == post.body  title == post.title  age == post.age
           since == q.since  long == Duration(q.since)
<1>1. /\ p \in Platforms /\ age \in Nat \cup {-1} /\ since \in Nat
      /\ p \in {"bluesky", "mastodon", "stocktwits"} => title = ""
      /\ p = "gdelt" => body = ""
  BY DEF Postings
<1>2. body \notin {"", " ", "<p>"} \/ title \notin {"", " ", "<p>"}
  BY DEF WantedPost, HasWords
<1>3. /\ p = "bluesky" => TrimSpace(body) # ""
      /\ p = "gdelt" => TrimSpace(title) # ""
      /\ p = "hackernews" => firstNonEmpty(body, title) # ""
      /\ p = "mastodon" => stripHTML(body) # ""
      /\ p = "reddit" => TrimSpace(title) # "" \/ body # ""
      /\ p = "stocktwits" => body # ""
  <2> HIDE DEF p, body, title
  <2> QED
    BY <1>1, <1>2 DEF TrimSpace, firstNonEmpty, stripHTML
<1>4. post.about /\ (p \in {"mastodon", "rss"} => (since = 0 \/ age <= since) /\ (since < MaxDuration \/ age = -1))
      /\ (p = "mastodon" /\ since > 0 => age # -1)
  BY DEF WantedPost, InTime
<1>5. /\ p = "mastodon" => (since > 0 => age \in 0..long)
      /\ p = "rss" => (since > 0 => age = -1 \/ age <= long)
  <2>4. since < MaxDuration => long = since
    BY <1>1, DurationsFit
  <2> HIDE DEF p, age, since, long
  <2>1. since \in Nat /\ (age \in Nat \/ age = -1)
    BY <1>1
  <2>2. ASSUME p = "mastodon", since > 0 PROVE age \in 0..long
    <3>1. age # -1 /\ age <= since /\ long = since
      BY <1>4, <2>2, <2>4
    <3>2. age \in Nat
      BY <2>1, <3>1
    <3> QED
      BY <2>1, <2>2, <3>1, <3>2
  <2>3. ASSUME p = "rss", since > 0 PROVE age = -1 \/ age <= long
    BY <1>4, <2>1, <2>3, <2>4
  <2> QED
    BY <2>2, <2>3
<1> QED
  BY <1>3, <1>4, <1>5 DEF Passes

(* Who has the same id is the same post upstream. *)
LEMMA SameIdSamePost ==
    ASSUME NEW posts, KeysAreUnique(posts), NEW x \in Range(posts), NEW y \in Range(posts),
           DocumentID(x) = DocumentID(y)
    PROVE  Upstream(x) = Upstream(y)
<1> DEFINE full(z) == z.platform \in {"bluesky", "rss"}
<1>1. /\ full(x) => DocumentID(x) = <<x.platform, x.owner, x.key>>
      /\ ~full(x) => DocumentID(x) = <<x.platform, x.key>>
      /\ full(y) => DocumentID(y) = <<y.platform, y.owner, y.key>>
      /\ ~full(y) => DocumentID(y) = <<y.platform, y.key>>
  BY DEF DocumentID
<1>2. CASE full(x) /\ full(y)
  BY <1>1, <1>2 DEF Upstream
<1>3. CASE ~full(x) /\ ~full(y)
  <2>1. x.platform = y.platform /\ x.key = y.key
    BY <1>1, <1>3
  <2>2. x.owner = y.owner
    BY <1>3, <2>1 DEF KeysAreUnique
  <2> QED
    BY <2>1, <2>2 DEF Upstream
<1>4. x.platform = y.platform
  BY <1>1
<1> QED
  BY <1>2, <1>3, <1>4

(* And the other way round. *)
LEMMA SamePostSameId ==
    ASSUME NEW x, NEW y, Upstream(x) = Upstream(y)
    PROVE  DocumentID(x) = DocumentID(y)
<1>1. x.platform = y.platform /\ x.owner = y.owner /\ x.key = y.key
  BY DEF Upstream
<1> QED
  BY <1>1 DEF DocumentID

(* A post counts once among the documents kept if one of its id is there,   *)
(* and not at all otherwise.                                                *)
TimesIn(docs, post) == Cardinality({i \in DOMAIN docs : Upstream(docs[i].post) = Upstream(post)})

(* Where no two documents have the same id, no post counts twice. *)
LEMMA CountsAtMostOnce ==
    ASSUME NEW posts, KeysAreUnique(posts), NEW docs \in Seq({DocumentOf(x) : x \in Range(posts)}),
           \A i \in DOMAIN docs : \A j \in DOMAIN docs : docs[i].id = docs[j].id => i = j,
           NEW post \in Range(posts)
    PROVE  /\ TimesIn(docs, post) \in {0, 1}
           /\ (\E i \in DOMAIN docs : docs[i].id = DocumentID(post)) => TimesIn(docs, post) = 1
<1> DEFINE Docs == {DocumentOf(x) : x \in Range(posts)}
           same == {i \in DOMAIN docs : Upstream(docs[i].post) = Upstream(post)}
<1>1. \A d \in Docs : d.post \in Range(posts) /\ d.id = DocumentID(d.post)
  BY DEF DocumentOf
<1>2. \A i \in DOMAIN docs : docs[i] \in Docs
  <2> HIDE DEF Docs
  <2>1. docs \in Seq(Docs)
    BY DEF Docs
  <2> QED
    BY <2>1, ListOf, ElementIs
<1> HIDE DEF Docs
<1>3. ASSUME NEW i \in same, NEW j \in same PROVE i = j
  <2>1. Upstream(docs[i].post) = Upstream(docs[j].post) /\ i \in DOMAIN docs /\ j \in DOMAIN docs
    OBVIOUS
  <2>2. DocumentID(docs[i].post) = DocumentID(docs[j].post)
    BY <2>1, SamePostSameId
  <2> QED
    BY <1>1, <1>2, <2>1, <2>2
<1>4. (\E i \in DOMAIN docs : docs[i].id = DocumentID(post)) => same # {}
  <2> SUFFICES ASSUME NEW i \in DOMAIN docs, docs[i].id = DocumentID(post) PROVE i \in same
    OBVIOUS
  <2>1. docs[i].post \in Range(posts) /\ DocumentID(docs[i].post) = DocumentID(post)
    BY <1>1, <1>2
  <2>2. Upstream(docs[i].post) = Upstream(post)
    BY <2>1, SameIdSamePost
  <2> QED
    BY <2>2
<1>5. Cardinality(same) = TimesIn(docs, post)
  BY DEF TimesIn
<1> HIDE DEF same
<1>6. same = {} \/ \E i \in same : same = {i}
  BY <1>3
<1>7. same = {} => Cardinality(same) = 0
  BY FS_EmptySet
<1>8. same # {} => Cardinality(same) = 1
  <2>1. \A i : Cardinality({i}) = 1
    BY FS_Singleton
  <2> QED
    BY <1>6, <2>1
<1> QED
  BY <1>4, <1>5, <1>7, <1>8

-----------------------------------------------------------------------------
(* Every post, from its platform to the answer.                             *)

(* Every platform is enabled, and can be asked for what is wanted. *)
AsksEveryPlatform(q, cfg, public) ==
    /\ q.limit \in Int /\ q.since \in Nat /\ q.topic \in Seq(Words) /\ NamesTicker(q.topic)
    /\ \A p \in BuildRegistry(cfg) : EnabledOn(p, cfg)
    /\ REJECTED \notin public \cup {cfg.Mastodon.Instance}
    /\ q.creds.MastodonInstance \in public \cup {""}

(* Each of them then sends its request. *)
LEMMA EveryPlatformIsAsked ==
    ASSUME NEW q, NEW cfg, NEW public, AsksEveryPlatform(q, cfg, public),
           NEW p \in Platforms, NEW posts
    PROVE  SearchOf(p, q, cfg, public, posts) # {}
<1>1. p \in BuildRegistry(cfg)
  BY DEF Platforms, BuildRegistry
<1>2. Info(cfg)[p]
  BY <1>1 DEF Info, AsksEveryPlatform
<1> QED
  BY <1>1, <1>2, EnabledIsAsked DEF AsksEveryPlatform

(* Who of them is of a platform. *)
PostsOn(posts, p) == AtPlaces(posts, {i \in DOMAIN posts : posts[i].platform = p})

(* These are the platform's posts, and all of them. *)
LEMMA PostsOnPlatform ==
    ASSUME NEW Item, NEW posts \in Seq(Item), NEW p
    PROVE  /\ PostsOn(posts, p) \in Seq(Item)
           /\ Range(PostsOn(posts, p)) = {post \in Range(posts) : post.platform = p}
<1> DEFINE places == {i \in DOMAIN posts : posts[i].platform = p}
<1>1. places \in SUBSET (DOMAIN posts)
  OBVIOUS
<1>2. {posts[i] : i \in places} = {post \in Range(posts) : post.platform = p}
  BY DEF Range
<1>3. PostsOn(posts, p) = AtPlaces(posts, places)
  BY Zenon DEF PostsOn
<1> HIDE DEF places
<1> QED
  BY <1>1, <1>2, <1>3, PlacesArePicked, PickedRange

(* The documents of all platforms, one after the other.                     *)
PlatformOrder == <<"bluesky", "gdelt", "hackernews", "mastodon", "reddit", "rss", "stocktwits",
                   "twitter", "youtube">>

(* What all of them bring. *)
BroughtByAll(q, cfg, public, posts) ==
    FlattenSeq([i \in DOMAIN PlatformOrder |->
                  Brought(PlatformOrder[i], q, cfg, public, PostsOn(posts, PlatformOrder[i]))])

(* Everything in them comes from a post of the platform, and passes; and    *)
(* whatever passes is in them, unless the caller's limit takes it out.      *)
BroughtIn(all, q, posts) ==
    /\ all \in Seq({DocumentOf(post) : post \in Range(posts)})
    /\ \A d \in Range(all) : \E post \in Range(posts) : d = DocumentOf(post) /\ Passes(post.platform, post, q)
    /\ \A post \in Range(posts) : Passes(post.platform, post, q) =>
         \/ \E d \in Range(all) : d = DocumentOf(post)
         \/ post.platform = "rss" /\ Len(PostsOn(posts, "rss")) > q.limit

(* It is so, for every list of posts. *)
LEMMA AllAreBroughtIn ==
    ASSUME NEW q, NEW cfg, NEW public, AsksEveryPlatform(q, cfg, public),
           NEW Item, NEW posts \in Seq(Item), \A post \in Range(posts) : post.platform \in Platforms
    PROVE  BroughtIn(BroughtByAll(q, cfg, public, posts), q, posts)
<1> DEFINE Docs == {DocumentOf(post) : post \in Range(posts)}
           order == PlatformOrder
           from(p) == Brought(p, q, cfg, public, PostsOn(posts, p))
           lists == [i \in DOMAIN order |-> from(order[i])]
           all == FlattenSeq(lists)
<1>1. DOMAIN order = 1..9 /\ Range(order) = Platforms
  <2>1. /\ DOMAIN order = 1..9
        /\ order[1] = "bluesky" /\ order[2] = "gdelt" /\ order[3] = "hackernews"
        /\ order[4] = "mastodon" /\ order[5] = "reddit" /\ order[6] = "rss"
        /\ order[7] = "stocktwits" /\ order[8] = "twitter" /\ order[9] = "youtube"
    BY DEF PlatformOrder
  <2> HIDE DEF order
  <2>2. \A i \in 1..9 : order[i] \in Platforms
    BY <2>1 DEF Platforms
  <2>3. \A p \in Platforms : \E i \in 1..9 : order[i] = p
    BY <2>1 DEF Platforms
  <2> QED
    BY <2>1, <2>2, <2>3 DEF Range
<1> HIDE DEF order
<1>2. ASSUME NEW p \in Platforms
      PROVE  /\ MadeOf(from(p), p, PostsOn(posts, p), q)
             /\ Range(PostsOn(posts, p)) = {post \in Range(posts) : post.platform = p}
  <2> DEFINE some == PostsOn(posts, p)
  <2>1. some \in Seq(Item) /\ Range(some) = {post \in Range(posts) : post.platform = p}
    BY PostsOnPlatform
  <2> HIDE DEF some
  <2>2. SearchOf(p, q, cfg, public, some) # {} /\ q.limit \in Int
    BY EveryPlatformIsAsked DEF AsksEveryPlatform
  <2>3. MadeOf(Brought(p, q, cfg, public, some), p, some, q)
    BY <2>1, <2>2, EveryPlatformBrings
  <2> QED
    BY <2>1, <2>3 DEF some
<1>3. ASSUME NEW p \in Platforms PROVE from(p) \in Seq(Docs)
  <2> DEFINE some == PostsOn(posts, p)
             Some == {DocumentOf(post) : post \in Range(some)}
  <2>1. from(p) \in Seq(Some)
    BY <1>2, Zenon DEF MadeOf
  <2>2. Some \subseteq Docs
    BY <1>2
  <2> HIDE DEF Some, Docs, from
  <2> QED
    BY <2>1, <2>2
<1> HIDE DEF Docs
<1>4. lists \in Seq(Seq(Docs)) /\ Len(lists) = 9 /\ \A i \in 1..9 : lists[i] = from(order[i])
  <2> HIDE DEF from
  <2>1. \A i \in 1..9 : lists[i] = from(order[i]) /\ lists[i] \in Seq(Docs)
    BY <1>1, <1>3 DEF Range
  <2> DEFINE Part == Seq(Docs)
  <2>2. lists \in [1..9 -> Part] /\ 9 \in Nat
    BY <1>1, <2>1
  <2> HIDE DEF Part, lists
  <2>3. lists \in Seq(Part) /\ Len(lists) = 9
    BY <2>2, ListIs
  <2> QED
    BY <2>1, <2>3 DEF Part
<1> HIDE DEF lists
<1>5. all \in Seq(Docs) /\ Range(all) = UNION {Range(lists[i]) : i \in 1..9}
  <2>1. lists \in Seq(Seq(Docs)) /\ Len(lists) # 0
    BY <1>4
  <2>2. all \in Seq(Docs) /\ Range(all) = UNION {Range(lists[k]) : k \in 1..Len(lists)}
    BY <2>1, JoinedHave
  <2> HIDE DEF all
  <2> QED
    BY <1>4, <2>2
<1> HIDE DEF all
<1>6. \A d : d \in Range(all) <=> \E p \in Platforms : d \in Range(from(p))
  <2> HIDE DEF from
  <2>1. ASSUME NEW d \in Range(all) PROVE \E p \in Platforms : d \in Range(from(p))
    <3>1. PICK i \in 1..9 : d \in Range(lists[i])
      BY <1>5
    <3>2. order[i] \in Platforms
      BY <1>1 DEF Range
    <3> QED
      BY <1>4, <3>1, <3>2
  <2>2. ASSUME NEW p \in Platforms, NEW d \in Range(from(p)) PROVE d \in Range(all)
    <3>1. PICK i \in 1..9 : order[i] = p
      BY <1>1 DEF Range
    <3>2. d \in Range(lists[i])
      BY <1>4, <3>1
    <3> QED
      BY <1>5, <3>2
  <2> QED
    BY <2>1, <2>2
<1>7. ASSUME NEW d \in Range(all)
      PROVE  \E post \in Range(posts) : d = DocumentOf(post) /\ Passes(post.platform, post, q)
  <2>1. PICK p \in Platforms : d \in Range(from(p))
    BY <1>6
  <2>2. PICK post \in Range(PostsOn(posts, p)) : d = DocumentOf(post) /\ Passes(p, post, q)
    BY <1>2, <2>1, Zenon DEF MadeOf
  <2>3. post \in Range(posts) /\ post.platform = p
    BY <1>2
  <2> QED
    BY <2>2, <2>3
<1>8. ASSUME NEW post \in Range(posts), Passes(post.platform, post, q)
      PROVE  \/ \E d \in Range(all) : d = DocumentOf(post)
             \/ post.platform = "rss" /\ Len(PostsOn(posts, "rss")) > q.limit
  <2> DEFINE p == post.platform
  <2>1. p \in Platforms /\ post \in Range(PostsOn(posts, p))
    BY <1>2
  <2>2. \/ \E d \in Range(from(p)) : d = DocumentOf(post)
        \/ p = "rss" /\ Len(PostsOn(posts, p)) > q.limit
    BY <1>2, <1>8, <2>1, Zenon DEF MadeOf
  <2> HIDE DEF from
  <2> QED
    BY <1>6, <2>1, <2>2
<1>9. BroughtIn(all, q, posts)
  BY <1>5, <1>7, <1>8, Zenon DEF BroughtIn, Docs
<1> QED
  BY <1>9, Zenon DEF BroughtByAll, all, lists, order

(* What is known of a post. *)
LEMMA OnePost ==
    ASSUME NEW Owner, NEW Key, NEW Text, NEW post \in Postings(Owner, Key, Text)
    PROVE  /\ post.platform \in Platforms /\ post.age \in Nat \cup {-1}
           /\ post.platform # "rss" => post.about
  BY DEF Postings

(***************************************************************************)
(* However many posts there are, every one that is wanted counts, and      *)
(* counts once, and nothing out of time or about something else does.      *)
(***************************************************************************)
THEOREM PostsCountOnce ==
    ASSUME given.part = "posts", NEW Owner, NEW Key, NEW Text,
           given.posts \in Seq(Postings(Owner, Key, Text)), KeysAreUnique(given.posts),
           AsksEveryPlatform(given.query, given.cfg, given.public)
    PROVE  EveryPostCounts
<1> DEFINE q == given.query
           posts == given.posts
           all == BroughtByAll(q, given.cfg, given.public, posts)
           docs == dedupeByID(all)
           Items == Postings(Owner, Key, Text)
           Docs == {DocumentOf(post) : post \in Range(posts)}
<1> SUFFICES /\ \A post \in {x \in Range(posts) : WantedPost(x, q)} :
                  \/ TimesIn(docs, post) = 1
                  \/ post.platform = "rss" /\ Len(PostsOn(posts, "rss")) > q.limit /\ TimesIn(docs, post) = 0
             /\ \A i \in DOMAIN docs : docs[i].post.platform \in {"rss", "mastodon"} =>
                  InTime(docs[i].post, q.since) /\ docs[i].post.about
  BY Zenon DEF EveryPostCounts, Those, WantedPost, TimesIn, PostsOn, BroughtByAll, Brought, PlatformOrder
<1>1. q.since \in Nat
  BY DEF AsksEveryPlatform
<1>2. posts \in Seq(Items) /\ \A post \in Range(posts) : post \in Items
  <2>1. posts \in Seq(Items)
    OBVIOUS
  <2> HIDE DEF Items
  <2>2. \A i \in DOMAIN posts : posts[i] \in Items
    BY <2>1, ListOf, ElementIs
  <2> QED
    BY <2>1, <2>2 DEF Range
<1>3. \A post \in Items : post.platform \in Platforms /\ post.age \in Int
                          /\ (post.platform # "rss" => post.about)
  <2> SUFFICES ASSUME NEW post \in Postings(Owner, Key, Text)
               PROVE  post.platform \in Platforms /\ post.age \in Int
                      /\ (post.platform # "rss" => post.about)
    OBVIOUS
  <2>1. post.platform \in Platforms /\ post.age \in Nat \cup {-1}
        /\ (post.platform # "rss" => post.about)
    BY OnePost
  <2> QED
    BY <2>1
<1>4. BroughtIn(all, q, posts)
  <2>1. \A post \in Range(posts) : post.platform \in Platforms
    BY <1>2, <1>3
  <2> HIDE DEF Items
  <2> QED
    BY <1>2, <2>1, AllAreBroughtIn
<1> HIDE DEF all, Docs
<1>5. all \in Seq(Docs)
  BY <1>4, Zenon DEF BroughtIn, Docs
<1>6. docs \in Seq(Docs) /\ OneOfEach(all, docs)
  BY <1>5, DedupeKeepsOne
<1> HIDE DEF docs, Items, q, posts
<1>7. /\ \A d \in Range(all) : \E e \in Range(docs) : e.id = d.id
      /\ \A i \in DOMAIN docs : \A j \in DOMAIN docs : docs[i].id = docs[j].id => i = j
      /\ Range(docs) \subseteq Range(all)
  BY <1>6 DEF OneOfEach
<1>8. KeysAreUnique(posts)
  BY DEF posts
<1>9. ASSUME NEW post \in Range(posts), WantedPost(post, q)
      PROVE  \/ TimesIn(docs, post) = 1
             \/ post.platform = "rss" /\ Len(PostsOn(posts, "rss")) > q.limit /\ TimesIn(docs, post) = 0
  <2>1. Passes(post.platform, post, q)
    <3>1. post \in Postings(Owner, Key, Text)
      BY <1>2 DEF Items
    <3> QED
      BY <1>1, <1>9, <3>1, WantedPass
  <2>2. /\ TimesIn(docs, post) \in {0, 1}
        /\ (\E i \in DOMAIN docs : docs[i].id = DocumentID(post)) => TimesIn(docs, post) = 1
    BY <1>6, <1>7, <1>8, CountsAtMostOnce DEF Docs
  <2>3. \/ \E d \in Range(all) : d = DocumentOf(post)
        \/ post.platform = "rss" /\ Len(PostsOn(posts, "rss")) > q.limit
    BY <1>4, <2>1, Zenon DEF BroughtIn
  <2>4. ASSUME NEW d \in Range(all), d = DocumentOf(post)
        PROVE  \E i \in DOMAIN docs : docs[i].id = DocumentID(post)
    <3>1. d.id = DocumentID(post)
      BY <2>4 DEF DocumentOf
    <3>2. PICK e \in Range(docs) : e.id = d.id
      BY <1>7
    <3> QED
      BY <3>1, <3>2 DEF Range
  <2> QED
    BY <2>2, <2>3, <2>4
<1>10. ASSUME NEW i \in DOMAIN docs, docs[i].post.platform \in {"rss", "mastodon"}
       PROVE  InTime(docs[i].post, q.since) /\ docs[i].post.about
  <2>1. docs[i] \in Range(all)
    BY <1>7 DEF Range
  <2>2. PICK post \in Range(posts) : docs[i] = DocumentOf(post) /\ Passes(post.platform, post, q)
    BY <1>4, <2>1, Zenon DEF BroughtIn
  <2>3. docs[i].post = post
    BY <2>2 DEF DocumentOf
  <2>4. post.age \in Int /\ (post.platform # "rss" => post.about)
    BY <1>2, <1>3
  <2>5. /\ post.platform = "rss" => post.about /\ (q.since > 0 => post.age = -1 \/ post.age <= Duration(q.since))
        /\ post.platform = "mastodon" => (q.since > 0 => post.age \in 0..Duration(q.since))
    BY <2>2, Zenon DEF Passes
  <2>6. (q.since = 0 \/ q.since > 0) /\ Duration(q.since) \in Int /\ Duration(q.since) <= q.since
    BY <1>1, DurationsFit
  <2> QED
    BY <1>1, <1>10, <2>3, <2>4, <2>5, <2>6 DEF InTime
<1> QED
  BY <1>9, <1>10
=============================================================================
