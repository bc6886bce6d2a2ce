-------------------------- MODULE WfdMedia_proofs --------------------------
(***************************************************************************)
(* Whatever a sink answers, the ports of RTP and RTCP stay apart, the best *)
(* codec of its list is selected, and what is encoded after its only       *)
(* answer is what it was told of.  Whatever is installed, what a user is   *)
(* asked to install is enough.                                             *)
(*                                                                         *)
(* The loops of the code are functions defined by recursion; what they     *)
(* leave is proved by an induction over sets of numbers (UpTo).            *)
(***************************************************************************)
EXTENDS WfdMedia, WellFoundedInduction, TLAPS

\* What the proofs need to know of the parameters: they have these fields.
IsParams(p) == {"selected_codec", "selected_audio", "primary", "secondary", "rtcp_port_invalid"} \subseteq DOMAIN p

-----------------------------------------------------------------------------
(* Ports *)

PortsInv == IsParams(params) /\ PortsApart

\* The port after a port is another one, in sixteen bits, too.
LEMMA NextPort ==
    ASSUME NEW n \in Nat
    PROVE  ((n % PortSpan) + 1) % PortSpan # n % PortSpan
  BY SMT DEF PortSpan

LEMMA RtpPortsKeep ==
    ASSUME PortsInv, NEW a \in Nat, NEW b \in Nat, params' = RtpPorts(a, b)
    PROVE  PortsInv'
  <1> DEFINE first == a % PortSpan
  <1> DEFINE second == b % PortSpan
  <1>1. (first + 1) % PortSpan # first
    BY NextPort
  <1>2. CASE second \in {0, first}
    <2>1. params' = [params EXCEPT !.primary = first, !.secondary = (first + 1) % PortSpan,
                                   !.rtcp_port_invalid = TRUE]
      BY <1>2 DEF RtpPorts
    <2> HIDE DEF first, second
    <2> QED BY <1>1, <2>1, SMT DEF PortsInv, PortsApart, IsParams
  <1>3. CASE second \notin {0, first}
    <2>1. params' = [params EXCEPT !.primary = first, !.secondary = second]
      BY <1>3 DEF RtpPorts
    <2> HIDE DEF first, second
    <2> QED BY <1>3, <2>1, SMT DEF PortsInv, PortsApart, IsParams
  <1> QED BY <1>2, <1>3

\* Neither the choice of elements nor the set-up of the pipeline touches the client.
LEMMA ClientKept == StartStream \/ Configure => UNCHANGED <<params, reading, answers, told, plain>>
  <1>1. CASE StartStream
    <2>1. UNCHANGED <<server, installed, pipeline, aborted, client>>
      BY <1>1, Zenon DEF StartStream
    <2> QED BY <2>1, Zenon DEF client
  <1>2. CASE Configure
    <2>1. UNCHANGED <<search, aborted, client>>
      BY <1>2, ZenonT(60) DEF Configure
    <2> QED BY <2>1, Zenon DEF client
  <1> QED BY <1>1, <1>2

\* Anything else that changes the parameters leaves the ports alone.
LEMMA PortsStep == PortsInv /\ [Next]_vars => PortsInv'
  <1> SUFFICES ASSUME PortsInv, [Next]_vars PROVE PortsInv'
    OBVIOUS
  <1>1. CASE UNCHANGED params
    BY <1>1 DEF PortsInv, PortsApart, IsParams
  <1>2. ASSUME NEW p \in Ports, Reads(RtpPorts(p[1], p[2])) PROVE PortsInv'
    BY <1>2, RtpPortsKeep, WfdMediaAssumption DEF Reads
  <1>3. ASSUME NEW d, Reads(VideoFormats(d)) PROVE PortsInv'
    BY <1>3 DEF Reads, VideoFormats, PortsInv, PortsApart, IsParams
  <1>4. ASSUME NEW c, Reads(AudioCodecs(c)) PROVE PortsInv'
    BY <1>4 DEF Reads, AudioCodecs, PortsInv, PortsApart, IsParams
  <1>5. CASE Select
    BY <1>5 DEF Select, PortsInv, PortsApart, IsParams
  <1>6. CASE BecomePlain
    BY <1>6 DEF BecomePlain, PortsInv, PortsApart, IsParams
  <1>7. CASE StartStream \/ SetParams \/ Configure \/ BeginsToRead
    <2>1. UNCHANGED params
      BY <1>7, ClientKept, Zenon DEF SetParams, BeginsToRead
    <2> QED BY <1>1, <2>1
  <1>8. ASSUME NEW e, Installs(e) PROVE PortsInv'
    BY <1>1, <1>8 DEF Installs, client
  <1>9. ASSUME NEW a \in BOOLEAN, NEW v \in BOOLEAN, CreatePipeline(a) \/ CreateCast(v, a) PROVE PortsInv'
    BY <1>1, <1>9 DEF CreatePipeline, CreateCast, client
  <1>10. CASE UNCHANGED vars
    BY <1>1, <1>10 DEF vars, client
  <1> QED BY <1>2, <1>3, <1>4, <1>5, <1>6, <1>7, <1>8, <1>9, <1>10 DEF Next, ReadLine

\* RTCP never shares the port of RTP, for any ports a sink may send.
THEOREM PortsAlwaysApart == Spec => []PortsApart
  <1>1. Init => PortsInv
    BY SMT DEF Init, PortsInv, PortsApart, IsParams
  <1>2. PortsInv => PortsApart
    BY DEF PortsInv
  <1> QED BY <1>1, <1>2, PortsStep, PTL DEF Spec
-----------------------------------------------------------------------------
(* What is encoded and what is told *)

\* A pipeline that was never configured with what a sink has asked for
Modest(p) == p.video.profile = BASE /\ p.audio # "linked"

\* Before the first answer nothing is told and nothing but the default is encoded.
BeforeAnswer ==
    answers = 0 =>
        /\ idles = 0 /\ told = None
        /\ ~ plain /\ pipeline # None => Modest(pipeline)
        /\ ~ plain /\ ~ reading => params.selected_codec = DefaultCodec /\ params.selected_audio = FALSE

\* While the only answer stands, both follow the selection it has left.
AfterAnswer ==
    answers = 1 /\ ~ reading =>
        /\ pipeline # None =>
               /\ pipeline.video.profile = HIGH => params.selected_codec.profile = HIGH
               /\ pipeline.audio = "linked" => params.selected_audio = TRUE
        /\ told # None =>
               /\ told.profile = params.selected_codec.profile
               /\ told.audio = params.selected_audio

\* None of this concerns a Chromecast, whose pipeline is of another kind.
ToldInv ==
    /\ answers \in Nat /\ idles \in Nat
    /\ params.selected_audio \in BOOLEAN /\ IsParams(params)
    /\ plain => answers = 0 /\ ~ reading
    /\ server # "wfd" => told = None /\ answers = 0 /\ ~ reading /\ idles = 0
    /\ server = "wfd" =>
           /\ pipeline # None => "profile" \in DOMAIN pipeline.video
           /\ BeforeAnswer /\ AfterAnswer

LEMMA ToldInit == Init => ToldInv
  BY SMT DEF Init, ToldInv, BeforeAnswer, AfterAnswer, IsParams

\* What the client reads and selects
LEMMA ReadingStep ==
    ASSUME ToldInv, BeginsToRead \/ (\E p : Reads(p) /\ IsParams(p) /\ p.selected_audio \in BOOLEAN) \/ Select
    PROVE  ToldInv'
  <1>1. CASE BeginsToRead
    BY <1>1, SMT DEF BeginsToRead, search, ToldInv, BeforeAnswer, AfterAnswer, Modest
  <1>2. CASE \E p : Reads(p) /\ IsParams(p) /\ p.selected_audio \in BOOLEAN
    BY <1>2, SMT DEF Reads, Streams, search, ToldInv, BeforeAnswer, AfterAnswer, Modest
  <1>3. CASE Select
    <2>1. /\ reading' = FALSE /\ answers' = answers + 1 /\ idles' = idles + 1
          /\ reading /\ ~ plain /\ server = "wfd"
          /\ UNCHANGED <<server, pipeline, told, plain>>
      BY <1>3 DEF Select, search, ToldInv
    <2>2. IsParams(params') /\ params'.selected_audio \in BOOLEAN
      BY <1>3, SMT DEF Select, ToldInv, IsParams
    <2>3. answers' = 1 => told' = None /\ (pipeline' # None => Modest(pipeline'))
      BY <2>1, SMT DEF ToldInv, BeforeAnswer, Modest
    <2>4. AfterAnswer'
      BY <2>3, SMT DEF AfterAnswer, Modest, BASE, HIGH
    <2>5. BeforeAnswer'
      BY <2>1, SMT DEF BeforeAnswer, ToldInv
    <2> QED BY <2>1, <2>2, <2>4, <2>5, SMT DEF ToldInv
  <1> QED BY <1>1, <1>2, <1>3

\* What the server makes and configures
LEMMA PipelineStep ==
    ASSUME ToldInv, Configure \/ (\E a \in BOOLEAN : CreatePipeline(a) \/ \E v \in BOOLEAN : CreateCast(v, a))
    PROVE  ToldInv'
  <1>1. CASE Configure
    <2> DEFINE encoded == Encoded(pipeline.video.encoder, params.selected_codec)
    <2>1. /\ server = "wfd" /\ pipeline # None /\ ~ reading
          /\ UNCHANGED <<server, params, reading, answers, idles, told, plain>>
      BY <1>1 DEF Configure, search, client
    <2>2. /\ "profile" \in DOMAIN pipeline'.video /\ pipeline'.video.profile = encoded
          /\ pipeline'.audio = "linked" => params.selected_audio = TRUE
      BY <1>1, <2>1, SMT DEF Configure, ToldInv
    <2>3. encoded = HIGH => params.selected_codec.profile = HIGH
      BY DEF Encoded, BASE, HIGH
    <2>4. encoded \in {BASE, HIGH}
      BY DEF Encoded
    <2> HIDE DEF encoded
    <2>5. AfterAnswer'
      BY <2>1, <2>2, <2>3, SMT DEF AfterAnswer, ToldInv
    <2>6. BeforeAnswer'
      BY <2>1, <2>2, <2>3, <2>4, SMT DEF BeforeAnswer, Modest, ToldInv, DefaultCodec, BASE, HIGH
    <2> QED BY <2>1, <2>2, <2>5, <2>6, SMT DEF ToldInv
  <1>2. ASSUME NEW a \in BOOLEAN, CreatePipeline(a) PROVE ToldInv'
    <2>1. /\ server = "wfd" /\ UNCHANGED <<server, params, reading, answers, idles, told, plain>>
      BY <1>2 DEF CreatePipeline, search, client
    <2>2. "profile" \in DOMAIN pipeline'.video /\ Modest(pipeline')
      BY <1>2, SMT DEF CreatePipeline, WfdVideo, WfdAudio, Modest
    <2> QED BY <2>1, <2>2, SMT DEF ToldInv, BeforeAnswer, AfterAnswer, Modest, BASE, HIGH
  <1>3. ASSUME NEW a \in BOOLEAN, NEW v \in BOOLEAN, CreateCast(v, a) PROVE ToldInv'
    <2>1. /\ server = "cast" /\ UNCHANGED server
          /\ UNCHANGED <<params, reading, answers, idles, told, plain>>
      BY <1>3, Zenon DEF CreateCast, search, client
    <2> QED BY <2>1, SMT DEF ToldInv
  <1> QED BY <1>1, <1>2, <1>3

LEMMA SetParamsStep ==
    ASSUME ToldInv, SetParams
    PROVE  ToldInv'
  <1>1. /\ idles > 0 /\ idles' = idles - 1
        /\ UNCHANGED <<server, pipeline, params, reading, answers, plain>>
    BY DEF SetParams, search
  <1>2. answers # 0 /\ server = "wfd"
    BY <1>1, SMT DEF ToldInv, BeforeAnswer
  <1>3. told' # told => told'.profile = params.selected_codec.profile /\ told'.audio = params.selected_audio
    <2>1. CASE None \in {params.selected_codec, params.selected_resolution}
      BY <2>1, Zenon DEF SetParams
    <2>2. CASE None \notin {params.selected_codec, params.selected_resolution}
      <3>1. told' = [profile |-> params.selected_codec.profile, audio |-> params.selected_audio]
        BY <2>2, Zenon DEF SetParams
      <3> QED BY <3>1, Zenon
    <2> QED BY <2>1, <2>2
  <1> QED BY <1>1, <1>2, <1>3, SMT DEF ToldInv, BeforeAnswer, AfterAnswer

LEMMA ToldStep == ToldInv /\ [Next]_vars => ToldInv'
  <1> SUFFICES ASSUME ToldInv, [Next]_vars PROVE ToldInv'
    OBVIOUS
  <1>1. ASSUME NEW p \in Ports, Reads(RtpPorts(p[1], p[2])) PROVE ToldInv'
    <2>1. IsParams(RtpPorts(p[1], p[2])) /\ RtpPorts(p[1], p[2]).selected_audio \in BOOLEAN
      BY SMT DEF RtpPorts, ToldInv, IsParams
    <2> QED BY <1>1, <2>1, ReadingStep
  <1>2. ASSUME NEW d, Reads(VideoFormats(d)) PROVE ToldInv'
    <2>1. IsParams(VideoFormats(d)) /\ VideoFormats(d).selected_audio \in BOOLEAN
      BY SMT DEF VideoFormats, ToldInv, IsParams
    <2> QED BY <1>2, <2>1, ReadingStep
  <1>3. ASSUME NEW c, Reads(AudioCodecs(c)) PROVE ToldInv'
    <2>1. IsParams(AudioCodecs(c)) /\ AudioCodecs(c).selected_audio \in BOOLEAN
      BY SMT DEF AudioCodecs, ToldInv, IsParams
    <2> QED BY <1>3, <2>1, ReadingStep
  <1>4. CASE BeginsToRead \/ Select
    BY <1>4, ReadingStep
  <1>5. CASE BecomePlain
    BY <1>5, SMT DEF BecomePlain, search, ToldInv, BeforeAnswer, AfterAnswer, IsParams
  <1>6. CASE SetParams
    BY <1>6, SetParamsStep
  <1>7. CASE Configure \/ \E a \in BOOLEAN : CreatePipeline(a) \/ \E v \in BOOLEAN : CreateCast(v, a)
    BY <1>7, PipelineStep
  <1>8. CASE StartStream \/ \E e \in named : Installs(e)
    BY <1>8, SMT DEF StartStream, Installs, client, ToldInv, BeforeAnswer, AfterAnswer, Modest
  <1>9. CASE UNCHANGED vars
    BY <1>9, SMT DEF vars, search, client, ToldInv, BeforeAnswer, AfterAnswer, Modest
  <1> QED BY <1>1, <1>2, <1>3, <1>4, <1>5, <1>6, <1>7, <1>8, <1>9 DEF Next, ReadLine

\* While the sink has answered once, what is encoded is what it was told of.
THEOREM AlwaysEncodedAsTold == Spec => []EncodedAsTold
  <1>1. ToldInv => EncodedAsTold
    BY SMT DEF ToldInv, AfterAnswer, EncodedAsTold
  <1> QED BY <1>1, ToldInit, ToldStep, PTL DEF Spec
-----------------------------------------------------------------------------
(* Least indices, and functions defined by recursion *)

Below == {p \in Nat \X Nat : p[1] < p[2]}

\* A set of numbers that is not empty has a least one.
LEMMA Least ==
    ASSUME NEW S \in SUBSET Nat, S # {}
    PROVE  \E m \in S : \A n \in S : m =< n
  <1>1. IsWellFoundedOn(OpToRel(<, Nat), Nat)
    BY NatLessThanWellFounded
  <1>2. IsWellFoundedOn(Below, Nat)
    BY <1>1, IsWellFoundedOnSubrelation DEF Below, OpToRel
  <1>3. PICK m \in S : \A n \in S : ~ (<<n, m>> \in Below)
    BY <1>2, WFMin
  <1>4. ASSUME NEW n \in S PROVE m =< n
    <2>1. n \in Nat /\ m \in Nat /\ <<n, m>> \notin Below
      BY <1>3
    <2>2. ~ (n < m)
      BY <2>1 DEF Below
    <2> QED BY <2>1, <2>2
  <1> QED BY <1>4

\* What a loop over a table meets first is one of those it looks for.
LEMMA FirstIs ==
    ASSUME NEW S \in SUBSET Nat, S # {}
    PROVE  First(S) \in S /\ \A n \in S : First(S) =< n
  BY Least DEF First

\* f holds what a loop has left after each of its N turns, G being what a turn does.
IsLoop(f, S, N, base, G) ==
    /\ f \in [0 .. N -> S]
    /\ \A n \in 0 .. N : f[n] = IF n = 0 THEN base ELSE G[<<n, f[n - 1]>>]

\* A loop whose turns keep to the values of S ends.
LEMMA LoopExists ==
    ASSUME NEW S, NEW N \in Nat, NEW base \in S, NEW G \in [(1 .. N) \X S -> S]
    PROVE  \E f : IsLoop(f, S, N, base, G)
  <1> DEFINE Runs(m, f) == /\ f \in [0 .. m -> S]
                           /\ \A n \in 0 .. m : f[n] = IF n = 0 THEN base ELSE G[<<n, f[n - 1]>>]
  <1> DEFINE Stuck == {m \in 0 .. N : ~ \E f : Runs(m, f)}
  <1>1. Stuck = {}
    <2> SUFFICES ASSUME Stuck # {} PROVE FALSE
      OBVIOUS
    <2>0. Stuck \in SUBSET Nat
      <3>1. Stuck \subseteq 0 .. N
        BY Zenon
      <3> HIDE DEF Stuck
      <3> QED BY <3>1
    <2>1. PICK m \in Stuck : \A n \in Stuck : m =< n
      <3> HIDE DEF Stuck
      <3> QED BY <2>0, Least
    <2>2. m # 0
      <3> DEFINE start == [n \in 0 .. 0 |-> base]
      <3>1. Runs(0, start)
        <4>1. /\ start \in [0 .. 0 -> S] /\ \A n \in 0 .. 0 : start[n] = base
              /\ \A n \in 0 .. 0 : n = 0
          OBVIOUS
        <4> HIDE DEF start
        <4>2. ASSUME NEW n \in 0 .. 0 PROVE start[n] = IF n = 0 THEN base ELSE G[<<n, start[n - 1]>>]
          <5>1. n = 0
            BY <4>1
          <5> QED BY <4>1, <5>1, Zenon
        <4> QED BY <4>1, <4>2, Zenon
      <3> QED BY <2>1, <3>1
    <2>3. m - 1 \in 0 .. N /\ m - 1 \notin Stuck
      BY <2>1, <2>2
    <2>4. PICK f : Runs(m - 1, f)
      BY <2>3
    <2> DEFINE g == [n \in 0 .. m |-> IF n = m THEN G[<<m, f[m - 1]>>] ELSE f[n]]
    <2>5. m \in 1 .. N /\ f[m - 1] \in S /\ G[<<m, f[m - 1]>>] \in S
      BY <2>1, <2>2, <2>4
    <2>6. g \in [0 .. m -> S]
      BY <2>4, <2>5
    <2>7. ASSUME NEW n \in 0 .. m PROVE g[n] = IF n = 0 THEN base ELSE G[<<n, g[n - 1]>>]
      <3>1. CASE n = m
        <4>1. g[m] = G[<<m, f[m - 1]>>] /\ g[m - 1] = f[m - 1]
          BY <2>5
        <4>2. m # 0
          BY <2>5
        <4> QED BY <3>1, <4>1, <4>2, Zenon
      <3>2. CASE n # m
        <4>1. n \in 0 .. m - 1 /\ g[n] = f[n]
          BY <2>5, <3>2
        <4>2. n # 0 => n - 1 \in 0 .. m /\ n - 1 # m
          BY <2>5, <3>2
        <4>6. n # 0 => g[n - 1] = f[n - 1]
          BY <4>2
        <4>3. f[n] = IF n = 0 THEN base ELSE G[<<n, f[n - 1]>>]
          BY <2>4, <4>1
        <4> HIDE DEF g
        <4>4. CASE n = 0
          BY <4>1, <4>3, <4>4
        <4>5. CASE n # 0
          BY <4>1, <4>6, <4>3, <4>5, Zenon
        <4> QED BY <4>4, <4>5
      <3> QED BY <3>1, <3>2
    <2>8. Runs(m, g)
      BY <2>6, <2>7
    <2> HIDE DEF Runs
    <2> QED BY <2>1, <2>8
  <1>2. PICK f : Runs(N, f)
    BY <1>1
  <1> QED BY <1>2, Zenon DEF IsLoop

\* Induction up to N, for what a set can say.
LEMMA UpTo ==
    ASSUME NEW N \in Nat, NEW T, 0 \in T, \A n \in 1 .. N : n - 1 \in T => n \in T
    PROVE  \A n \in 0 .. N : n \in T
  <1> DEFINE Missed == (0 .. N) \ T
  <1> SUFFICES ASSUME Missed # {} PROVE FALSE
    OBVIOUS
  <1>1. Missed \in SUBSET Nat
    <2>1. Missed \subseteq 0 .. N
      BY Zenon
    <2> HIDE DEF Missed
    <2> QED BY <2>1
  <1>2. PICK m \in Missed : \A n \in Missed : m =< n
    <2> HIDE DEF Missed
    <2> QED BY <1>1, Least
  <1>3. m \in 1 .. N /\ m - 1 \in 0 .. N /\ ~ (m =< m - 1)
    BY <1>2
  <1>4. m - 1 \in T
    BY <1>2, <1>3
  <1> QED BY <1>2, <1>3, <1>4
-----------------------------------------------------------------------------
(* The selection *)

Codecs == [profile : 1 .. 3, level : 0 .. 255]

LEMMA CodecsAreSome == None \notin Codecs
  BY WfdMediaAssumption DEF Codecs

LEMMA LevelType ==
    ASSUME NEW c \in Codecs
    PROVE  c.level \in Nat
  BY DEF Codecs

LEMMA NewFromDescType ==
    ASSUME NEW d \in Descriptors
    PROVE  NewFromDesc(d) \in Codecs \union {None}
  <1>1. d.profile \in Nat /\ d.level \in Nat
    BY WfdMediaAssumption
  <1>2. d.profile % 4 \in 0 .. 3 /\ d.level % 256 \in 0 .. 255
    BY <1>1
  <1> QED BY <1>2 DEF NewFromDesc, Codecs

\* What is read of a line is a list of codecs.
LEMMA ParsedType ==
    ASSUME NEW N \in Nat, NEW d \in [1 .. N -> Descriptors]
    PROVE  Parsed(d) \in Seq(Codecs)
  <1>0. Len(d) = N
    OBVIOUS
  <1> DEFINE IsList(f) == f = [n \in 0 .. Len(d) |->
                                IF n = 0 THEN <<>>
                                ELSE IF NewFromDesc(d[n]) = None THEN f[n - 1]
                                ELSE Append(f[n - 1], NewFromDesc(d[n]))]
  <1> DEFINE list == CHOOSE f : IsList(f)
  <1> DEFINE G == [x \in (1 .. N) \X Seq(Codecs) |->
                    IF NewFromDesc(d[x[1]]) = None THEN x[2] ELSE Append(x[2], NewFromDesc(d[x[1]]))]
  <1>1. Parsed(d) = list[Len(d)]
    BY DEF Parsed
  <1>2. ASSUME NEW n \in 1 .. N PROVE NewFromDesc(d[n]) \in Codecs \union {None}
    BY NewFromDescType
  <1>3. G \in [(1 .. N) \X Seq(Codecs) -> Seq(Codecs)] /\ <<>> \in Seq(Codecs)
    BY <1>2
  <1>4. ASSUME NEW n \in 1 .. N, NEW s \in Seq(Codecs)
        PROVE  G[<<n, s>>] = IF NewFromDesc(d[n]) = None THEN s ELSE Append(s, NewFromDesc(d[n]))
    OBVIOUS
  <1> HIDE DEF G
  <1>5. PICK f : IsLoop(f, Seq(Codecs), N, <<>>, G)
    BY <1>3, LoopExists
  <1>6. IsList(f)
    <2> DEFINE turn == [n \in 0 .. N |-> IF n = 0 THEN <<>>
                                         ELSE IF NewFromDesc(d[n]) = None THEN f[n - 1]
                                         ELSE Append(f[n - 1], NewFromDesc(d[n]))]
    <2>1. ASSUME NEW n \in 0 .. N PROVE f[n] = turn[n]
      <3>1. CASE n = 0
        BY <1>5, <3>1 DEF IsLoop
      <3>2. CASE n # 0
        <4>1. n \in 1 .. N /\ n - 1 \in 0 .. N
          BY <3>2
        <4>2. f[n] = G[<<n, f[n - 1]>>] /\ f[n - 1] \in Seq(Codecs)
          BY <1>5, <3>2, <4>1 DEF IsLoop
        <4> QED BY <1>4, <3>2, <4>1, <4>2
      <3> QED BY <3>1, <3>2
    <2>2. f = turn
      BY <1>5, <2>1 DEF IsLoop
    <2> QED BY <1>0, <2>2
  <1>7. IsList(list)
    BY <1>6
  <1> DEFINE T == {n \in 0 .. N : list[n] \in Seq(Codecs)}
  <1>8. \A n \in 0 .. N : list[n] = IF n = 0 THEN <<>>
                                    ELSE IF NewFromDesc(d[n]) = None THEN list[n - 1]
                                    ELSE Append(list[n - 1], NewFromDesc(d[n]))
    BY <1>0, <1>7
  <1> HIDE DEF list
  <1>9. 0 \in T
    <2>1. 0 \in 0 .. N /\ list[0] = <<>>
      BY <1>8
    <2> QED BY <1>3, <2>1
  <1>10. ASSUME NEW n \in 1 .. N, n - 1 \in T PROVE n \in T
    <2>1. n \in 0 .. N /\ n # 0 /\ list[n - 1] \in Seq(Codecs)
      BY <1>10
    <2>2. list[n] = IF NewFromDesc(d[n]) = None THEN list[n - 1] ELSE Append(list[n - 1], NewFromDesc(d[n]))
      BY <1>8, <2>1
    <2> HIDE DEF T
    <2>3. list[n] \in Seq(Codecs)
      BY <1>2, <2>1, <2>2
    <2> QED BY <2>1, <2>3 DEF T
  <1>11. N \in T
    <2> HIDE DEF T
    <2>1. \A n \in 1 .. N : n - 1 \in T => n \in T
      BY <1>10
    <2>2. \A n \in 0 .. N : n \in T
      BY <1>9, <2>1, UpTo
    <2> QED BY <2>2
  <1> QED BY <1>0, <1>1, <1>11

\* One turn of the loop: a codec of the profile asked for wins, and of two that have the
\* same one that of the higher level.
LEMMA BetterIs ==
    ASSUME NEW codec \in Codecs, NEW item \in Codecs, NEW p
    PROVE  /\ Better(None, item, p) = item
           /\ Better(codec, item, p) \in {codec, item}
           /\ Better(codec, item, p).profile = IF p \in {codec.profile, item.profile} THEN p ELSE codec.profile
           /\ \A c \in {codec, item} : c.profile = Better(codec, item, p).profile
                                          => c.level =< Better(codec, item, p).level
  <1>1. codec # None /\ item # None
    BY CodecsAreSome
  <1>2. codec.level \in Nat /\ item.level \in Nat
    BY DEF Codecs
  <1>3. ~ (item.level > item.level) /\ item.level =< item.level /\ codec.level =< codec.level
    BY <1>2
  <1>4. item.level > codec.level \/ item.level =< codec.level
    BY <1>2
  <1>5. item.level > codec.level => codec.level =< item.level
    BY <1>2
  <1>6. Better(None, item, p) = item
    BY <1>3 DEF Better
  <1>7. CASE codec.profile # item.profile /\ item.profile = p
    <2>1. Better(codec, item, p) = item
      BY <1>1, <1>3, <1>7 DEF Better
    <2> QED BY <1>3, <1>6, <1>7, <2>1
  <1>8. CASE ~ (codec.profile # item.profile /\ item.profile = p)
    <2>1. Better(codec, item, p) = IF codec.profile = item.profile /\ item.level > codec.level THEN item ELSE codec
      BY <1>1, <1>8 DEF Better
    <2> QED BY <1>3, <1>4, <1>5, <1>6, <1>8, <2>1
  <1> QED BY <1>7, <1>8

\* What the loop has after n of its turns, and at its end
IsTurns(best, s, p) ==
    /\ Chosen(s, p) = best[Len(s)]
    /\ \A n \in 0 .. Len(s) : best[n] = IF n = 0 THEN None ELSE Better(best[n - 1], s[n], p)

\* The loop of wfd_client_select_codec_and_resolution has turns.
LEMMA ChosenTurns ==
    ASSUME NEW s \in Seq(Codecs), NEW p
    PROVE  \E best : IsTurns(best, s, p)
  <1> DEFINE N == Len(s)
  <1> DEFINE S == Codecs \union {None}
  <1> DEFINE IsBest(f) == f = [n \in 0 .. Len(s) |-> IF n = 0 THEN None ELSE Better(f[n - 1], s[n], p)]
  <1> DEFINE best == CHOOSE f : IsBest(f)
  <1> DEFINE G == [x \in (1 .. N) \X S |-> Better(x[2], s[x[1]], p)]
  <1>0. N \in Nat /\ \A n \in 1 .. N : s[n] \in Codecs
    OBVIOUS
  <1>1. Chosen(s, p) = best[Len(s)]
    BY DEF Chosen
  <1>2. ASSUME NEW n \in 1 .. N, NEW c \in S PROVE Better(c, s[n], p) \in Codecs
    <2>1. s[n] \in Codecs
      BY <1>0
    <2> QED BY <2>1, BetterIs
  <1>3. G \in [(1 .. N) \X S -> S] /\ None \in S
    BY <1>2
  <1>4. ASSUME NEW n \in 1 .. N, NEW c \in S PROVE G[<<n, c>>] = Better(c, s[n], p)
    OBVIOUS
  <1> HIDE DEF G, S, N
  <1>5. PICK f : IsLoop(f, S, N, None, G)
    BY <1>0, <1>3, LoopExists
  <1>6. IsBest(f)
    <2> DEFINE turn == [n \in 0 .. N |-> IF n = 0 THEN None ELSE Better(f[n - 1], s[n], p)]
    <2>1. ASSUME NEW n \in 0 .. N PROVE f[n] = turn[n]
      <3>1. CASE n = 0
        BY <1>5, <3>1 DEF IsLoop
      <3>2. CASE n # 0
        <4>1. n \in 1 .. N /\ n - 1 \in 0 .. N
          BY <1>0, <3>2
        <4>2. f[n] = G[<<n, f[n - 1]>>] /\ f[n - 1] \in S
          BY <1>5, <3>2, <4>1 DEF IsLoop
        <4> QED BY <1>4, <3>2, <4>1, <4>2
      <3> QED BY <3>1, <3>2
    <2>2. f = turn
      BY <1>5, <2>1 DEF IsLoop
    <2> QED BY <2>2 DEF N
  <1>7. IsBest(best)
    BY <1>6
  <1>8. \A n \in 0 .. N : best[n] = IF n = 0 THEN None ELSE Better(best[n - 1], s[n], p)
    BY <1>7 DEF N
  <1> QED BY <1>1, <1>8 DEF IsTurns, N

\* What the loop has chosen of the first n codecs of s
ChosenOf(c, s, n, p) ==
    /\ \E i \in 1 .. n : c = s[i]
    /\ c.profile = p \/ (c.profile = s[1].profile /\ \A i \in 1 .. n : s[i].profile # p)
    /\ \A i \in 1 .. n : s[i].profile = c.profile => s[i].level =< c.level

\* The loop of wfd_client_select_codec_and_resolution, turn by turn.
LEMMA ChosenIs ==
    ASSUME NEW s \in Seq(Codecs), s # <<>>, NEW p
    PROVE  ChosenOf(Chosen(s, p), s, Len(s), p)
  <1> DEFINE N == Len(s)
  <1>0. N \in Nat /\ N # 0 /\ \A n \in 1 .. N : s[n] \in Codecs
    OBVIOUS
  <1>1. PICK best : IsTurns(best, s, p)
    BY ChosenTurns
  <1>8. \A n \in 0 .. N : best[n] = IF n = 0 THEN None ELSE Better(best[n - 1], s[n], p)
    BY <1>1 DEF IsTurns
  <1> HIDE DEF N
  <1> DEFINE T == {n \in 0 .. N : n # 0 => ChosenOf(best[n], s, n, p)}
  <1>9. 0 \in T
    BY <1>0
  <1>10. ASSUME NEW n \in 1 .. N, n - 1 \in T PROVE n \in T
    <2>0. n \in 0 .. N /\ n # 0 /\ s[n] \in Codecs /\ best[n] = Better(best[n - 1], s[n], p)
      BY <1>0, <1>8
    <2>1. CASE n = 1
      <3>1. best[1] = s[1]
        <4>1. best[0] = None
          BY <1>0, <1>8
        <4> QED BY <2>0, <2>1, <4>1, BetterIs
      <3>2. s[1].level =< s[1].level /\ \A i \in 1 .. 1 : i = 1
        BY <2>0, <2>1, LevelType
      <3>3. ChosenOf(best[1], s, 1, p)
        BY <3>1, <3>2 DEF ChosenOf
      <3> QED BY <2>0, <2>1, <3>3
    <2>2. CASE n # 1
      <3> DEFINE c == best[n - 1]
      <3> DEFINE b == best[n]
      <3>1. ChosenOf(c, s, n - 1, p)
        BY <1>0, <1>10, <2>2
      <3>2. \A i \in 1 .. n : i \in 1 .. n - 1 \/ i = n
        OBVIOUS
      <3>3. 1 .. n - 1 \subseteq 1 .. N /\ 1 .. n - 1 \subseteq 1 .. n /\ n \in 1 .. n
        BY <1>0
      <3>4. c \in Codecs
        BY <1>0, <3>1, <3>3 DEF ChosenOf
      <3>5. /\ b \in {c, s[n]}
            /\ b.profile = IF p \in {c.profile, s[n].profile} THEN p ELSE c.profile
            /\ \A d \in {c, s[n]} : d.profile = b.profile => d.level =< b.level
        BY <2>0, <3>4, BetterIs
      <3> HIDE DEF b, c
      <3>6. \E i \in 1 .. n : b = s[i]
        BY <3>1, <3>3, <3>5 DEF ChosenOf
      <3>7. b.profile = p \/ (b.profile = s[1].profile /\ \A i \in 1 .. n : s[i].profile # p)
        BY <3>1, <3>2, <3>5 DEF ChosenOf
      <3>8. ASSUME NEW i \in 1 .. n, s[i].profile = b.profile PROVE s[i].level =< b.level
        <4>1. CASE i = n
          BY <3>5, <3>8, <4>1
        <4>2. CASE i \in 1 .. n - 1
          <5>1. b.profile = c.profile
            BY <3>1, <3>5, <3>8, <4>2 DEF ChosenOf
          <5>2. s[i].level =< c.level /\ c.level =< b.level
            BY <3>1, <3>5, <3>8, <4>2, <5>1 DEF ChosenOf
          <5>3. s[i].level \in Nat /\ c.level \in Nat /\ b.level \in Nat
            <6>1. s[i] \in Codecs /\ c \in Codecs /\ b \in Codecs
              BY <1>0, <2>0, <3>3, <3>4, <3>5, <4>2
            <6> QED BY <6>1, LevelType
          <5> QED BY <5>2, <5>3
        <4> QED BY <3>2, <4>1, <4>2
      <3>9. ChosenOf(b, s, n, p)
        BY <3>6, <3>7, <3>8 DEF ChosenOf
      <3> QED BY <2>0, <3>9 DEF b
    <2> QED BY <2>1, <2>2
  <1>11. N \in T
    <2> HIDE DEF T
    <2>1. \A n \in 1 .. N : n - 1 \in T => n \in T
      BY <1>10
    <2>2. \A n \in 0 .. N : n \in T
      BY <1>0, <1>9, <2>1, UpTo
    <2> QED BY <1>0, <2>2
  <1>12. ChosenOf(best[N], s, N, p)
    BY <1>0, <1>11
  <1> QED BY <1>1, <1>12 DEF IsTurns, N

\* The set of the codecs of s that have this profile
OfProfile(s, p) == {c \in Range(s) : c.profile = p}

\* Best names one codec: two of the same profile and level are the same.
LEMMA BestOfIs ==
    ASSUME NEW cs \in SUBSET Codecs, NEW p, NEW b \in cs,
           \A c \in cs : c.profile = p /\ c.level =< b.level
    PROVE  BestOf(cs) = b
  <1> DEFINE Is(c) == c \in cs /\ \A d \in cs : d.level =< c.level
  <1>1. ASSUME NEW c, Is(c) PROVE c = b
    <2>1. c.level =< b.level /\ b.level =< c.level /\ c.profile = b.profile
      BY <1>1
    <2>2. c \in Codecs /\ b \in Codecs
      BY <1>1
    <2>3. c.level = b.level
      BY <2>1, <2>2, LevelType
    <2> QED BY <2>1, <2>2, <2>3 DEF Codecs
  <1>2. Is(b)
    OBVIOUS
  <1>3. BestOf(cs) = CHOOSE c : Is(c)
    BY DEF BestOf
  <1> HIDE DEF Is
  <1> QED BY <1>1, <1>2, <1>3

\* What the loop chooses is the best of the list.
LEMMA ChosenIsBest ==
    ASSUME NEW s \in Seq(Codecs), NEW p
    PROVE  Chosen(s, p) = Best(s, p)
  <1>1. CASE s = <<>>
    <2>1. PICK best : IsTurns(best, s, p)
      BY ChosenTurns
    <2>2. Len(s) = 0
      BY <1>1
    <2>3. Chosen(s, p) = None
      BY <2>1, <2>2 DEF IsTurns
    <2> QED BY <1>1, <2>3 DEF Best
  <1>2. CASE s # <<>>
    <2> DEFINE b == Chosen(s, p)
    <2> DEFINE own == OfProfile(s, b.profile)
    <2>1. ChosenOf(b, s, Len(s), p)
      BY <1>2, ChosenIs
    <2> HIDE DEF b
    <2>2. Range(s) = {s[i] : i \in 1 .. Len(s)} /\ Range(s) \subseteq Codecs
      BY DEF Range
    <2>3. own \in SUBSET Codecs /\ b \in own /\ \A c \in own : c.profile = b.profile /\ c.level =< b.level
      BY <2>1, <2>2 DEF ChosenOf, OfProfile
    <2>4. BestOf(own) = b
      BY <2>3, BestOfIs
    <2>5. IF OfProfile(s, p) # {} THEN b.profile = p ELSE b.profile = Head(s).profile
      BY <1>2, <2>1, <2>2, <2>3 DEF ChosenOf, OfProfile
    <2>6. Best(s, p) = IF OfProfile(s, p) # {} THEN BestOf(OfProfile(s, p)) ELSE BestOf(OfProfile(s, Head(s).profile))
      BY <1>2 DEF Best, OfProfile
    <2> QED BY <2>4, <2>5, <2>6 DEF b
  <1> QED BY <1>1, <1>2

\* What the selection is made from, and what it leaves in the parameters
HasLists(p) ==
    /\ {"video_codecs", "audio_codecs", "selected_codec", "selected_audio"} \subseteq DOMAIN p
    /\ p.video_codecs \in Seq(Codecs) /\ p.selected_audio \in BOOLEAN

\* A selection goes with the list it was made from: without codecs none is selected,
\* and audio only if the list has it, or the client is an ordinary one.
Current(p) ==
    /\ p.video_codecs = <<>> => p.selected_codec = None
    /\ p.selected_audio /\ ~ plain => "stereo" \in p.audio_codecs

SelectedInv ==
    /\ answers \in Nat
    /\ plain => answers = 0 /\ ~ reading
    /\ HasLists(params) /\ Current(params)
    /\ Selected

LEMMA SelectedInit == Init => SelectedInv
  <1> SUFFICES ASSUME Init PROVE SelectedInv
    OBVIOUS
  <1>1. DefaultCodec \in Codecs /\ <<DefaultCodec>> \in Seq(Codecs) /\ <<DefaultCodec>> # <<>>
    <2>1. DefaultCodec \in Codecs
      BY DEF DefaultCodec, Codecs, BASE
    <2> QED BY <2>1
  <1>2. HasLists(params)
    BY <1>1 DEF Init, HasLists
  <1>3. params.video_codecs # <<>> /\ params.selected_audio = FALSE /\ answers = 0 /\ plain = FALSE
    BY <1>1 DEF Init
  <1> QED BY <1>2, <1>3, SMT DEF SelectedInv, Current, Selected

\* A line of an answer
LEMMA LineStep ==
    ASSUME SelectedInv, NEW p, Reads(p), HasLists(p), Current(p)
    PROVE  SelectedInv'
  BY SMT DEF SelectedInv, Selected, Reads, search, HasLists, Current

\* The rest of the answer
LEMMA SelectStep ==
    ASSUME SelectedInv, Select
    PROVE  SelectedInv'
  <1> DEFINE codec == Chosen(params.video_codecs, BASE)
  <1> DEFINE stereo == "stereo" \in params.audio_codecs
  <1>1. codec = Best(params.video_codecs, BASE)
    BY ChosenIsBest DEF SelectedInv, HasLists
  <1>2. params.video_codecs = <<>> => codec = None /\ params.selected_codec = None
    BY <1>1 DEF Best, SelectedInv, Current
  <1>3. reading /\ ~ plain /\ UNCHANGED plain /\ reading' = FALSE /\ answers' = answers + 1
    BY DEF Select, search, SelectedInv
  <1>4. params.selected_audio => stereo
    BY <1>3 DEF SelectedInv, Current
  <1>5. params' = [params EXCEPT !.selected_codec = IF codec = None THEN @ ELSE codec,
                                 !.selected_resolution = FullHD,
                                 !.selected_audio = @ \/ stereo]
    BY DEF Select
  <1> HIDE DEF codec, stereo
  <1>6. /\ HasLists(params')
        /\ params'.video_codecs = params.video_codecs /\ params'.audio_codecs = params.audio_codecs
        /\ params'.selected_codec = (IF codec = None THEN params.selected_codec ELSE codec)
        /\ params'.selected_audio = (params.selected_audio \/ stereo)
    BY <1>5 DEF SelectedInv, HasLists
  <1>7. params'.selected_codec = codec
    <2>1. CASE params.video_codecs = <<>>
      BY <1>2, <1>6, <2>1
    <2>2. CASE params.video_codecs # <<>>
      <3> DEFINE s == params.video_codecs
      <3>1. s \in Seq(Codecs) /\ s # <<>>
        BY <2>2 DEF SelectedInv, HasLists
      <3>2. ChosenOf(codec, s, Len(s), BASE)
        BY <3>1, ChosenIs DEF codec
      <3>3. \A i \in 1 .. Len(s) : s[i] \in Codecs
        BY <3>1
      <3>4. codec \in Codecs
        BY <3>2, <3>3 DEF ChosenOf
      <3> QED BY <1>6, <3>4, CodecsAreSome
    <2> QED BY <2>1, <2>2
  <1>8. params'.selected_audio <=> "stereo" \in params'.audio_codecs
    BY <1>4, <1>6 DEF stereo
  <1>9. params'.selected_codec = Best(params'.video_codecs, BASE)
    BY <1>1, <1>6, <1>7
  <1>10. Current(params)'
    BY <1>2, <1>6, <1>7, <1>8 DEF Current
  <1>11. Selected'
    BY <1>8, <1>9 DEF Selected
  <1> QED BY <1>3, <1>6, <1>10, <1>11 DEF SelectedInv

LEMMA SelectedStep == SelectedInv /\ [Next]_vars => SelectedInv'
  <1> SUFFICES ASSUME SelectedInv, [Next]_vars PROVE SelectedInv'
    OBVIOUS
  <1>1. ASSUME UNCHANGED <<params, answers, plain>>, reading' = reading \/ (reading' = TRUE /\ ~ plain)
        PROVE  SelectedInv'
    BY <1>1 DEF SelectedInv, Selected, HasLists, Current
  <1>2. ASSUME NEW p \in Ports, Reads(RtpPorts(p[1], p[2])) PROVE SelectedInv'
    <2>1. HasLists(RtpPorts(p[1], p[2])) /\ Current(RtpPorts(p[1], p[2]))
      BY DEF RtpPorts, SelectedInv, HasLists, Current
    <2> QED BY <1>2, <2>1, LineStep
  <1>3. ASSUME NEW n \in 0 .. MaxCodecs, NEW d \in [1 .. n -> Descriptors], Reads(VideoFormats(d))
        PROVE  SelectedInv'
    <2>1. Parsed(d) \in Seq(Codecs)
      BY ParsedType, WfdMediaAssumption
    <2>2. HasLists(VideoFormats(d)) /\ Current(VideoFormats(d))
      BY <2>1 DEF VideoFormats, SelectedInv, HasLists, Current
    <2> QED BY <1>3, <2>2, LineStep
  <1>4. ASSUME NEW c, Reads(AudioCodecs(c)) PROVE SelectedInv'
    <2>1. HasLists(AudioCodecs(c)) /\ Current(AudioCodecs(c))
      BY DEF AudioCodecs, SelectedInv, HasLists, Current
    <2> QED BY <1>4, <2>1, LineStep
  <1>5. CASE Select
    BY <1>5, SelectStep
  <1>6. CASE BecomePlain
    BY <1>6 DEF BecomePlain, SelectedInv, Selected, HasLists, Current
  <1>7. CASE SetParams
    <2>1. UNCHANGED <<params, reading, answers, plain>>
      BY <1>7 DEF SetParams
    <2> QED BY <2>1 DEF SelectedInv, Selected, HasLists, Current
  <1>8. CASE StartStream \/ BeginsToRead \/ Configure
    <2>1. UNCHANGED <<params, answers, plain>> /\ (reading' = reading \/ (reading' = TRUE /\ ~ plain))
      <3>1. CASE BeginsToRead
        BY <3>1 DEF BeginsToRead
      <3>2. CASE ~ BeginsToRead
        BY <1>8, <3>2, ClientKept
      <3> QED BY <3>1, <3>2
    <2> QED BY <1>1, <2>1
  <1>9. ASSUME NEW e, Installs(e) PROVE SelectedInv'
    BY <1>1, <1>9 DEF Installs, client
  <1>10. ASSUME NEW a \in BOOLEAN, NEW v \in BOOLEAN, CreatePipeline(a) \/ CreateCast(v, a) PROVE SelectedInv'
    BY <1>1, <1>10 DEF CreatePipeline, CreateCast, client
  <1>11. CASE UNCHANGED vars
    BY <1>1, <1>11 DEF vars, client
  <1> QED BY <1>2, <1>3, <1>4, <1>5, <1>6, <1>7, <1>8, <1>9, <1>10, <1>11 DEF Next, ReadLine

\* After each answer the selection is the best of the lists it has left behind.
THEOREM AlwaysSelected == Spec => []Selected
  <1>1. SelectedInv => Selected
    BY DEF SelectedInv
  <1> QED BY <1>1, SelectedInit, SelectedStep, PTL DEF Spec
-----------------------------------------------------------------------------
(* What the user is asked to install *)

\* A row that is installed is found, or one before it.
LEMMA RowFound ==
    ASSUME NEW profiles, NEW n \in Nat, DOMAIN profiles = 1 .. n, NEW there, NEW i \in 1 .. n,
           \A e \in {profiles[i].video, profiles[i].audio, profiles[i].muxer} : Present(there, e)
    PROVE  ProfilePresent(profiles, profiles[i].profile, there) # 0
  <1> DEFINE fits == {j \in DOMAIN profiles :
                        /\ profiles[j].profile = profiles[i].profile
                        /\ \A e \in {profiles[j].video, profiles[j].audio, profiles[j].muxer} :
                               Present(there, e)}
  <1>1. i \in fits
    OBVIOUS
  <1>2. fits \subseteq 1 .. n
    OBVIOUS
  <1>3. ProfilePresent(profiles, profiles[i].profile, there) = IF fits = {} THEN 0 ELSE First(fits)
    BY Zenon DEF ProfilePresent
  <1> HIDE DEF fits
  <1>4. fits \in SUBSET Nat
    BY <1>2
  <1>5. First(fits) \in fits
    BY <1>1, <1>4, FirstIs
  <1> QED BY <1>1, <1>2, <1>3, <1>5

\* A lookup succeeds if one of its profiles is present.
LEMMA LookupFinds ==
    ASSUME NEW profiles, NEW order, NEW n \in Nat, DOMAIN order = 1 .. n, NEW there, NEW i \in 1 .. n,
           ProfilePresent(profiles, order[i], there) # 0
    PROVE  FirstPresent(profiles, order, there) # 0
  <1> DEFINE present == {j \in DOMAIN order : ProfilePresent(profiles, order[j], there) # 0}
  <1>1. i \in present
    OBVIOUS
  <1>2. present \subseteq 1 .. n
    OBVIOUS
  <1>3. FirstPresent(profiles, order, there)
          = IF present = {} THEN 0 ELSE ProfilePresent(profiles, order[First(present)], there)
    BY Zenon DEF FirstPresent
  <1> HIDE DEF present
  <1>4. present \in SUBSET Nat
    BY <1>2
  <1>5. First(present) \in present
    BY <1>1, <1>4, FirstIs
  <1> QED BY <1>1, <1>3, <1>5 DEF present

\* Two tables, one behind the other
LEMMA Joined ==
    ASSUME NEW m \in Nat, NEW n \in Nat, NEW s, NEW t,
           s = [i \in 1 .. m |-> s[i]], t = [i \in 1 .. n |-> t[i]]
    PROVE  /\ DOMAIN (s \o t) = 1 .. m + n
           /\ (s \o t) = [i \in 1 .. m + n |-> (s \o t)[i]]
           /\ \A i \in 1 .. m : (s \o t)[i] = s[i]
           /\ \A i \in 1 .. n : (s \o t)[m + i] = t[i]
  <1> DEFINE S == {s[i] : i \in 1 .. m} \union {t[i] : i \in 1 .. n}
  <1>1. s \in [1 .. m -> S] /\ t \in [1 .. n -> S]
    OBVIOUS
  <1> HIDE DEF S
  <1>2. s \in Seq(S) /\ Len(s) = m /\ t \in Seq(S) /\ Len(t) = n
    BY <1>1
  <1> QED BY <1>2, SMTT(30)

\* The rows without audio, one for every encoder
LEMMA WfdRows ==
    /\ DOMAIN WfdProfiles = 1 .. 16
    /\ WfdProfiles[4] = Row("high", "vah264", "none", "mpegts")
    /\ WfdProfiles[8] = Row("high", "vaapih264", "none", "mpegts")
    /\ WfdProfiles[12] = Row("high", "x264", "none", "mpegts")
    /\ WfdProfiles[16] = Row("base", "openh264", "none", "mpegts")
  <1> DEFINE videos == <<"vah264", "vaapih264", "x264">>
  <1> DEFINE audios == <<"fdk", "avenc", "faac", "none">>
  <1> DEFINE high == Rows("high", videos, audios, "mpegts")
  <1> DEFINE base == Rows("base", <<"openh264">>, audios, "mpegts")
  <1>1. /\ high = [i \in 1 .. 12 |-> Row("high", videos[((i - 1) \div 4) + 1], audios[((i - 1) % 4) + 1], "mpegts")]
        /\ base = [i \in 1 .. 4 |-> Row("base", <<"openh264">>[((i - 1) \div 4) + 1], audios[((i - 1) % 4) + 1], "mpegts")]
    BY DEF Rows
  <1>2. /\ high[4] = Row("high", "vah264", "none", "mpegts")
        /\ high[8] = Row("high", "vaapih264", "none", "mpegts")
        /\ high[12] = Row("high", "x264", "none", "mpegts")
        /\ base[4] = Row("base", "openh264", "none", "mpegts")
    BY <1>1
  <1>3. high = [i \in 1 .. 12 |-> high[i]] /\ base = [i \in 1 .. 4 |-> base[i]]
    BY <1>1
  <1>4. WfdProfiles = high \o base
    BY DEF WfdProfiles
  <1> HIDE DEF high, base
  <1>5. /\ DOMAIN (high \o base) = 1 .. 12 + 4
        /\ \A i \in 1 .. 12 : (high \o base)[i] = high[i]
        /\ \A i \in 1 .. 4 : (high \o base)[12 + i] = base[i]
    BY <1>3, Joined
  <1>6. 4 \in 1 .. 12 /\ 8 \in 1 .. 12 /\ 12 \in 1 .. 12 /\ 4 \in 1 .. 4 /\ 12 + 4 = 16
    OBVIOUS
  <1>7. (high \o base)[16] = base[4] /\ DOMAIN (high \o base) = 1 .. 16
    BY <1>5, <1>6, Zenon
  <1>8. (high \o base)[4] = high[4] /\ (high \o base)[8] = high[8] /\ (high \o base)[12] = high[12]
    BY <1>5, <1>6, Zenon
  <1> QED BY <1>2, <1>4, <1>7, <1>8, Zenon

\* The row with x264 and nothing to hear
LEMMA CastRow ==
    /\ \E n \in Nat : DOMAIN CastProfiles = 1 .. n /\ 15 \in 1 .. n
    /\ CastProfiles[15] = Row("high", "x264", "none", "matroska")
  <1> DEFINE videos == <<"vah264", "vaapih264", "x264">>
  <1> DEFINE audios == <<"opus", "fdk", "avenc", "faac", "none">>
  <1> DEFINE high == Rows("high", videos, audios, "matroska")
  <1> DEFINE sounds == <<Row("vorbis", "none", "vorbis", "webm"), Row("vorbis", "none", "vorbis", "matroska"),
                         Row("opus", "none", "opus", "webm"), Row("opus", "none", "opus", "matroska")>>
  <1> DEFINE aac == Rows("aac", <<"none">>, <<"fdk", "avenc", "faac">>, "matroska")
  <1>1. /\ high = [i \in 1 .. 15 |-> Row("high", videos[((i - 1) \div 5) + 1], audios[((i - 1) % 5) + 1], "matroska")]
        /\ aac = [i \in 1 .. 3 |-> Row("aac", <<"none">>[((i - 1) \div 3) + 1],
                                       <<"fdk", "avenc", "faac">>[((i - 1) % 3) + 1], "matroska")]
    BY DEF Rows
  <1>2. high[15] = Row("high", "x264", "none", "matroska")
    BY <1>1
  <1>3. high = [i \in 1 .. 15 |-> high[i]] /\ aac = [i \in 1 .. 3 |-> aac[i]]
    BY <1>1
  <1>4. sounds = [i \in 1 .. 4 |-> sounds[i]]
    OBVIOUS
  <1>5. CastProfiles = high \o sounds \o aac
    BY DEF CastProfiles
  <1> HIDE DEF high, sounds, aac
  <1> DEFINE both == high \o sounds
  <1>6. both = [i \in 1 .. 15 + 4 |-> both[i]] /\ \A i \in 1 .. 15 : both[i] = high[i]
    BY <1>3, <1>4, Joined, SMTT(30)
  <1>7. 15 + 4 = 19 /\ 15 \in 1 .. 15 /\ 15 \in 1 .. 19 /\ 19 + 3 = 22 /\ 15 \in 1 .. 22 /\ 22 \in Nat
    OBVIOUS
  <1>8. both = [i \in 1 .. 19 |-> both[i]]
    BY <1>6, <1>7, Zenon
  <1>9. both[15] = high[15]
    BY <1>6, <1>7, Zenon
  <1> HIDE DEF both
  <1>10. DOMAIN (both \o aac) = 1 .. 19 + 3 /\ \A i \in 1 .. 19 : (both \o aac)[i] = both[i]
    BY <1>3, <1>8, Joined
  <1> QED BY <1>2, <1>5, <1>7, <1>9, <1>10, Zenon DEF both

\* One of the encoders and the muxer are all that a display needs, and all that is named
\* when it is missing.
LEMMA WfdComplete ==
    ASSUME NEW there, {"vah264", "vaapih264", "x264", "openh264"} \cap there # {}, "mpegts" \in there
    PROVE  WfdLookup(there) # 0
  <1> DEFINE order == <<"high", "base">>
  <1>1. ASSUME NEW i \in {4, 8, 12, 16}, WfdProfiles[i].video \in there,
               WfdProfiles[i].audio = "none", WfdProfiles[i].muxer = "mpegts"
        PROVE  ProfilePresent(WfdProfiles, WfdProfiles[i].profile, there) # 0
    <2>1. i \in 1 .. 16 /\ 16 \in Nat
      OBVIOUS
    <2>2. \A e \in {WfdProfiles[i].video, WfdProfiles[i].audio, WfdProfiles[i].muxer} : Present(there, e)
      BY <1>1 DEF Present
    <2> QED BY <2>1, <2>2, RowFound, WfdRows
  <1>2. ProfilePresent(WfdProfiles, "high", there) # 0 \/ ProfilePresent(WfdProfiles, "base", there) # 0
    BY <1>1, WfdRows DEF Row
  <1>3. DOMAIN order = 1 .. 2 /\ order[1] = "high" /\ order[2] = "base" /\ 2 \in Nat /\ 1 \in 1 .. 2 /\ 2 \in 1 .. 2
    OBVIOUS
  <1> HIDE DEF order
  <1>4. FirstPresent(WfdProfiles, order, there) # 0
    BY <1>2, <1>3, LookupFinds
  <1> QED BY <1>4 DEF WfdLookup, order

LEMMA CastComplete ==
    ASSUME NEW there, "x264" \in there, "matroska" \in there
    PROVE  CastLookup(there) # 0
  <1> DEFINE order == <<"high", "vp8", "vorbis", "opus", "aac">>
  <1>1. \A e \in {CastProfiles[15].video, CastProfiles[15].audio, CastProfiles[15].muxer} : Present(there, e)
    BY CastRow DEF Present, Row
  <1>2. CastProfiles[15].profile = "high"
    BY CastRow DEF Row
  <1>3. PICK n \in Nat : DOMAIN CastProfiles = 1 .. n /\ 15 \in 1 .. n
    BY CastRow
  <1>4. ProfilePresent(CastProfiles, "high", there) # 0
    BY <1>1, <1>2, <1>3, RowFound
  <1>5. DOMAIN order = 1 .. 5 /\ order[1] = "high" /\ 5 \in Nat /\ 1 \in 1 .. 5
    OBVIOUS
  <1> HIDE DEF order
  <1>6. FirstPresent(CastProfiles, order, there) # 0
    BY <1>4, <1>5, LookupFinds
  <1> QED BY <1>6 DEF CastLookup, order

Encoders == IF server = "wfd" THEN {"vah264", "vaapih264", "x264", "openh264"} ELSE {"x264"}

Muxer == IF server = "wfd" THEN "mpegts" ELSE "matroska"

\* The user is asked for an encoder once at most, and then for the muxer.
RepairInv ==
    /\ server \in {"wfd", "cast"}
    /\ rounds \in 0 .. 2
    /\ row # 0 => named = {}
    /\ named # {} =>
           /\ rounds >= 1
           /\ \/ rounds = 1 /\ named \subseteq Encoders
              \/ Encoders \cap installed # {} /\ named = {Muxer}
    /\ row = 0 /\ named = {} =>
           /\ rounds >= 1 => Encoders \cap installed # {}
           /\ rounds = 2 => Muxer \in installed

\* When the lookup fails, something is missing, and that is what is named.
LEMMA LookupNames ==
    ASSUME server \in {"wfd", "cast"}, row' = 0,
           row' = IF server = "wfd" THEN WfdLookup(installed) ELSE CastLookup(installed),
           named' = IF row' # 0 THEN {}
                    ELSE IF server = "wfd" THEN WfdMissingVideo(installed)
                    ELSE CastMissingVideo(installed)
    PROVE  IF Encoders \cap installed = {} THEN named' = Encoders
           ELSE Muxer \notin installed /\ named' = {Muxer}
  <1>1. CASE server = "wfd"
    <2>1. Encoders \cap installed = {} \/ "mpegts" \notin installed
      BY <1>1, WfdComplete DEF Encoders
    <2>2. named' = WfdMissingVideo(installed)
      BY <1>1
    <2> QED BY <1>1, <2>1, <2>2 DEF WfdMissingVideo, AllUnlessOne, Encoders, Muxer
  <1>2. CASE server = "cast"
    <2>1. "x264" \notin installed \/ "matroska" \notin installed
      BY <1>2, CastComplete
    <2>2. named' = CastMissingVideo(installed)
      BY <1>2
    <2> QED BY <1>2, <2>1, <2>2 DEF CastMissingVideo, Encoders, Muxer
  <1> QED BY <1>1, <1>2

LEMMA RepairStep == RepairInv /\ [Next]_vars => RepairInv'
  <1> SUFFICES ASSUME RepairInv, [Next]_vars PROVE RepairInv'
    OBVIOUS
  <1>1. CASE UNCHANGED search
    BY <1>1 DEF search, RepairInv, Encoders, Muxer
  <1>2. CASE StartStream
    <2>1. /\ row = 0 /\ named = {} /\ UNCHANGED <<server, installed>>
          /\ row' = IF server = "wfd" THEN WfdLookup(installed) ELSE CastLookup(installed)
          /\ named' = IF row' # 0 THEN {}
                      ELSE IF server = "wfd" THEN WfdMissingVideo(installed)
                      ELSE CastMissingVideo(installed)
          /\ rounds' = IF row' = 0 THEN rounds + 1 ELSE rounds
      BY <1>2 DEF StartStream
    <2>2. CASE row' # 0
      BY <2>1, <2>2 DEF RepairInv, Encoders, Muxer
    <2>3. CASE row' = 0
      <3>1. IF Encoders \cap installed = {} THEN named' = Encoders
            ELSE Muxer \notin installed /\ named' = {Muxer}
        BY <2>1, <2>3, LookupNames DEF RepairInv
      <3>2. rounds' = rounds + 1 /\ Encoders' = Encoders /\ Muxer' = Muxer /\ Encoders # {}
        BY <2>1, <2>3 DEF Encoders, Muxer
      <3>3. CASE Encoders \cap installed = {}
        <4>1. rounds = 0
          BY <2>1, <3>3 DEF RepairInv
        <4> QED BY <2>1, <2>3, <3>1, <3>2, <3>3, <4>1 DEF RepairInv
      <3>4. CASE Encoders \cap installed # {}
        <4>1. rounds \in 0 .. 1
          BY <2>1, <3>1, <3>4 DEF RepairInv
        <4>2. rounds' \in 1 .. 2
          BY <3>2, <4>1
        <4> QED BY <2>1, <2>3, <3>1, <3>2, <3>4, <4>2 DEF RepairInv
      <3> QED BY <3>3, <3>4
    <2> QED BY <2>2, <2>3
  <1>3. ASSUME NEW e \in named, Installs(e) PROVE RepairInv'
    <2>1. /\ installed' = installed \cup {e} /\ named' = {} /\ UNCHANGED <<server, rounds, row>>
          /\ Encoders' = Encoders /\ Muxer' = Muxer
      BY <1>3 DEF Installs, Encoders, Muxer
    <2>2. CASE rounds = 1 /\ named \subseteq Encoders
      BY <1>3, <2>1, <2>2 DEF RepairInv
    <2>3. CASE Encoders \cap installed # {} /\ named = {Muxer}
      BY <1>3, <2>1, <2>3 DEF RepairInv
    <2> QED BY <2>2, <2>3 DEF RepairInv
  <1>4. CASE BeginsToRead \/ Select \/ BecomePlain \/ SetParams \/ Configure
    BY <1>1, <1>4 DEF BeginsToRead, Select, BecomePlain, SetParams, Configure, search
  <1>5. ASSUME NEW p, Reads(p) PROVE RepairInv'
    BY <1>1, <1>5 DEF Reads
  <1>6. ASSUME NEW a \in BOOLEAN, NEW v \in BOOLEAN, CreatePipeline(a) \/ CreateCast(v, a) PROVE RepairInv'
    BY <1>1, <1>6 DEF CreatePipeline, CreateCast
  <1>7. CASE UNCHANGED vars
    BY <1>1, <1>7 DEF vars
  <1> QED BY <1>2, <1>3, <1>4, <1>5, <1>6, <1>7 DEF Next, ReadLine

\* A user who installs what is named, whichever of it, is asked twice at most.
THEOREM AlwaysRepairable == Spec => []Repairable
  <1>1. Init => RepairInv
    BY DEF Init, RepairInv
  <1>2. RepairInv => Repairable
    BY DEF RepairInv, Repairable
  <1> QED BY <1>1, <1>2, RepairStep, PTL DEF Spec
=============================================================================
