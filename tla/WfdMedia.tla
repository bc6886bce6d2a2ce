------------------------------ MODULE WfdMedia ------------------------------
(***************************************************************************)
(* What a stream is made of: the elements a server finds (MediaFactory),   *)
(* the parameters a Wi-Fi Display sink answers with (wfd-params.c), the    *)
(* codec that is selected of them and what the sink is told of it          *)
(* (wfd-client.c, wfd-video-codec.c), and the pipeline.                    *)
(*                                                                         *)
(* The answer is read line by line on the thread of the RTSP server, while *)
(* the main loop may describe the selection to the sink.  When an answer   *)
(* comes and what it follows is in WfdHandshake.                           *)
(***************************************************************************)
EXTENDS MediaFactory

CONSTANTS
    None,
    Descriptors,   \* the descriptions of video codecs a sink may send
    MaxCodecs,     \* bound: descriptions in one line
    Ports,         \* pairs of RTP ports a sink may send
    MaxAnswers,    \* bound: answers to GET_PARAMETER
    Followed       \* bound: the installations whose streams are followed

ASSUME WfdMediaAssumption ==
    /\ None \notin [profile : Nat, level : Nat]
    /\ Descriptors \subseteq [profile : Nat, level : Nat]
    /\ Ports \subseteq Nat \X Nat
    /\ MaxCodecs \in Nat /\ MaxAnswers \in Nat

VARIABLES
    server,      \* "wfd" or "cast"
    installed,   \* the elements that are installed
    named,       \* the elements the user was asked to install
    rounds,      \* how often the user was asked
    row,         \* self->factory_profile, 0 without a stream
    pipeline,    \* the elements, see CreatePipeline, or None
    aborted,     \* the process has ended: g_error, or a null pointer
    params,      \* self->params
    reading,     \* wfd_params_from_sink runs
    answers,     \* how many answers were read
    idles,       \* wfd_client_idle_set_params is queued
    told,        \* what SET_PARAMETER said of the selection, or None
    plain        \* CONNECTION_TYPE_RTSP

search == <<server, installed, named, rounds, row>>
client == <<params, reading, answers, idles, told, plain>>
vars == <<search, pipeline, aborted, client>>

BASE == 1
HIGH == 2

FullHD == <<1920, 1080, 30>>

PortSpan == 65536   \* the values of a guint16
-----------------------------------------------------------------------------
(* The elements. *)

\* nd_*_sink_start_stream looks for the elements.
StartStream ==
    /\ row = 0 /\ named = {} /\ aborted = "no"
    /\ row' = IF server = "wfd" THEN WfdLookup(installed) ELSE CastLookup(installed)
    /\ named' = IF row' # 0 THEN {}
                ELSE IF server = "wfd" THEN WfdMissingVideo(installed)
                ELSE CastMissingVideo(installed)
    /\ rounds' = IF row' = 0 THEN rounds + 1 ELSE rounds
    /\ UNCHANGED <<server, installed, pipeline, aborted, client>>

\* The user installs one of what is named, and starts the program again.
Installs(element) ==
    /\ element \in named
    /\ installed' = installed \cup {element}
    /\ named' = {}
    /\ UNCHANGED <<server, rounds, row, pipeline, aborted, client>>

Streams == row # 0 /\ installed \in Followed /\ aborted = "no"

\* wfd_media_factory_create_video_element: until it is configured it encodes "base".
WfdVideo(r) == [encoder |-> r.video, profile |-> BASE]

\* wfd_media_factory_create_audio_element: nothing without an encoder or a source;
\* else it is locked.
WfdAudio(r, source) == IF r.audio = "none" \/ ~ source THEN "none" ELSE "locked"

\* wfd_media_factory_create_element
CreatePipeline(audio) ==
    /\ Streams /\ server = "wfd" /\ pipeline = None
    /\ pipeline' = [video |-> WfdVideo(WfdProfiles[row]), audio |-> WfdAudio(WfdProfiles[row], audio),
                    configured |-> FALSE, bitrate |-> 0]
    /\ UNCHANGED <<search, aborted, client>>

\* cc_media_factory_create_video_element
CastVideo(r, source) == IF r.video = "none" \/ ~ source THEN "none" ELSE r.video

\* cc_media_factory_create_audio_element
CastAudio(r, source) == IF r.audio = "none" \/ ~ source THEN "none" ELSE r.audio

\* cc_media_factory_create_element: g_error ends the process if there is nothing to send.
CreateCast(video, audio) ==
    /\ Streams /\ server = "cast" /\ pipeline = None
    /\ LET r == CastProfiles[row]
       IN IF CastVideo(r, video) = "none" /\ CastAudio(r, audio) = "none"
          THEN aborted' = "nothing to send" /\ UNCHANGED pipeline
          ELSE /\ pipeline' = [video |-> CastVideo(r, video), audio |-> CastAudio(r, audio), muxer |-> r.muxer]
               /\ UNCHANGED aborted
    /\ UNCHANGED <<search, client>>
-----------------------------------------------------------------------------
(* wfd_params_from_sink, line by line. *)

BeginsToRead ==
    /\ Streams /\ server = "wfd" /\ ~ plain
    /\ ~ reading /\ answers < MaxAnswers
    /\ reading' = TRUE
    /\ UNCHANGED <<search, pipeline, aborted, params, answers, idles, told, plain>>

Reads(p) ==
    /\ Streams /\ reading
    /\ params' = p
    /\ UNCHANGED <<search, pipeline, aborted, reading, answers, idles, told, plain>>

\* A secondary port that is missing or is the primary one is replaced.  The flag says
\* so for good.
RtpPorts(primary, secondary) ==
    LET first == primary % PortSpan
        second == secondary % PortSpan
    IN IF second \in {0, first}
       THEN [params EXCEPT !.primary = first, !.secondary = (first + 1) % PortSpan,
                           !.rtcp_port_invalid = TRUE]
       ELSE [params EXCEPT !.primary = first, !.secondary = second]

\* wfd_video_codec_new_from_desc: a guint8 for the level; None without a known profile.
NewFromDesc(d) ==
    IF d.profile % 4 = 0 THEN None ELSE [profile |-> d.profile % 4, level |-> d.level % 256]

\* The list that is filled with the codecs that can be parsed
Parsed(descriptors) ==
    LET list[n \in 0 .. Len(descriptors)] ==
            IF n = 0 THEN <<>>
            ELSE IF NewFromDesc(descriptors[n]) = None THEN list[n - 1]
            ELSE Append(list[n - 1], NewFromDesc(descriptors[n]))
    IN list[Len(descriptors)]

\* "wfd_video_formats": the selection goes with the list; "none" leaves it empty.
VideoFormats(descriptors) ==
    [params EXCEPT !.selected_codec = None, !.selected_resolution = None,
                   !.video_codecs = Parsed(descriptors)]

\* "wfd_audio_codecs".  "stereo": AAC with 48 kHz and two channels.
AudioCodecs(codecs) == [params EXCEPT !.selected_audio = FALSE, !.audio_codecs = codecs]

ReadLine ==
    \/ \E p \in Ports : Reads(RtpPorts(p[1], p[2]))
    \/ \E n \in 0 .. MaxCodecs : \E d \in [1 .. n -> Descriptors] : Reads(VideoFormats(d))
    \/ \E c \in SUBSET {"stereo", "other"} : Reads(AudioCodecs(c))
-----------------------------------------------------------------------------
(* wfd_client_select_codec_and_resolution. *)

\* Mutant of Better: the level decides, whatever the profile.
BetterByLevel(codec, item, profile) ==
    LET first == IF codec = None THEN item ELSE codec
    IN IF item.level > first.level THEN item ELSE first

\* One turn of its loop: the first codec, then one of the profile asked for, then a
\* higher level of the same profile.
Better(codec, item, profile) ==
    LET first == IF codec = None THEN item ELSE codec
        asked == IF first.profile # item.profile /\ item.profile = profile THEN item ELSE first
    IN IF asked.profile = item.profile /\ item.level > asked.level THEN item ELSE asked

\* What the loop has left after each codec, and at its end
Chosen(codecs, profile) ==
    LET best[n \in 0 .. Len(codecs)] ==
            IF n = 0 THEN None ELSE Better(best[n - 1], codecs[n], profile)
    IN best[Len(codecs)]

\* The rest of wfd_client_handle_response for M3.  The codec stays as it is if there is
\* none to choose, the resolution is always the same.
Select ==
    /\ Streams /\ reading
    /\ reading' = FALSE
    /\ answers' = answers + 1
    /\ idles' = idles + 1
    /\ LET codec == Chosen(params.video_codecs, BASE)
       IN params' = [params EXCEPT !.selected_codec = IF codec = None THEN @ ELSE codec,
                                   !.selected_resolution = FullHD,
                                   !.selected_audio = @ \/ "stereo" \in params.audio_codecs]
    /\ UNCHANGED <<search, pipeline, aborted, told, plain>>

\* wfd_client_pre_options_request takes the client for an ordinary one.
BecomePlain ==
    /\ Streams /\ server = "wfd"
    /\ answers = 0 /\ ~ reading /\ ~ plain
    /\ plain' = TRUE
    /\ params' = [params EXCEPT !.selected_audio = TRUE]
    /\ UNCHANGED <<search, pipeline, aborted, reading, answers, idles, told>>

\* wfd_client_set_params, on the main loop: it reads through both pointers.
SetParams ==
    /\ Streams /\ idles > 0
    /\ idles' = idles - 1
    /\ IF None \in {params.selected_codec, params.selected_resolution}
       THEN aborted' = "selection missing" /\ UNCHANGED told
       ELSE /\ told' = [profile |-> params.selected_codec.profile, audio |-> params.selected_audio]
            /\ UNCHANGED aborted
    /\ UNCHANGED <<search, pipeline, params, reading, answers, plain>>
-----------------------------------------------------------------------------
(* wfd_client_configure_client_media, while SETUP is handled. *)

\* wfd_video_codec_get_max_bitrate_kbit
MaxBitrate(codec) ==
    LET bitrate == CASE codec.level \in {2, 4} -> 20000
                     [] codec.level \in {8, 16} -> 50000
                     [] OTHER -> 14000
    IN IF codec.profile = HIGH THEN (bitrate * 5) \div 4 ELSE bitrate

\* Mutant of Encoded: the best the encoder can do.
EncodedBest(encoder, codec) == IF encoder # "openh264" THEN HIGH ELSE BASE

\* The profile that an encoder is set to.
Encoded(encoder, codec) == IF encoder # "openh264" /\ codec.profile = HIGH THEN HIGH ELSE BASE

\* wfd_configure_media_element: audio is hooked up or locked.
Configure ==
    /\ Streams /\ server = "wfd" /\ pipeline # None /\ ~ reading
    /\ None \notin {params.selected_codec, params.selected_resolution}
    /\ pipeline' = [video |-> [pipeline.video EXCEPT !.profile = Encoded(pipeline.video.encoder, params.selected_codec)],
                    audio |-> IF pipeline.audio = "none" THEN "none"
                              ELSE IF params.selected_audio THEN "linked" ELSE "locked",
                    configured |-> TRUE,
                    bitrate |-> IF MaxBitrate(params.selected_codec) < 4096
                                THEN MaxBitrate(params.selected_codec) ELSE 4096]
    /\ UNCHANGED <<search, aborted, client>>
-----------------------------------------------------------------------------
\* wfd_params_new: a codec for tests.
DefaultCodec == [profile |-> BASE, level |-> 1]

Init ==
    /\ \/ server = "wfd" /\ installed \in SUBSET WfdElements
       \/ server = "cast" /\ installed \in SUBSET CastElements
    /\ named = {} /\ rounds = 0 /\ row = 0 /\ pipeline = None /\ aborted = "no"
    /\ params = [video_codecs |-> <<DefaultCodec>>, selected_codec |-> DefaultCodec,
                 selected_resolution |-> FullHD, audio_codecs |-> {}, selected_audio |-> FALSE,
                 primary |-> 16384, secondary |-> 0, rtcp_port_invalid |-> FALSE]
    /\ reading = FALSE /\ answers = 0 /\ idles = 0 /\ told = None /\ plain = FALSE

Next ==
    \/ StartStream \/ \E e \in named : Installs(e)
    \/ \E audio \in BOOLEAN : CreatePipeline(audio) \/ \E video \in BOOLEAN : CreateCast(video, audio)
    \/ BeginsToRead \/ ReadLine \/ Select \/ BecomePlain \/ SetParams \/ Configure

Spec == Init /\ [][Next]_vars
-----------------------------------------------------------------------------
\* "Please install one of the following GStreamer plugins" (nd-codec-install.c:196): a
\* user who does so, whichever is chosen, has a stream after two rounds at most: a
\* failed lookup names what is missing, and one of it is enough.
Repairable == rounds =< 2

\* The codec of this profile with the highest level.
BestOf(codecs) == CHOOSE c \in codecs : \A d \in codecs : d.level =< c.level

\* What wfd_client_select_codec_and_resolution is to choose of a list.
Best(codecs, profile) ==
    LET OfProfile(p) == {c \in Range(codecs) : c.profile = p}
    IN IF codecs = <<>> THEN None
       ELSE IF OfProfile(profile) # {} THEN BestOf(OfProfile(profile))
       ELSE BestOf(OfProfile(Head(codecs).profile))

\* After an answer the selection is the best of the lists it has left behind, in
\* whatever order its lines came and whatever an earlier answer had left: the highest
\* level of the baseline profile, of the first one's if there is none; audio if the
\* sink takes AAC with two channels.
Selected ==
    answers > 0 /\ ~ reading =>
        /\ params.selected_codec = Best(params.video_codecs, BASE)
        /\ params.selected_audio <=> "stereo" \in params.audio_codecs

\* What is encoded is what SET_PARAMETER announced (wfd_client_set_params on the main
\* loop, wfd_configure_media_element on the server's): no high profile and no audio
\* that the sink was not told of, unless it answers twice.
EncodedAsTold ==
    told # None /\ pipeline # None /\ answers = 1 /\ ~ reading =>
        /\ pipeline.video.profile = HIGH => told.profile = HIGH
        /\ pipeline.audio = "linked" => told.audio

\* RTCP never shares the port of RTP, whatever the sink sends: the check of
\* wfd_params_from_sink is on the values the 16-bit fields keep.
PortsApart == params.secondary # params.primary
=============================================================================
