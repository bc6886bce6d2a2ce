---------------------------- MODULE MediaFactory ----------------------------
(***************************************************************************)
(* The choice of GStreamer elements for a stream, by wfd-media-factory.c   *)
(* and cc-media-factory.c: tables of profiles, the first of which that is  *)
(* installed is taken, and what the user is asked to install if there is   *)
(* none.  Both servers ask for any profile (PROFILE_LAST).                 *)
(***************************************************************************)
EXTENDS Naturals, FiniteSets, SequencesExt

Row(profile, video, audio, muxer) ==
    [profile |-> profile, video |-> video, audio |-> audio, muxer |-> muxer]

\* All rows of one profile, video by video.
Rows(profile, videos, audios, muxer) ==
    [i \in 1 .. Len(videos) * Len(audios) |->
        Row(profile, videos[((i - 1) \div Len(audios)) + 1],
            audios[((i - 1) % Len(audios)) + 1], muxer)]

\* wfd_media_factory_profiles
WfdProfiles ==
    Rows("high", <<"vah264", "vaapih264", "x264">>, <<"fdk", "avenc", "faac", "none">>, "mpegts")
        \o Rows("base", <<"openh264">>, <<"fdk", "avenc", "faac", "none">>, "mpegts")

\* cc_media_factory_profiles
CastProfiles ==
    Rows("high", <<"vah264", "vaapih264", "x264">>, <<"opus", "fdk", "avenc", "faac", "none">>, "matroska")
        \o <<Row("vorbis", "none", "vorbis", "webm"), Row("vorbis", "none", "vorbis", "matroska"),
             Row("opus", "none", "opus", "webm"), Row("opus", "none", "opus", "matroska")>>
        \o Rows("aac", <<"none">>, <<"fdk", "avenc", "faac">>, "matroska")

WfdElements == UNION {{r.video, r.audio, r.muxer} : r \in Range(WfdProfiles)} \ {"none"}
CastElements == UNION {{r.video, r.audio, r.muxer} : r \in Range(CastProfiles)} \ {"none"}

\* wfd_gst_element_present, cc_gst_element_present: nothing is always found.
\* The first answer for an element is kept for the life of the process.
Present(installed, element) == element = "none" \/ element \in installed

\* The least index: what a loop over a table meets first.
First(indices) == CHOOSE i \in indices : \A j \in indices : i =< j

\* wfd_gst_media_profile_present, cc_gst_media_profile_present: the first row of a
\* profile that is installed, or 0.
ProfilePresent(profiles, profile, installed) ==
    LET fits == {i \in DOMAIN profiles :
                    /\ profiles[i].profile = profile
                    /\ \A e \in {profiles[i].video, profiles[i].audio, profiles[i].muxer} :
                           Present(installed, e)}
    IN IF fits = {} THEN 0 ELSE First(fits)

\* The first profile of order that is present, as a row, or 0.
FirstPresent(profiles, order, installed) ==
    LET present == {i \in DOMAIN order : ProfilePresent(profiles, order[i], installed) # 0}
    IN IF present = {} THEN 0 ELSE ProfilePresent(profiles, order[First(present)], installed)

\* wfd_media_factory_lookup_encoders
WfdLookup(installed) == FirstPresent(WfdProfiles, <<"high", "base">>, installed)

\* cc_media_factory_lookup_encoders
CastLookup(installed) ==
    FirstPresent(CastProfiles, <<"high", "vp8", "vorbis", "opus", "aac">>, installed)

\* What is named when the lookup fails: all that would do, if none of it is installed.
AllUnlessOne(elements, installed) == IF elements \cap installed = {} THEN elements ELSE {}

\* Mutant of WfdMissingVideo: the muxer is not looked at.
WfdMissingEncoder(installed) == AllUnlessOne({"openh264", "x264", "vah264", "vaapih264"}, installed)

\* missing_elements of wfd_media_factory_lookup_encoders
WfdMissingVideo(installed) ==
    LET encoders == AllUnlessOne({"openh264", "x264", "vah264", "vaapih264"}, installed)
    IN IF encoders # {} THEN encoders ELSE {"mpegts"} \ installed

WfdMissingAudio(installed) == AllUnlessOne({"fdk", "avenc", "faac"}, installed)

\* missing_elements of cc_media_factory_lookup_encoders
CastMissingVideo(installed) ==
    IF "x264" \notin installed THEN {"x264"} ELSE {"matroska"} \ installed

CastMissingAudio(installed) == AllUnlessOne({"vorbis", "opus", "fdk"}, installed)
=============================================================================
