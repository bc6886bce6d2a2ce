----------------------------- MODULE MCWfdMedia -----------------------------
(* The instance of WfdMedia that TLC checks. *)
EXTENDS WfdMedia

Codec(profile, level) == [profile |-> profile, level |-> level]

\* Both profiles, both of them at once, none that is known, and a level that does not
\* fit in eight bits.
MCDescriptors == {Codec(1, 1), Codec(1, 2), Codec(2, 4), Codec(3, 1), Codec(4, 1), Codec(1, 257)}

\* Proper ports, the same twice, no second one, the last one, and two that are the same
\* in sixteen bits.
MCPorts == {<<19000, 19001>>, <<19000, 19000>>, <<19000, 0>>, <<65535, 0>>, <<19000, 84536>>}

\* One of each kind of pipeline.
MCFollowed ==
    {{"openh264", "mpegts"}, {"x264", "fdk", "mpegts"}, {"x264", "opus", "matroska"},
     {"x264", "matroska"}, {"vorbis", "webm"}}
=============================================================================
