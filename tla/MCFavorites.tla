------------------------------ MODULE MCFavorites ------------------------------
(* Two sources.  The first has three qualities with sound, one of them of   *)
(* unknown size, one without, and four audio tracks: a commentary marked   *)
(* original, two originals, one of them in a known foreign language, and a *)
(* default English dub.  The second has one video without sound, and no    *)
(* audio track.                                                            *)
EXTENDS Favorites

CONSTANTS p1, p2, p3, h264, vp9, mp4

MCPresses == {p1, p2, p3}
Symmetric == Permutations(MCPresses)

Video(id, resolution, codec, size, audio) ==
    [id |-> id, video |-> TRUE, audio |-> audio, separate |-> ~audio, resolution |-> resolution,
     codec |-> codec, fps |-> CASE id = 3 -> 5994 [] id = 5 -> 2997 [] OTHER -> 3000, container |-> mp4, rate |-> 0, size |-> size]

Audio(id, commentary, original, default, language, quality) ==
    [id |-> id, video |-> FALSE, audio |-> TRUE, separate |-> FALSE, commentary |-> commentary,
     original |-> original, default |-> default, language |-> language, quality |-> quality]

MCFormats ==
    "film" :> << Audio(9, 0, 0, 1, 100, 900), Audio(8, 1, 1, 1, 100, 200), Audio(7, 0, 1, 0, 0, 100), Audio(6, 0, 1, 0, 20, 50),
                 Video(2, 720, h264, 40, TRUE), Video(3, 1080, vp9, Huge, TRUE),
                 Video(4, 0, h264, 30, TRUE), Video(5, 1080, h264, 90, FALSE) >>
    @@ "clip" :> << Video(1, 480, h264, 10, FALSE) >>

MCCommon == [codec |-> {h264, vp9}, resolution |-> {480, 720, 1080}, fps |-> {30, 60}, container |-> {mp4}]

MCCriteria == {<<"fps", 30>>, <<"resolution", OtherValue>>}
================================================================================
