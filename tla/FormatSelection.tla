---------------------------- MODULE FormatSelection ----------------------------
(***************************************************************************)
(* Which of the formats a source offers are recommended, listed and sent:  *)
(* the favourite rules, the filters of the full list, the pages both are   *)
(* shown on, and the audio track that goes with a video without one.       *)
(*                                                                         *)
(* A format is a record; what two formats are compared by are numbers      *)
(* (0 is an unknown height, frame rate or bit rate, Huge an unknown size;  *)
(* frame rates are in hundredths).                                         *)
(* The names a codec goes by are one value.                                *)
(***************************************************************************)
EXTENDS Integers, SequencesExt

CONSTANTS AnyValue, BestValue, OtherValue,  \* the choices that are no values
          Common,                           \* per dimension, what is not "other"
          None

Dimensions == <<"codec", "resolution", "fps", "container">>
Huge == 2^30

(* Python's order of tuples. *)
Before(a, b) == \E i \in DOMAIN a : a[i] < b[i] /\ \A j \in 1..(i - 1) : a[j] = b[j]

(* The elements of S in the order of their keys, which are all different.  *)
Sorted(S, key) ==
    [i \in 1..Cardinality(S) |->
        CHOOSE x \in S : Cardinality({y \in S : Before(key[y], key[x])}) = i - 1]

(* The element whose key comes first. *)
First(S, key) == CHOOSE x \in S : \A y \in S \ {x} : Before(key[x], key[y])

(***************************************************************************)
(* Favourite rules.  A rule wants a sequence of values in each dimension.  *)
(***************************************************************************)
Wildcard(d, v) == v = AnyValue \/ (d = "fps" /\ v = BestValue)

(* Python's round: a half goes to the even neighbour. *)
Rounded(hundredths) ==
    LET whole == hundredths \div 100
        rest == hundredths % 100
    IN  IF rest > 50 \/ (rest = 50 /\ whole % 2 = 1) THEN whole + 1 ELSE whole

InWhole(f, d) == IF d = "fps" THEN Rounded(f.fps) ELSE f[d]

Fits(f, d, v) ==
    \/ Wildcard(d, v)
    \/ v = OtherValue /\ InWhole(f, d) \notin Common[d]
    \/ v = InWhole(f, d)

matches_rule(f, wants) ==
    \A d \in DOMAIN wants : \E v \in ToSet(wants[d]) : Fits(f, d, v)

BestFirst(f) == <<-f.resolution, -f.fps, -f.rate, IF f.audio THEN 0 ELSE 1, f.id>>

_rank(f, strategy) ==
    CASE strategy = "smallest" -> <<f.size, -f.resolution, -f.fps, f.id>>
      [] strategy = "ready" -> <<IF f.audio \/ ~f.separate THEN 0 ELSE 1,
                                 -f.resolution, -f.fps, -f.rate, f.id>>
      [] OTHER -> BestFirst(f)

Videos(formats) == {f \in ToSet(formats) : f.video}

EveryRule(rules) == rules
Enabled(rules) == {r \in rules : r.enabled}

AsApplied(rules) == Sorted(rules, [r \in rules |-> <<r.priority, r.id>>])

(* A rule and, for each dimension, the place of one of its values.  All of *)
(* them in order: the rules as they are applied, and for each the product  *)
(* of its values, the last dimension changing fastest.                     *)
Combinations(rules) ==
    UNION {{<<r, c, s, f, k>> : c \in DOMAIN r.wants["codec"], s \in DOMAIN r.wants["resolution"],
                                f \in DOMAIN r.wants["fps"], k \in DOMAIN r.wants["container"]}
           : r \in rules}

InTurn(rules) ==
    Sorted(Combinations(rules),
           [c \in Combinations(rules) |-> <<c[1].priority, c[1].id, c[2], c[3], c[4], c[5]>>])

(* The combination c as a rule that wants one value in each dimension.     *)
Wanted(c) ==
    [d \in ToSet(Dimensions) |->
        <<c[1].wants[d][CASE d = "codec" -> c[2] [] d = "resolution" -> c[3]
                          [] d = "fps" -> c[4] [] OTHER -> c[5]]>>]

Winner(formats, c, strategy) ==
    LET candidates == {f \in Videos(formats) : matches_rule(f, Wanted(c))}
    IN  IF candidates = {} THEN None
        ELSE First(candidates, [f \in candidates |-> _rank(f, strategy)])

match(formats, rules, strategy) ==
    LET inTurn == InTurn(Enabled(rules))
        selected[n \in 0..Len(inTurn)] ==
            IF n = 0 THEN <<>>
            ELSE LET fmt == Winner(formats, inTurn[n], strategy)
                 IN  IF fmt = None \/ Contains(selected[n - 1], fmt) THEN selected[n - 1]
                     ELSE Append(selected[n - 1], fmt)
    IN  selected[Len(inTurn)]

(***************************************************************************)
(* What a reader of docs/format-matching.md expects of it: every format    *)
(* recommended is the best of the source for some combination of a rule    *)
(* that is on, every such format is recommended once, and those of an      *)
(* earlier rule come first.                                                *)
(***************************************************************************)
IsBestFor(f, r, formats, strategy) ==
    \E c \in {w \in [ToSet(Dimensions) -> UNION {ToSet(r.wants[d]) : d \in ToSet(Dimensions)}] :
                  \A d \in ToSet(Dimensions) : w[d] \in ToSet(r.wants[d])} :
        LET Meets(g) == \A d \in ToSet(Dimensions) : Fits(g, d, c[d]) IN
        /\ Meets(f)
        /\ \A g \in Videos(formats) \ {f} : Meets(g) => Before(_rank(f, strategy), _rank(g, strategy))

IsRecommendation(chosen, formats, rules, strategy) ==
    LET by == [f \in Videos(formats) |->
                {r \in rules : r.enabled /\ IsBestFor(f, r, formats, strategy)}]
        OfTheFirst(f) == LET r == First(by[f], [q \in by[f] |-> <<q.priority, q.id>>])
                         IN  <<r.priority, r.id>>
    IN  /\ ToSet(chosen) = {f \in Videos(formats) : by[f] # {}}
        /\ IsInjective(chosen)
        /\ \A i, j \in DOMAIN chosen :
              i < j => ~Before(OfTheFirst(chosen[j]), OfTheFirst(chosen[i]))

(***************************************************************************)
(* The full list: what the filters let through, the best first.            *)
(***************************************************************************)
filtered_video_formats(formats, filters) ==
    LET through == {f \in Videos(formats) : matches_rule(f, filters)}
    IN  Sorted(through, [f \in through |-> <<-f.resolution, -f.fps, f.id>>])

(***************************************************************************)
(* Pages.  The page asked for is on an older keyboard, so it may not exist *)
(* any more.                                                               *)
(***************************************************************************)
Pages(n, size) == IF n = 0 THEN 1 ELSE (n + size - 1) \div size
ClampedPastTheEnd(page, n, size) == IF page > Pages(n, size) THEN Pages(n, size) ELSE page
Clamped(page, n, size) == IF page > Pages(n, size) - 1 THEN Pages(n, size) - 1 ELSE page
OnPage(values, page, size) ==
    LET first == Clamped(page, Len(values), size) * size
    IN  SubSeq(values, first + 1, IF first + size < Len(values) THEN first + size ELSE Len(values))

(***************************************************************************)
(* The companion of a video without sound.  Equal tracks keep the order of *)
(* the source.                                                             *)
(***************************************************************************)
AudioTracks(formats) == {i \in DOMAIN formats : formats[i].audio /\ ~formats[i].video}

(* The original goes before English, whatever docs/format-matching.md:5 says. *)
AudioScoreInOneSum(f) == <<-(500 * f.original + 300 * f.default + f.language + f.quality - 400 * f.commentary)>>
AudioScore(f) == <<f.commentary, -f.original, -f.default, -f.language, -f.quality>>

select_default_audio(formats, video) ==
    IF video.audio \/ ~video.separate \/ AudioTracks(formats) = {} THEN None
    ELSE formats[First(AudioTracks(formats),
                        [i \in AudioTracks(formats) |-> Append(AudioScore(formats[i]), i)])]
================================================================================
