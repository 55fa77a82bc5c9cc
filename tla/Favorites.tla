------------------------------- MODULE Favorites -------------------------------
(***************************************************************************)
(* The quality menus of one user: the favourite rules and their editor,    *)
(* the recommended formats, the full list with its filters, the choice of  *)
(* a format and of its audio.                                              *)
(*                                                                         *)
(* Every press of a button is a task of its own that reads rows, computes  *)
(* and writes, one statement per await; between two statements of one any  *)
(* statement of another may come.  A keyboard stays on the screen, so a    *)
(* button may be pressed long after its rule is gone.                      *)
(***************************************************************************)
EXTENDS FormatSelection

CONSTANTS Presses,    \* bound: the presses made, each once
          MaxViews,   \* bound: those of them that leave the rules alone
          RuleIds,    \* bound: rule identifiers, drawn at random
          FirstIds,   \* those of the rules there are at first
          Formats,    \* the formats of each media session
          Criteria,   \* <<dimension, value>> pairs on the keyboards
          PageSize, MaxPage,
          MaxFaults   \* bound: rows the database refuses

ASSUME RuleIdAssumption == RuleIds \subseteq Int /\ FirstIds \subseteq RuleIds
ASSUME PageAssumption == PageSize \in Nat \ {0} /\ MaxPage \in Nat

ASSUME FaultAssumption == MaxFaults \in Nat

(* The editor offers "best" for the frame rate only. *)
ASSUME CriteriaAssumption ==
    \A c \in Criteria : c[1] \in ToSet(Dimensions) /\ (c[2] = BestValue => c[1] = "fps")

Sessions == DOMAIN Formats

(* What a source offers.  No two formats have the same key, and the        *)
(* numbers that formats are compared by are known, if only as unknown.     *)
ASSUME FormatsAssumption ==
    \A s \in Sessions :
        /\ Formats[s] \in Seq(ToSet(Formats[s]))
        /\ \A i, j \in DOMAIN Formats[s] : i # j => Formats[s][i].id # Formats[s][j].id
        /\ \A f \in ToSet(Formats[s]) :
              /\ f # None /\ f.id \in Int /\ {f.video, f.audio, f.separate} \subseteq BOOLEAN
              /\ f.video => {f.resolution, f.fps, f.rate, f.size} \subseteq Int
              /\ f.audio /\ ~f.video => /\ {f.commentary, f.original} \subseteq {0, 1}
                                       /\ {f.default, f.language, f.quality} \subseteq Int

VARIABLES rules,     \* table favorite_format_rules, of this user
          settings,  \* row of table user_settings; None when there is none yet
          filters,   \* format_filters drafts, per session; None when there is none
          unused,    \* identifiers no rule has had
          press,
          shown,     \* the last list of formats put on the screen
          submitted, \* the last selection submitted
          faults,
          gone,      \* history: rules deleted
          kept,      \* history: those of them that another handler still held
          inOrder    \* history: nothing has left a gap or a tie in the order

tables  == <<rules, settings, filters, unused>>
screens == <<shown, submitted>>
history == <<gone, kept, inOrder>>
vars    == <<tables, press, screens, faults, history>>

(***************************************************************************)
(* Rules.                                                                  *)
(***************************************************************************)
AnyWants == [d \in ToSet(Dimensions) |-> IF d = "fps" THEN <<BestValue>> ELSE <<AnyValue>>]

Rule(id, priority) ==
    [id |-> id, priority |-> priority, enabled |-> TRUE, wants |-> AnyWants, created |-> 0]

ById(id, R) == {r \in R : r.id = id}

Listed(R) == Sorted(R, [r \in R |-> <<r.priority, r.created>>])

(* INSERT ... ON CONFLICT(rule_id) DO UPDATE: created_at stays.  A new row  *)
(* is the youngest there is.                                               *)
Saved(r, R) ==
    LET row == IF ById(r.id, R) = {} THEN [r EXCEPT !.created = 1 + Max({0} \cup {q.created : q \in R})]
               ELSE [r EXCEPT !.created = (CHOOSE q \in ById(r.id, R) : TRUE).created]
    IN  (R \ ById(r.id, R)) \cup {row}

NextPosition(list) == Len(list)

AFreshId == unused

(* A press on a value of the editor, and on one of the filter keyboard. *)
Without(values, dropped) ==
    LET rest[n \in 0..Len(values)] ==
            IF n = 0 THEN <<>>
            ELSE IF values[n] \in dropped THEN rest[n - 1]
            ELSE Append(rest[n - 1], values[n])
    IN  rest[Len(values)]

Toggled(values, v) ==
    LET others == Without(values, {AnyValue, BestValue, v})
    IN  IF Contains(values, v) THEN IF others = <<>> THEN <<AnyValue>> ELSE others
        ELSE Append(others, v)

WithCriterion(r, d, v) ==
    [r EXCEPT !.wants[d] = IF Wildcard(d, v) THEN <<v>> ELSE Toggled(@, v)]

FilterToggled(values, v) ==
    LET others == Without(values, {AnyValue, v})
    IN  IF v = AnyValue THEN <<AnyValue>>
        ELSE IF Contains(values, v) THEN IF others = <<>> THEN <<AnyValue>> ELSE others
        ELSE Append(others, v)

IndexIn(list, id) == IF \E i \in DOMAIN list : list[i].id = id
                     THEN CHOOSE i \in DOMAIN list : list[i].id = id ELSE 0

TargetAround(i, n, delta) == IF i + delta < 1 THEN n ELSE IF i + delta > n THEN 1 ELSE i + delta
Target(i, n, delta) == IF i + delta < 1 THEN 1 ELSE IF i + delta > n THEN n ELSE i + delta

(* The rows a move writes: all of them, numbered anew. *)

Renumbered(list, i, t) ==
    IF i = 0 \/ t = i THEN <<>>
    ELSE [k \in DOMAIN list |->
            [list[CASE k = i -> t [] k = t -> i [] OTHER -> k] EXCEPT !.priority = k - 1]]

(***************************************************************************)
(* The buttons.                                                            *)
(***************************************************************************)
Known == RuleIds \ unused

Keys(F) == {f.id : f \in F}
Tracks(s) == {Formats[s][i] : i \in AudioTracks(Formats[s])}
get_format_by_key(s, key) == CHOOSE f \in ToSet(Formats[s]) : f.id = key

RuleButtons ==
         [do : {"favorites", "fadd"}]
    \cup [do : {"frtoggle"}, rule : Known, criterion : Criteria]
    \cup [do : {"enable", "dup", "delete"}, rule : Known]
    \cup [do : {"move"}, rule : Known, delta : {-1, 1}]

ViewButtons ==
         [do : {"strategy"}, as : {"best", "smallest", "ready"}]
    \cup [do : {"auto_audio"}]
    \cup [do : {"preferred", "all"}, session : Sessions, page : 0..MaxPage]
    \cup [do : {"ftoggle"}, session : Sessions, criterion : Criteria]
    \cup [do : {"freset"}, session : Sessions]
    \cup (UNION {[do : {"fmt"}, session : {s}, video : Keys(Videos(Formats[s]))] : s \in Sessions})
    \cup (UNION {[do : {"fmta"}, session : {s}, video : Keys({f \in Videos(Formats[s]) : f.separate}),
                  audio : Keys(Tracks(s))] : s \in Sessions})

Views == Cardinality({p \in Presses : press[p].pc # "idle" /\ press[p].button.do \in {b.do : b \in ViewButtons}})
Buttons == RuleButtons \cup IF Views < MaxViews THEN ViewButtons ELSE {}

Idle == [pc |-> "idle"]

(* Where the handler of a button begins. *)
Start(b) ==
    CASE b.do \in {"frtoggle", "enable", "dup", "move", "delete"} -> "get"
      [] b.do = "fadd" -> "list"
      [] b.do = "favorites" -> "ensure"
      [] b.do \in {"strategy", "auto_audio", "preferred", "fmt"} -> "settings"
      [] b.do \in {"all", "ftoggle"} -> "filters"
      [] b.do = "freset" -> "reset"
      [] OTHER -> "submit"

At(p, pc) == press[p].pc = pc
Goes(p, pc) == press' = [press EXCEPT ![p].pc = pc]

(* A handler that has ended has no locals. *)
Over(me) == [pc |-> "done", button |-> [do |-> me.button.do]]
Continues(me, pc) == IF pc = "done" THEN Over(me) ELSE [me EXCEPT !.pc = pc]
Ends(p) == press' = [press EXCEPT ![p] = Over(@)]

Press(p) ==
    /\ At(p, "idle")
    /\ \E b \in Buttons :
          press' = [press EXCEPT ![p] =
                      [pc |-> Start(b), button |-> b, copy |-> None, list |-> <<>>, todo |-> <<>>,
                       stale |-> FALSE]]
    /\ UNCHANGED <<tables, screens, faults, history>>

(***************************************************************************)
(* A write to the rules makes stale what other handlers have read of them. *)
(***************************************************************************)
HasRead(q) == press[q].pc \in {"write", "default"}

Disturbing(p, pressed) ==
    press' = [q \in Presses |-> IF q = p THEN pressed
                                ELSE IF HasRead(q) THEN [press[q] EXCEPT !.stale = TRUE] ELSE press[q]]

(* get_favorite_rule: a handler whose rule is gone ends. *)
Get(p) ==
    /\ At(p, "get")
    /\ LET b == press[p].button
           found == ById(b.rule, rules)
           Copy == CHOOSE r \in found : TRUE
           Writes(r) == [press[p] EXCEPT !.pc = "write", !.todo = <<r>>]
       IN  press' = [press EXCEPT ![p] =
             IF found = {} THEN Over(@)
             ELSE CASE b.do = "frtoggle" -> Writes(WithCriterion(Copy, b.criterion[1], b.criterion[2]))
                    [] b.do = "enable" -> Writes([Copy EXCEPT !.enabled = ~@])
                    [] b.do = "dup" -> [@ EXCEPT !.pc = "source"]
                    [] b.do = "move" -> [@ EXCEPT !.pc = "list"]
                    [] OTHER -> [@ EXCEPT !.pc = "delete"]]
    /\ UNCHANGED <<tables, screens, faults, history>>

(* duplicate_favorite_rule reads its source once more. *)
Source(p) ==
    /\ At(p, "source")
    /\ LET found == ById(press[p].button.rule, rules) IN
       press' = [press EXCEPT ![p] = IF found = {} THEN [@ EXCEPT !.pc = "ensure"]
                                     ELSE [@ EXCEPT !.pc = "list", !.copy = CHOOSE r \in found : TRUE]]
    /\ UNCHANGED <<tables, screens, faults, history>>

(* list_favorite_rules, and what the handler makes of it. *)
List(p) ==
    /\ At(p, "list")
    /\ LET list == Listed(rules)
           b == press[p].button
           i == IndexIn(list, b.rule)
           Writes(todo) == press' = [press EXCEPT ![p] =
                [@ EXCEPT !.pc = IF todo = <<>> THEN "ensure" ELSE "write",
                          !.list = list, !.todo = todo, !.stale = FALSE]]
       IN  \/ /\ b.do = "move"
              /\ Writes(Renumbered(list, i, Target(i, Len(list), b.delta)))
              /\ UNCHANGED unused
           \/ /\ b.do \in {"fadd", "dup"}
              /\ \E id \in AFreshId :
                    /\ Writes(<<IF b.do = "fadd" THEN Rule(id, NextPosition(list))
                                ELSE [press[p].copy EXCEPT !.id = id, !.priority = NextPosition(list)]>>)
                    /\ unused' = unused \ {id}
    /\ UNCHANGED <<rules, settings, filters, screens, faults, history>>

Finish(b) == IF b.do = "preferred" THEN "show" ELSE "done"

(* Most handlers go back to the list of the rules. *)
AfterWrites(me) ==
    IF me.pc = "default" THEN Finish(me.button)
    ELSE IF me.button.do \in {"fadd", "frtoggle"} THEN "done" ELSE "ensure"

(***************************************************************************)
(* save_favorite_rule, one of those the handler has to make.  A move that  *)
(* comes to its end undisturbed has put the whole order right.             *)
(***************************************************************************)
Write(p) ==
    /\ HasRead(p)
    /\ LET me == press[p]
           last == Len(me.todo) = 1
       IN
       /\ rules' = Saved(Head(me.todo), rules)
       /\ Disturbing(p, Continues([me EXCEPT !.todo = Tail(@)], IF last THEN AfterWrites(me) ELSE me.pc))
       /\ inOrder' = IF me.pc = "write" /\ me.button.do = "move" THEN ~me.stale /\ last
                     ELSE inOrder /\ ~me.stale
    /\ UNCHANGED <<settings, filters, unused, screens, faults, gone, kept>>

(* delete_favorite_rule *)
AfterDeleteNothing == "done"
AfterDelete == "ensure"

Delete(p) ==
    /\ At(p, "delete")
    /\ LET found == ById(press[p].button.rule, rules)
           Holds(q, id) == HasRead(q) /\ \E k \in DOMAIN press[q].todo : press[q].todo[k].id = id
       IN
       /\ rules' = rules \ found
       /\ gone' = gone \cup {r.id : r \in found}
       /\ kept' = kept \cup {r.id : r \in {x \in found : \E q \in Presses \ {p} : Holds(q, x.id)}}
       /\ inOrder' = (inOrder /\ found = {})
       /\ Disturbing(p, Continues(press[p], AfterDelete))
    /\ UNCHANGED <<settings, filters, unused, screens, faults>>

(* ensure_default_favorite_rules: nobody is left without a rule. *)
Ensure(p) ==
    /\ At(p, "ensure")
    /\ \/ /\ rules # {}
          /\ press' = [press EXCEPT ![p] = Continues([@ EXCEPT !.list = Listed(rules)], Finish(press[p].button))]
          /\ UNCHANGED unused
       \/ /\ rules = {}
          /\ \E id \in AFreshId :
                LET default == <<Rule(id, 0)>> IN
                /\ press' = [press EXCEPT ![p] =
                        [@ EXCEPT !.list = default, !.todo = default, !.stale = FALSE, !.pc = "default"]]
                /\ unused' = unused \ {id}
    /\ UNCHANGED <<rules, settings, filters, screens, faults, history>>

(***************************************************************************)
(* Settings, recommendations and the choice of a format.                   *)
(***************************************************************************)
Submit(p, audio) ==
    /\ submitted' = [button |-> press[p].button, audio |-> audio]
    /\ Ends(p)

HasCompanion(video, audio) == video.separate => audio # None

DefaultSettings == [strategy |-> "best", automatic_audio |-> TRUE]

(* What a handler does with the settings it was given.  The session still  *)
(* has the video of the button: a saved session keeps its formats, so the  *)
(* answers "unavailable" are not modelled.                                 *)
UsesSettings(p, mine) ==
    LET b == press[p].button
        video == get_format_by_key(b.session, b.video)
        audio == select_default_audio(Formats[b.session], video)
    IN  \/ /\ b.do \in {"strategy", "auto_audio", "preferred"}
           /\ press' = [press EXCEPT ![p] =
                 [@ EXCEPT !.copy = mine, !.pc = IF b.do = "preferred" THEN "ensure" ELSE "save"]]
           /\ UNCHANGED submitted
        \/ /\ b.do = "fmt"
           /\ video.separate => mine.automatic_audio
           /\ HasCompanion(video, audio)
           /\ Submit(p, IF audio = None THEN None ELSE audio.id)
        \/ /\ b.do = "fmt"   \* the audio keyboard, or a refusal
           /\ \/ video.separate /\ ~mine.automatic_audio
              \/ ~HasCompanion(video, audio)
           /\ Ends(p)
           /\ UNCHANGED submitted

(* get_user_settings: the row, or the default one, which it writes first.  *)
(* The row another handler has saved in between is overwritten.            *)
GetSettings(p) ==
    /\ At(p, "settings")
    /\ \/ settings # None /\ UsesSettings(p, settings)
       \/ settings = None /\ Goes(p, "insert") /\ UNCHANGED submitted
    /\ UNCHANGED <<tables, shown, faults, history>>

InsertSettings(p) ==
    /\ At(p, "insert")
    /\ settings' = DefaultSettings
    /\ UsesSettings(p, DefaultSettings)
    /\ UNCHANGED <<rules, filters, unused, shown, faults, history>>

SaveSettings(p) ==
    /\ At(p, "save")
    /\ LET b == press[p].button IN
       settings' = IF b.do = "strategy" THEN [press[p].copy EXCEPT !.strategy = b.as]
                   ELSE [press[p].copy EXCEPT !.automatic_audio = ~@]
    /\ Ends(p)
    /\ UNCHANGED <<rules, filters, unused, screens, faults, history>>

(* exact_audio: the video and the audio were chosen on the keyboards. *)
SubmitExact(p) ==
    /\ At(p, "submit")
    /\ Submit(p, press[p].button.audio)
    /\ UNCHANGED <<tables, shown, faults, history>>

Shows(p, list, page, by) ==
    /\ LET keys == [i \in DOMAIN list |-> list[i].id] IN
       shown' = [list |-> keys, asked |-> page, visible |-> OnPage(keys, page, PageSize), by |-> by]
    /\ Ends(p)

(* The rules and the strategy are those the handler has read. *)
Show(p) ==
    /\ At(p, "show")
    /\ LET me == press[p]
           by == [session |-> me.button.session, rules |-> ToSet(me.list),
                  strategy |-> me.copy.strategy]
       IN  Shows(p, match(Formats[by.session], by.rules, by.strategy), me.button.page, by)
    /\ UNCHANGED <<tables, submitted, faults, history>>

(***************************************************************************)
(* The full list and its filters.                                          *)
(***************************************************************************)
NoFilters == [d \in ToSet(Dimensions) |-> <<AnyValue>>]

GetFilters(p) ==
    /\ At(p, "filters")
    /\ LET stored == filters[press[p].button.session] IN
       press' = [press EXCEPT ![p] =
          [@ EXCEPT !.copy = IF stored = None THEN NoFilters ELSE stored,
                    !.pc = IF stored = None THEN "reset" ELSE "filtered"]]
    /\ UNCHANGED <<tables, screens, faults, history>>

ShowFiltered(p, chosen, page) ==
    Shows(p, filtered_video_formats(Formats[press[p].button.session], chosen), page, None)

SaveFilters(p, chosen) ==
    /\ filters' = [filters EXCEPT ![press[p].button.session] = chosen]
    /\ UNCHANGED <<rules, settings, unused, submitted, faults, history>>

(* Clear filters, and the draft that a first look at the list creates. *)
ResetFilters(p) ==
    /\ At(p, "reset")
    /\ SaveFilters(p, NoFilters)
    /\ \/ press[p].button.do = "freset" /\ ShowFiltered(p, NoFilters, 0)
       \/ press[p].button.do # "freset" /\ Goes(p, "filtered") /\ UNCHANGED shown

AllFormats(p) ==
    /\ At(p, "filtered")
    /\ press[p].button.do = "all"
    /\ ShowFiltered(p, press[p].copy, press[p].button.page)
    /\ UNCHANGED <<tables, submitted, faults, history>>

ToggleFilter(p) ==
    /\ At(p, "filtered")
    /\ press[p].button.do = "ftoggle"
    /\ LET c == press[p].button.criterion IN
       SaveFilters(p, [press[p].copy EXCEPT ![c[1]] = FilterToggled(@, c[2])])
    /\ Ends(p)
    /\ UNCHANGED shown

(* The database refuses a row, and the exception ends the handler, a move   *)
(* perhaps halfway.                                                        *)
Raise(p) ==
    /\ HasRead(p)
    /\ faults < MaxFaults
    /\ faults' = faults + 1
    /\ Ends(p)
    /\ UNCHANGED <<tables, screens, history>>

(***************************************************************************)
(* A new user, or one with settings and two rules, the older with either   *)
(* identifier.                                                             *)
(***************************************************************************)
Init ==
    /\ \/ rules = {} /\ unused = RuleIds
       \/ \E r, s \in FirstIds : r # s /\
             /\ rules = {[Rule(r, 0) EXCEPT !.created = 1], [Rule(s, 1) EXCEPT !.created = 2]}
             /\ unused = RuleIds \ {r, s}
    /\ settings = IF rules = {} THEN None ELSE DefaultSettings
    /\ filters = [s \in Sessions |-> None]
    /\ press = [p \in Presses |-> Idle]
    /\ shown = None /\ submitted = None
    /\ faults = 0
    /\ gone = {} /\ kept = {} /\ inOrder = TRUE

Step(p) ==
    \/ Press(p) \/ Get(p) \/ Source(p) \/ List(p) \/ Write(p) \/ Delete(p) \/ Ensure(p)
    \/ GetSettings(p) \/ InsertSettings(p) \/ SaveSettings(p) \/ SubmitExact(p) \/ Show(p)
    \/ GetFilters(p) \/ ResetFilters(p) \/ AllFormats(p) \/ ToggleFilter(p) \/ Raise(p)

Next == \E p \in Presses : Step(p)

Spec == Init /\ [][Next]_vars

(***************************************************************************)
(* What must hold.                                                         *)
(***************************************************************************)
Pcs == {"idle", "get", "source", "list", "write", "delete", "ensure", "default", "settings", "insert", "save",
        "submit", "show", "filters", "filtered", "reset", "done"}

Values(d) == {c[2] : c \in {x \in Criteria : x[1] = d}}

(* A criterion is "any", or "best" for the frame rate, or specific values, *)
(* each once: "Any is exclusive with specific values"                      *)
(* (docs/format-matching.md).                                              *)
Exclusive(values, d) ==
    /\ values # <<>> /\ IsInjective(values)
    /\ \/ \E v \in {AnyValue, BestValue} : values = <<v>>
       \/ ToSet(values) \subseteq Values(d) \ {AnyValue, BestValue}

TypeOK ==
    /\ \A r \in rules :
          /\ r.id \in RuleIds \ unused /\ r.priority \in Nat /\ r.created \in Nat \ {0}
          /\ \A d \in ToSet(Dimensions) : Exclusive(r.wants[d], d)
    /\ \A r, s \in rules : r # s => r.id # s.id /\ r.created # s.created
    /\ settings = None \/ settings \in [strategy : {"best", "smallest", "ready"}, automatic_audio : BOOLEAN]
    /\ \A p \in Presses : press[p].pc \in Pcs
    /\ faults \in 0..MaxFaults /\ inOrder \in BOOLEAN /\ kept \subseteq gone

(* A rule that was deleted does not come back, unless a handler had read   *)
(* it before and writes its copy afterwards (save_favorite_rule inserts    *)
(* what it does not find).                                                 *)
DeletedStaysDeleted == \A r \in rules : r.id \in gone => r.id \in kept

(* When the handlers are done, a user who has opened the rules or deleted  *)
(* the last one has a rule: ensure_default_favorite_rules comes after.     *)
AtRest == \A p \in Presses : press[p].pc \in {"idle", "done"}
Opened == gone # {} \/ \E p \in Presses :
              At(p, "done") /\ press[p].button.do \in {"favorites", "preferred", "fadd"}
NeverWithoutARule == AtRest /\ Opened /\ faults = 0 => rules # {}

(* Overlapping edits neither bring a rule back nor leave the user without. *)
RulesAreKept == TypeOK /\ DeletedStaysDeleted /\ NeverWithoutARule

(* As long as no rule was deleted and no two handlers overlapped, the      *)
(* rules have positions of their own, so the order that is shown           *)
(* (priority, then age) is the order they are applied in (priority, then   *)
(* identifier).                                                            *)
ShownAsApplied ==
    inOrder => \A r, s \in rules : r # s =>
        (Before(<<r.priority, r.created>>, <<s.priority, s.created>>)
         <=> Before(<<r.priority, r.id>>, <<s.priority, s.id>>))

(* A move that nothing disturbed moves its rule one place in the list that *)
(* was shown and leaves the others in their order, whatever gaps and ties  *)
(* the positions had; and from then on the list is applied as shown.       *)
Ids(list) == [i \in DOMAIN list |-> list[i].id]
Moved(before, after, id, delta) ==
    LET place(s) == CHOOSE i \in DOMAIN s : s[i] = id
    IN  Without(before, {id}) = Without(after, {id}) /\ place(after) = place(before) + delta
MovesOneStep ==
    [][\A p \in Presses :
         (At(p, "write") /\ press[p].button.do = "move" /\ press'[p].pc = "ensure" /\ ~press[p].stale)
         => /\ Moved(Ids(press[p].list), Ids(Listed(rules')), press[p].button.rule, press[p].button.delta)
            /\ Listed(rules') = AsApplied(rules')]_vars

(* The order on the screen is the order that counts.                       *)
OrderAsShown == []ShownAsApplied /\ MovesOneStep

(* What is recommended is what the rules ask for: FavoriteMatcher.match    *)
(* against its declarative meaning.                                        *)
RecommendedIsBest ==
    [][shown' # shown /\ shown'.by # None =>
         LET by == shown'.by IN
         IsRecommendation([i \in DOMAIN shown'.list |-> get_format_by_key(by.session, shown'.list[i])],
                          Formats[by.session], by.rules, by.strategy)]_shown

(* A page from an older keyboard still shows formats when there are any,   *)
(* it is the page asked for when that exists, and every format is on one   *)
(* page.                                                                   *)
EveryQualityIsOnOnePage ==
    shown # None =>
       LET n == Pages(Len(shown.list), PageSize)
           page(k) == OnPage(shown.list, k, PageSize)
       IN  /\ shown.visible = <<>> <=> shown.list = <<>>
           /\ Len(shown.visible) <= PageSize
           /\ shown.visible = page(IF shown.asked < n THEN shown.asked ELSE n - 1)
           /\ FlattenSeq([k \in 1..n |-> page(k - 1)]) = shown.list

(* A video that needs a separate audio stream is never submitted without   *)
(* one of its session, and one with sound never with another.              *)
NoSilentVideo ==
    submitted # None =>
       LET b == submitted.button IN
       IF get_format_by_key(b.session, b.video).separate
       THEN submitted.audio \in Keys(Tracks(b.session)) ELSE submitted.audio = None

(* format_manager.py:239: a companion is a commentary only when every track *)
(* is, not a dubbed one when the original is there, and in the preferred   *)
(* language among tracks that are otherwise alike.                         *)
Alike(f, g) == f.commentary = g.commentary /\ f.original = g.original /\ f.default = g.default

IsCompanion(a, tracks) ==
    LET spoken == {f \in tracks : f.commentary = 0}
        originals == {f \in spoken : f.original = 1}
    IN  /\ a \in tracks
        /\ spoken # {} => a \in spoken
        /\ originals # {} => a \in originals
        /\ \A f \in tracks : Alike(f, a) => f.language <= a.language

Automatic == submitted # None /\ submitted.button.do = "fmt" /\ submitted.audio # None

(* A companion that select_default_audio chose is the one it says.         *)
CompanionIsTheOriginal ==
    Automatic => \E a \in Tracks(submitted.button.session) :
                    a.id = submitted.audio /\ IsCompanion(a, Tracks(submitted.button.session))

(* docs/format-matching.md:5: "avoiding commentary/descriptive tracks, then *)
(* English, original/default identity".  It does not hold of the code,     *)
(* where an original in another language goes before an English dub.       *)
EnglishBeforeOriginal ==
    Automatic => \A f \in Tracks(submitted.button.session) :
                    f.commentary = 0 /\ f.id # submitted.audio =>
                       f.language <= get_format_by_key(submitted.button.session, submitted.audio).language

(* A video is sent with the sound that belongs to it.                      *)
SoundIsRight == NoSilentVideo /\ CompanionIsTheOriginal
================================================================================
